-------------------------- MODULE PageTableProofs --------------------------
(***************************************************************************)
(* Proofs about PageTable.tla.                                             *)
(***************************************************************************)
EXTENDS PageTableInvariant, Iteration

-----------------------------------------------------------------------------
(* Arithmetic: sizes of pages and indices of entries.                      *)

(* get_page_size multiplies by the number of entries at every level.       *)
LEMMA PageSizesDef ==
  PageSizes = [level \in Nat |-> IF level = 0 THEN 1 ELSE N * PageSizes[level - 1]]
<1>1. N \in Nat
  BY PageTableAssumption
<1>2. PICK g \in [Nat -> [Nat -> Nat]] : \A n, s \in Nat : g[n][s] = N * s
  <2>1. [n \in Nat |-> [s \in Nat |-> N * s]] \in [Nat -> [Nat -> Nat]]
    BY <1>1
  <2> QED BY <2>1
<1>3. PICK f \in [Nat -> Nat] : f[0] = 1 /\ \A n \in Nat : f[n + 1] = g[n][f[n]]
  <2>1. \E f : IsIterate(f, Nat, 1, g)
    BY Iterates
  <2> QED BY <2>1 DEF IsIterate
<1>4. ASSUME NEW n \in Nat PROVE f[n + 1] = N * f[n]
  <2>1. f[n] \in Nat
    BY <1>3
  <2> QED BY <1>2, <1>3, <2>1
<1>5. f = [level \in Nat |-> IF level = 0 THEN 1 ELSE N * f[level - 1]]
  <2>1. ASSUME NEW n \in Nat, n # 0 PROVE f[n] = N * f[n - 1]
    <3>1. n - 1 \in Nat /\ n - 1 + 1 = n
      BY <2>1
    <3> QED BY <1>4, <3>1
  <2> QED BY <1>3, <2>1
<1> QED BY <1>5 DEF PageSizes

LEMMA PageSizeType ==
  /\ PageSize(0) = 1
  /\ \A l \in Nat : PageSize(l) \in Nat \ {0} /\ PageSize(l + 1) = N * PageSize(l)
<1>1. PageSizes[0] = 1
  BY PageSizesDef
<1>2. \A l \in Nat : PageSizes[l + 1] = N * PageSizes[l]
  <2> TAKE l \in Nat
  <2>1. l + 1 \in Nat /\ l + 1 # 0 /\ l + 1 - 1 = l
    OBVIOUS
  <2> QED BY <2>1, PageSizesDef
<1>3. \A l \in Nat : PageSizes[l] \in Nat \ {0}
  <2> DEFINE bad == {l \in Nat : PageSizes[l] \notin Nat \ {0}}
  <2> SUFFICES ASSUME bad # {} PROVE FALSE
    OBVIOUS
  <2>1. bad \in SUBSET Nat
    OBVIOUS
  <2>2. PICK l \in bad : \A j \in bad : l <= j
    BY <2>1, LeastOf
  <2>3. l # 0
    BY <1>1, <2>2
  <2>4. l - 1 \in Nat /\ l - 1 \notin bad /\ l - 1 + 1 = l
    BY <2>2, <2>3
  <2>5. PageSizes[l] = N * PageSizes[l - 1] /\ PageSizes[l - 1] \in Nat \ {0}
    BY <1>2, <2>4
  <2>6. N \in Nat \ {0}
    BY PageTableAssumption
  <2>7. \A a, b \in Nat \ {0} : a * b \in Nat \ {0}
    OBVIOUS
  <2> QED BY <2>2, <2>5, <2>6, <2>7
<1> QED BY <1>1, <1>2, <1>3 DEF PageSize

(* get_page_table_index yields an index of the table.                      *)
LEMMA IndexType ==
  ASSUME NEW va \in Nat, NEW l \in Nat
  PROVE  Index(va, l) \in EntryIndex
<1>1. va \div PageSize(l) \in Nat
  BY PageSizeType
<1> QED BY <1>1, PageTableAssumption DEF Index, EntryIndex

(* The entry at offset i of an aligned table has index i.                  *)
LEMMA IndexOfEntry ==
  ASSUME NEW l \in Nat, NEW b \in Nat, b % PageSize(l + 1) = 0, NEW i \in EntryIndex
  PROVE  /\ b + PageSize(l) * i \in Nat
         /\ Index(b + PageSize(l) * i, l) = i
         /\ (b + PageSize(l) * i) % PageSize(l) = 0
<1>1. PICK P \in Nat \ {0} : P = PageSize(l) /\ PageSize(l + 1) = N * P
  BY PageSizeType
<1>2. N \in Nat \ {0} /\ i \in 0..(N - 1) /\ N * P \in Nat \ {0}
  BY PageTableAssumption DEF EntryIndex
<1>3. PICK m \in Nat : b = (N * P) * m
  <2>1. b % (N * P) = 0
    BY <1>1
  <2> QED BY <1>2, <2>1, Multiple
<1>4. PICK q \in Nat : q = N * m + i
  BY <1>2
<1>5. b + P * i = P * q + 0
  BY <1>2, <1>3, <1>4
<1>6. 0 \in 0..(P - 1) /\ P * q \in Nat
  OBVIOUS
<1>7. (P * q + 0) \div P = q /\ (P * q + 0) % P = 0
  BY <1>6, DivModOf
<1>8. q % N = i
  BY <1>2, <1>4, DivModOf
<1> QED BY <1>1, <1>5, <1>6, <1>7, <1>8 DEF Index

(* The start of the page around an address has the index of the address.   *)
LEMMA IndexOfStart ==
  ASSUME NEW l \in Nat, NEW va \in Nat
  PROVE  /\ va - (va % PageSize(l)) \in Nat /\ va - (va % PageSize(l)) <= va
         /\ Index(va - (va % PageSize(l)), l) = Index(va, l)
         /\ (va - (va % PageSize(l))) % PageSize(l) = 0
<1>1. PICK P \in Nat \ {0} : P = PageSize(l)
  BY PageSizeType
<1>2. PICK q \in Nat, r \in 0..(P - 1) : q = va \div P /\ r = va % P /\ va = P * q + r
  BY DivMod
<1>3. va - r = P * q + 0 /\ P * q \in Nat /\ 0 \in 0..(P - 1)
  BY <1>2
<1>4. (P * q + 0) \div P = q /\ (P * q + 0) % P = 0
  BY <1>3, DivModOf
<1> QED BY <1>1, <1>2, <1>3, <1>4 DEF Index

(* The capability space starts at a boundary of the pages of every size.   *)
LEMMA CapSpaceAligned ==
  ASSUME NEW l \in Levels
  PROVE  CapSpaceBase % PageSize(l) = 0
<1> DEFINE bad == {n \in 0..MaxLevel : CapSpaceBase % PageSize(MaxLevel - n) # 0}
<1>0. MaxLevel \in Nat /\ N \in Nat \ {0} /\ CapSpaceBase \in Nat
  BY PageTableAssumption
<1>1. bad = {}
  <2> SUFFICES ASSUME bad # {} PROVE FALSE
    OBVIOUS
  <2>1. bad \in SUBSET Nat
    OBVIOUS
  <2>2. PICK n \in bad : \A j \in bad : n <= j
    BY <2>1, LeastOf
  <2>3. n # 0
    BY <1>0, <2>2, SpaceAssumption
  <2>4. /\ n - 1 \in 0..MaxLevel /\ n - 1 \notin bad
        /\ MaxLevel - n \in Nat /\ MaxLevel - (n - 1) = MaxLevel - n + 1
    BY <1>0, <2>2, <2>3
  <2>5. CapSpaceBase % PageSize(MaxLevel - n + 1) = 0
    BY <2>4
  <2>6. PICK P \in Nat \ {0} : P = PageSize(MaxLevel - n) /\ PageSize(MaxLevel - n + 1) = N * P
    BY <2>4, PageSizeType
  <2>7. PICK m \in Nat : CapSpaceBase = (N * P) * m
    <3>1. N * P \in Nat \ {0}
      BY <1>0
    <3>2. CapSpaceBase % (N * P) = 0
      BY <2>5, <2>6
    <3> QED BY <1>0, <3>1, <3>2, Multiple
  <2>8. CapSpaceBase = P * (N * m) + 0 /\ N * m \in Nat /\ 0 \in 0..(P - 1)
    BY <1>0, <2>7
  <2>9. (P * (N * m) + 0) % P = 0
    BY <2>8, DivModOf
  <2> QED BY <2>2, <2>6, <2>8, <2>9
<1>2. MaxLevel - l \in 0..MaxLevel /\ MaxLevel - (MaxLevel - l) = l
  BY <1>0 DEF Levels
<1> QED BY <1>1, <1>2

(* The entry of a root table that leads to the capability space is behind  *)
(* those of the user.                                                      *)
LEMMA CapIndexAtTop ==
  PageSize(MaxLevel) * Index(CapSpaceBase, MaxLevel) = CapSpaceBase
<1>1. MaxLevel \in Nat /\ N \in Nat \ {0} /\ CapSpaceBase \in Nat
  BY PageTableAssumption
<1>2. PICK P \in Nat \ {0} : P = PageSize(MaxLevel) /\ PageSize(MaxLevel + 1) = N * P
  BY <1>1, PageSizeType
<1>3. PICK m \in Nat : m = CapSpaceBase \div P /\ CapSpaceBase = P * m
  <2>1. CapSpaceBase = P * (CapSpaceBase \div P) + (CapSpaceBase % P) /\ CapSpaceBase \div P \in Nat
    BY <1>1, DivMod
  <2> QED BY <1>2, <2>1, SpaceAssumption
<1>4. P * m < P * N
  BY <1>1, <1>2, <1>3, SpaceAssumption
<1>5. m < N
  <2> SUFFICES ASSUME m >= N PROVE FALSE
    BY <1>1
  <2>1. P * m >= P * N
    BY <1>1
  <2> QED BY <1>1, <1>4, <2>1
<1>6. m % N = m
  BY <1>1, <1>5
<1> QED BY <1>2, <1>3, <1>6 DEF Index

(* From level 2 on, a page is not smaller than a whole table of tables.    *)
LEMMA LargePages ==
  ASSUME NEW l \in Nat, l >= 2
  PROVE  PageSize(l) >= N * N
<1> DEFINE bad == {n \in Nat : n >= 2 /\ ~(PageSize(n) >= N * N)}
<1>0. N \in Nat \ {0}
  BY PageTableAssumption
<1> SUFFICES ASSUME bad # {} PROVE FALSE
  OBVIOUS
<1>1. bad \in SUBSET Nat
  OBVIOUS
<1>2. PICK n \in bad : \A j \in bad : n <= j
  BY <1>1, LeastOf
<1>3. PageSize(0) = 1 /\ PageSize(0 + 1) = N * PageSize(0) /\ PageSize(1 + 1) = N * PageSize(1)
  BY PageSizeType
<1>4. PageSize(2) = N * N
  <2>1. 0 + 1 = 1 /\ 1 + 1 = 2
    OBVIOUS
  <2> QED BY <1>0, <1>3, <2>1
<1>5. n # 2
  BY <1>0, <1>2, <1>4
<1>6. n - 1 \in Nat /\ n - 1 >= 2 /\ n - 1 \notin bad /\ n - 1 + 1 = n
  BY <1>2, <1>5
<1>7. PICK P \in Nat \ {0} : P = PageSize(n - 1) /\ PageSize(n - 1 + 1) = N * P
  BY <1>6, PageSizeType
<1>8. P >= N * N
  BY <1>6, <1>7
<1>9. N * P >= P
  BY <1>0
<1> QED BY <1>0, <1>2, <1>6, <1>7, <1>8, <1>9

(* An extension of the capability space is reached through the tables of   *)
(* the first one, down to level 1, where it has an index of its own.       *)
LEMMA ExtensionIndex ==
  ASSUME NEW e \in 1..(N - 1), NEW l \in Levels
  PROVE  /\ CapSpaceBase + N * e \in Nat
         /\ l >= 2 => Index(CapSpaceBase + N * e, l) = Index(CapSpaceBase, l)
         /\ Index(CapSpaceBase + N * e, 1) # Index(CapSpaceBase, 1)
<1>1. N \in Nat \ {0} /\ CapSpaceBase \in Nat /\ e \in Nat /\ l \in Nat /\ {1, 2} \subseteq Levels
  BY PageTableAssumption DEF Levels
<1>2. ASSUME l >= 2 PROVE Index(CapSpaceBase + N * e, l) = Index(CapSpaceBase, l)
  <2>1. PICK P \in Nat \ {0} : P = PageSize(l)
    BY <1>1, PageSizeType
  <2>2. PICK m \in Nat : CapSpaceBase \div P = m /\ CapSpaceBase = P * m
    <3>1. CapSpaceBase = P * (CapSpaceBase \div P) + (CapSpaceBase % P) /\ CapSpaceBase \div P \in Nat
      BY <1>1, DivMod
    <3> QED BY <1>1, <2>1, <3>1, CapSpaceAligned
  <2>3. P >= N * N
    BY <1>1, <1>2, <2>1, LargePages
  <2>4. N * e < N * N
    BY <1>1
  <2>5. N * e \in 0..(P - 1)
    BY <1>1, <2>3, <2>4
  <2>6. (P * m + N * e) \div P = m
    BY <2>5, DivModOf
  <2> QED BY <2>1, <2>2, <2>6 DEF Index
<1>3. Index(CapSpaceBase + N * e, 1) # Index(CapSpaceBase, 1)
  <2>1. PageSize(1) = N /\ PageSize(2) = N * N
    <3>1. PageSize(0) = 1 /\ PageSize(0 + 1) = N * PageSize(0) /\ PageSize(1 + 1) = N * PageSize(1)
      BY PageSizeType
    <3>2. 0 + 1 = 1 /\ 1 + 1 = 2
      OBVIOUS
    <3> QED BY <1>1, <3>1, <3>2
  <2>2. CapSpaceBase % PageSize(2) = 0
    BY <1>1, CapSpaceAligned
  <2>3. 1 + 1 = 2 /\ 1 \in Nat /\ e \in EntryIndex /\ 0 \in EntryIndex
    BY <1>1 DEF EntryIndex
  <2>4. Index(CapSpaceBase + PageSize(1) * e, 1) = e
    BY <1>1, <2>2, <2>3, IndexOfEntry
  <2>5. Index(CapSpaceBase + PageSize(1) * 0, 1) = 0
    BY <1>1, <2>2, <2>3, IndexOfEntry
  <2>6. CapSpaceBase + PageSize(1) * 0 = CapSpaceBase
    BY <1>1, <2>1
  <2> QED BY <2>1, <2>4, <2>5, <2>6
<1> QED BY <1>1, <1>2, <1>3

-----------------------------------------------------------------------------
(* Types.                                                                  *)

(* Members of the types, by their parts.                                   *)
LEMMA CapabilityType ==
  ASSUME NEW st \in {"none", "live", "dead"}, NEW mapped \in BOOLEAN, NEW level \in Levels,
         NEW index \in EntryIndex, NEW base \in Nat, NEW parent \in Tables \cup {Nil}
  PROVE  Cap(st, mapped, level, index, base, parent) \in Capability
BY DEF Cap, Capability

LEMMA EntryType ==
  ASSUME NEW to \in Objects \cup {Nil}, NEW kind \in Kind
  PROVE  Entry(to, kind) \in PageTableEntry
BY DEF Entry, PageTableEntry

LEMMA Constants ==
  /\ N \in Nat \ {0, 1} /\ MaxLevel \in Nat /\ MaxLevel >= 2
  /\ KernelBase \in Nat /\ CapSpaceBase \in Nat /\ PayloadBase \in Nat
  /\ PayloadBase < KernelBase /\ KernelBase <= CapSpaceBase
  /\ 0 \in Levels /\ MaxLevel \in Levels /\ Inner \subseteq Levels /\ Levels \subseteq Nat
  /\ 0 \in Inner /\ 1 \in Inner /\ MaxLevel - 1 \in Inner
  /\ \A l \in Inner : l + 1 \in Levels
  /\ 0 \in EntryIndex /\ EntryIndex \subseteq Nat
BY PageTableAssumption DEF Levels, Inner, EntryIndex

LEMMA UnmappedType ==
  /\ \A st \in {"none", "live", "dead"} : NoCap(st) \in Capability
  /\ \A level \in Levels : Unmapped(level) \in Capability
BY Constants, CapabilityType DEF NoCap, Unmapped

LEMMA MappedType ==
  ASSUME NEW level \in Levels, NEW index \in EntryIndex, NEW base \in Nat,
         NEW parent \in Tables \cup {Nil}
  PROVE  MappedAt(level, index, base, parent) \in Capability
BY CapabilityType DEF MappedAt

(* The position of a table among those of a capability space.              *)
LEMMA LevelInType ==
  ASSUME NEW tables, NEW x, \E l \in Inner : tables[l] = x
  PROVE  LevelIn(tables, x) \in Inner /\ tables[LevelIn(tables, x)] = x
BY DEF LevelIn

(* The tables that init_task links.                                        *)
LEMMA CapTableType ==
  ASSUME NEW tables \in [Inner -> Tables], NEW level \in Levels
  PROVE  /\ CapLink(level, tables) \in PageTableEntry
         /\ CapTableEntries(level, tables) \in [EntryIndex -> PageTableEntry]
         /\ RootEntries(tables) \in [EntryIndex -> PageTableEntry]
         /\ Empty \in [EntryIndex -> PageTableEntry]
<1>1. Off \in PageTableEntry /\ KernelPage \in PageTableEntry
  BY EntryType DEF Off, KernelPage, Kind
<1>2. ASSUME NEW l \in Levels PROVE CapLink(l, tables) \in PageTableEntry
  <2>1. CASE l = 0
    BY <1>1, <2>1 DEF CapLink
  <2>2. CASE l = 1
    <3>1. tables[0] \in Objects
      BY Constants DEF Objects
    <3>2. CapLink(l, tables) = Entry(tables[0], "table")
      BY <2>2 DEF CapLink
    <3> QED BY <3>1, <3>2, EntryType DEF Kind
  <2>3. CASE l # 0 /\ l # 1
    <3>1. tables[l - 1] \in Objects
      BY <2>3, Constants DEF Objects, Levels, Inner
    <3>2. CapLink(l, tables) = Entry(tables[l - 1], "kernel")
      BY <2>3 DEF CapLink
    <3> QED BY <3>1, <3>2, EntryType DEF Kind
  <2> QED BY <2>1, <2>2, <2>3
<1>3. Empty \in [EntryIndex -> PageTableEntry]
  BY <1>1 DEF Empty
<1>4. ASSUME NEW l \in Levels
      PROVE  CapTableEntries(l, tables) \in [EntryIndex -> PageTableEntry]
  BY <1>2, <1>3 DEF CapTableEntries
<1>5. MaxLevel \in Levels
  BY Constants
<1> QED BY <1>1, <1>2, <1>3, <1>4, <1>5 DEF RootEntries

LEMMA InitTaskType ==
  ASSUME NEW ents \in [Tables -> [EntryIndex -> PageTableEntry]],
         NEW root, NEW tables \in [Inner -> Tables]
  PROVE  InitTask(ents, root, tables) \in [Tables -> [EntryIndex -> PageTableEntry]]
<1>1. ASSUME NEW t \in Tables, \E level \in Inner : tables[level] = t
      PROVE  CapTableEntries(LevelIn(tables, t), tables) \in [EntryIndex -> PageTableEntry]
  BY <1>1, LevelInType, CapTableType, Constants
<1>2. RootEntries(tables) \in [EntryIndex -> PageTableEntry]
  BY CapTableType, Constants
<1>3. ASSUME NEW t \in Tables, \E level \in Inner : tables[level] = t
      PROVE  RootCleared(t, tables) \in [EntryIndex -> PageTableEntry]
  <2>1. CapLink(MaxLevel, tables) \in PageTableEntry
    BY CapTableType, Constants
  <2> QED BY <1>1, <1>3, <2>1 DEF RootCleared
<1> QED BY <1>1, <1>2, <1>3 DEF InitTask

(* The boot tables are different.                                          *)
LEMMA BootTables ==
  /\ CapTables \in [Inner -> Tables] /\ PayloadTables \in [Inner -> Tables]
  /\ RootTable \in Tables /\ PayloadPage \in Pages /\ Tables \cap Pages = {}
  /\ \A l \in Inner :
       /\ CapTables[l] # RootTable /\ PayloadTables[l] # RootTable
       /\ CapTables[l] # PayloadPage /\ PayloadTables[l] # PayloadPage
       /\ LevelIn(CapTables, CapTables[l]) = l
       /\ LevelIn(PayloadTables, PayloadTables[l]) = l
       /\ \A m \in Inner : CapTables[l] # PayloadTables[m]
<1>1. /\ CapTables \in [Inner -> Tables] /\ PayloadTables \in [Inner -> Tables]
      /\ RootTable \in Tables /\ PayloadPage \in Pages /\ Tables \cap Pages = {}
  BY PageTableAssumption DEF Inner
<1>2. \A l, m \in Inner :
       /\ CapTables[l] # RootTable /\ PayloadTables[l] # RootTable
       /\ CapTables[l] # PayloadTables[m]
       /\ CapTables[l] = CapTables[m] \/ PayloadTables[l] = PayloadTables[m] => l = m
  BY BootAssumption DEF Inner
<1>3. \A l \in Inner : /\ LevelIn(CapTables, CapTables[l]) = l
                       /\ LevelIn(PayloadTables, PayloadTables[l]) = l
  BY <1>2 DEF LevelIn
<1> QED BY <1>1, <1>2, <1>3

(* The capabilities that setup_root_task creates.                          *)
LEMMA BootCaps ==
  ASSUME NEW x
  PROVE  /\ x = RootTable => BootCap(x) = MappedAt(MaxLevel, 0, 0, Nil)
         /\ \A l \in Inner : x = CapTables[l] =>
              BootCap(x) = MappedAt(l, 0, CapSpaceBase, ParentOf(CapTables, l))
         /\ \A l \in Inner : x = PayloadTables[l] =>
              BootCap(x) = MappedAt(l, 0, PayloadBase - (PayloadBase % PageSize(l + 1)),
                                    ParentOf(PayloadTables, l))
         /\ x = PayloadPage =>
              BootCap(x) = MappedAt(0, Index(PayloadBase, 0), PayloadBase, PayloadTables[0])
         /\ \/ x = RootTable \/ x = PayloadPage
            \/ \E l \in Inner : x = CapTables[l] \/ x = PayloadTables[l]
            \/ BootCap(x) = NoCap("none")
<1>1. x = RootTable => /\ ~\E j \in Inner : CapTables[j] = x
                       /\ ~\E j \in Inner : PayloadTables[j] = x
                       /\ x # PayloadPage
  BY BootTables
<1>2. x = PayloadPage => /\ ~\E j \in Inner : CapTables[j] = x
                         /\ ~\E j \in Inner : PayloadTables[j] = x
  BY BootTables
<1>3. CASE x = RootTable
  BY <1>1, <1>3 DEF BootCap
<1>4. ASSUME NEW l \in Inner, x = CapTables[l]
      PROVE  BootCap(x) = MappedAt(l, 0, CapSpaceBase, ParentOf(CapTables, l))
  <2>1. /\ x # RootTable /\ x # PayloadPage
        /\ \E j \in Inner : CapTables[j] = x
        /\ ~\E j \in Inner : PayloadTables[j] = x
        /\ LevelIn(CapTables, x) = l
    BY <1>4, BootTables
  <2> QED BY <2>1 DEF BootCap
<1>5. ASSUME NEW l \in Inner, x = PayloadTables[l]
      PROVE  BootCap(x) = MappedAt(l, 0, PayloadBase - (PayloadBase % PageSize(l + 1)),
                                   ParentOf(PayloadTables, l))
  <2>1. /\ x # RootTable /\ x # PayloadPage
        /\ ~\E j \in Inner : CapTables[j] = x
        /\ \E j \in Inner : PayloadTables[j] = x
        /\ LevelIn(PayloadTables, x) = l
    BY <1>5, BootTables
  <2> QED BY <2>1 DEF BootCap
<1>6. CASE x = PayloadPage
  <2>1. x # RootTable
    BY <1>1, <1>6
  <2> QED BY <1>2, <1>6, <2>1 DEF BootCap
<1>7. CASE /\ x # RootTable /\ x # PayloadPage
           /\ ~\E j \in Inner : CapTables[j] = x
           /\ ~\E j \in Inner : PayloadTables[j] = x
  BY <1>7 DEF BootCap
<1> QED BY <1>1, <1>2, <1>3, <1>4, <1>5, <1>6, <1>7

(* What setup_root_task and map_root_task leave has its types.             *)
LEMMA InitType ==
  ASSUME Init
  PROVE  TypeOK
<1> USE PageTableAssumption
<1>0. CapTables \in [Inner -> Tables] /\ PayloadTables \in [Inner -> Tables]
  BY DEF Inner
<1>1. ASSUME NEW x \in Objects PROVE BootCap(x) \in Capability
  <2>1. ASSUME NEW tables \in [Inner -> Tables], NEW l \in Inner
        PROVE  ParentOf(tables, l) \in Tables \cup {Nil} /\ l \in Levels
    BY Constants DEF ParentOf, Inner, Levels
  <2>2. CASE x = RootTable
    <3>1. MappedAt(MaxLevel, 0, 0, Nil) \in Capability
      BY MappedType, Constants
    <3> QED BY <2>2, <3>1, BootCaps
  <2>3. ASSUME NEW l \in Inner, x = CapTables[l] PROVE BootCap(x) \in Capability
    <3>1. BootCap(x) = MappedAt(l, 0, CapSpaceBase, ParentOf(CapTables, l))
      BY <2>3, BootCaps
    <3> QED BY <1>0, <2>1, <3>1, MappedType, Constants
  <2>4. ASSUME NEW l \in Inner, x = PayloadTables[l] PROVE BootCap(x) \in Capability
    <3>1. PICK b : b = PayloadBase - (PayloadBase % PageSize(l + 1))
      OBVIOUS
    <3>2. BootCap(x) = MappedAt(l, 0, b, ParentOf(PayloadTables, l))
      BY <2>4, <3>1, BootCaps
    <3>3. b \in Nat
      BY <3>1, IndexOfStart, Constants
    <3> QED BY <1>0, <2>1, <3>2, <3>3, MappedType, Constants
  <2>5. CASE x = PayloadPage
    <3>1. Index(PayloadBase, 0) \in EntryIndex /\ PayloadTables[0] \in Tables
      BY <1>0, IndexType, Constants
    <3>2. MappedAt(0, Index(PayloadBase, 0), PayloadBase, PayloadTables[0]) \in Capability
      BY <3>1, MappedType, Constants
    <3> QED BY <2>5, <3>2, BootCaps
  <2>6. NoCap("none") \in Capability
    BY UnmappedType
  <2> QED BY <2>2, <2>3, <2>4, <2>5, <2>6, BootCaps
<1>2. BootEntries \in [Tables -> [EntryIndex -> PageTableEntry]]
  <2> DEFINE at(l) == IF l = MaxLevel THEN RootTable ELSE PayloadTables[l]
             link(l) == IF l = 0 THEN Entry(PayloadPage, "user") ELSE Entry(at(l - 1), "table")
             started == InitTask([t \in Tables |-> Empty], RootTable, CapTables)
  <2>1. started \in [Tables -> [EntryIndex -> PageTableEntry]]
    BY <1>0, InitTaskType, CapTableType, Constants
  <2>2. ASSUME NEW l \in Levels PROVE link(l) \in PageTableEntry
    <3>1. CASE l = 0
      <4>1. Entry(PayloadPage, "user") \in PageTableEntry
        BY EntryType DEF Objects, Kind
      <4> QED BY <3>1, <4>1
    <3>2. CASE l # 0
      <4>1. at(l - 1) \in Objects
        BY <1>0, <3>2, Constants DEF Objects, Levels, Inner
      <4>2. Entry(at(l - 1), "table") \in PageTableEntry
        BY <4>1, EntryType DEF Kind
      <4> QED BY <3>2, <4>2
    <3> QED BY <3>1, <3>2
  <2>3. ASSUME NEW t \in Tables, \E l \in Levels : at(l) = t
        PROVE  link(CHOOSE l \in Levels : at(l) = t) \in PageTableEntry
    <3>1. (CHOOSE l \in Levels : at(l) = t) \in Levels
      BY <2>3
    <3> HIDE DEF link, at
    <3> QED BY <2>2, <3>1
  <2> HIDE DEF started, link, at
  <2>4. [t \in Tables |-> [i \in EntryIndex |->
            IF \E l \in Levels : at(l) = t /\ i = Index(PayloadBase, l)
            THEN link(CHOOSE l \in Levels : at(l) = t)
            ELSE started[t][i]]] \in [Tables -> [EntryIndex -> PageTableEntry]]
    BY <2>1, <2>3
  <2> QED BY <2>4 DEF BootEntries, started, link, at
<1>3. /\ [k \in Tasks |-> IF k = RootTask THEN RootTable ELSE Nil] \in [Tasks -> Tables \cup {Nil}]
      /\ [k \in Tasks |-> IF k = RootTask THEN 1 ELSE 0] \in [Tasks -> 0..(N - 1)]
  OBVIOUS
<1>4. [x \in Objects |-> BootCap(x)] \in [Objects -> Capability]
  BY <1>1
<1> QED BY <1>2, <1>3, <1>4 DEF Init, TypeOK

(* A capability, by its parts.                                             *)
LEMMA CapParts ==
  ASSUME TypeOK, NEW x \in Objects
  PROVE  /\ cap[x] \in Capability
         /\ cap[x].st \in {"none", "live", "dead"} /\ cap[x].mapped \in BOOLEAN
         /\ cap[x].level \in Levels /\ cap[x].level \in Nat
         /\ cap[x].index \in EntryIndex
         /\ cap[x].base \in Nat /\ cap[x].parent \in Tables \cup {Nil}
BY Constants DEF TypeOK, Capability

LEMMA AddressType ==
  ASSUME TypeOK, NEW t \in Tables, NEW level \in Levels, NEW i \in EntryIndex
  PROVE  AddressAt(t, level, i) \in Nat
<1>1. cap[t].base \in Nat /\ PageSize(level) \in Nat /\ i \in Nat
  BY CapParts, PageSizeType, Constants DEF Objects
<1> QED BY <1>1 DEF AddressAt

(* One capability or one entry changes, to a value of its type.            *)
LEMMA SetCapType ==
  ASSUME TypeOK, NEW x \in Objects, NEW c \in Capability, SetCap(x, c)
  PROVE  cap' \in [Objects -> Capability]
BY DEF TypeOK, SetCap

LEMMA SetEntryType ==
  ASSUME TypeOK, NEW t \in Tables, NEW i \in EntryIndex, NEW e \in PageTableEntry,
         SetEntry(t, i, e)
  PROVE  entries' \in [Tables -> [EntryIndex -> PageTableEntry]]
BY DEF TypeOK, SetEntry

(* Where a destructor looks for its entry.                                 *)
LEMMA OwnIndexType ==
  ASSUME TypeOK, NEW x \in Objects
  PROVE  OwnIndex(x) \in EntryIndex
BY CapParts, IndexType DEF OwnIndex

(* Every call keeps the types.                                             *)
LEMMA TypeNext ==
  ASSUME TypeOK, Next
  PROVE  TypeOK'
<1> USE DEF Objects
<1>1. Off \in PageTableEntry /\ \A x \in Objects, kind \in Kind : Entry(x, kind) \in PageTableEntry
  BY EntryType DEF Off, Kind
<1>2. /\ LiveTables \subseteq Tables /\ LivePages \subseteq Pages /\ Indices \subseteq EntryIndex
      /\ Unused \subseteq Tasks
  BY PageTableAssumption DEF LiveTables, LivePages, EntryIndex, Unused
<1>3. ASSUME NEW t \in Tables, CreateTable(t) PROVE TypeOK'
  <2>1. Unmapped(0) \in Capability
    BY UnmappedType, Constants
  <2> QED BY <1>3, <2>1, SetCapType DEF CreateTable, TypeOK
<1>4. ASSUME NEW p \in Pages, NEW level \in PageLevels, CreatePage(p, level) PROVE TypeOK'
  <2>1. Unmapped(level) \in Capability
    BY UnmappedType, PageTableAssumption DEF Levels
  <2> QED BY <1>4, <2>1, SetCapType DEF CreatePage, TypeOK
<1>5. ASSUME NEW t \in Tables, NEW i \in EntryIndex, NEW c \in Tables, MapTable(t, i, c)
      PROVE  TypeOK'
  <2>1. cap[t].level \in Levels /\ cap[t].level - 1 \in Levels
    BY <1>5, CapParts, Constants DEF MapTable, HoldsTables, Levels
  <2>2. PICK m \in Capability : m = MappedAt(cap[t].level - 1, 0, AddressAt(t, cap[t].level, i), t)
    BY <2>1, MappedType, AddressType, Constants
  <2>3. Entry(c, "table") \in PageTableEntry
    BY <1>1 DEF Kind
  <2> QED BY <1>5, <2>2, <2>3, SetCapType, SetEntryType DEF MapTable, TypeOK
<1>6. ASSUME NEW t \in Tables, NEW i \in EntryIndex, NEW c \in Tables, UnmapTable(t, i, c)
      PROVE  TypeOK'
  <2>1. Released(cap[c]) \in Capability
    BY CapParts DEF Released, Capability
  <2> QED BY <1>1, <1>6, <2>1, SetCapType, SetEntryType DEF UnmapTable, TypeOK
<1>7. ASSUME NEW t \in Tables, NEW i \in EntryIndex, NEW p \in Pages, MapPage(t, i, p)
      PROVE  TypeOK'
  <2>1. PICK m \in Capability : m = MappedAt(cap[p].level, i, AddressAt(t, cap[p].level, i), t)
    BY CapParts, MappedType, AddressType
  <2>2. Entry(p, "user") \in PageTableEntry
    BY <1>1 DEF Kind
  <2> QED BY <1>7, <2>1, <2>2, SetCapType, SetEntryType DEF MapPage, TypeOK
<1>8. ASSUME NEW t \in Tables, NEW i \in EntryIndex, NEW p \in Pages, UnmapPage(t, i, p)
      PROVE  TypeOK'
  <2>1. Unmapped(cap[p].level) \in Capability
    BY CapParts, UnmappedType
  <2> QED BY <1>1, <1>8, <2>1, SetCapType, SetEntryType DEF UnmapPage, TypeOK
<1>9. ASSUME NEW t \in Tables, NEW i \in EntryIndex, NEW p \in Pages, NEW old \in Tables,
             RemapPage(t, i, p, old)
      PROVE  TypeOK'
  <2>1. PICK m \in Capability : m = MappedAt(cap[p].level, i, AddressAt(t, cap[p].level, i), t)
    BY CapParts, MappedType, AddressType
  <2>2. Entry(p, "user") \in PageTableEntry
    BY <1>1 DEF Kind
  <2>3. Moved(t, i, p, old) \in [Tables -> [EntryIndex -> PageTableEntry]]
    BY <1>1, <2>2, CapParts DEF Moved, TypeOK
  <2> QED BY <1>9, <2>1, <2>3, SetCapType DEF RemapPage, TypeOK
<1>10. ASSUME NEW x \in Objects, Destroy(x) PROVE TypeOK'
  <2>1. NoCap("dead") \in Capability
    BY UnmappedType
  <2>2. Disabled(x) \in [Tables -> [EntryIndex -> PageTableEntry]]
    <3>1. CASE cap[x].parent = Nil
      BY <3>1 DEF Disabled, TypeOK
    <3>2. CASE cap[x].parent # Nil
      <4>1. cap[x].parent \in Tables /\ OwnIndex(x) \in EntryIndex
        BY <3>2, CapParts, OwnIndexType
      <4> QED BY <1>1, <3>2, <4>1 DEF Disabled, TypeOK
    <3> QED BY <3>1, <3>2
  <2>3. CASE EntryFound(x)
    BY <1>10, <2>1, <2>2, <2>3, SetCapType DEF Destroy, AssertThen, TypeOK
  <2>4. CASE ~EntryFound(x)
    BY <1>10, <2>4 DEF Destroy, AssertThen, TypeOK
  <2> QED BY <2>3, <2>4
<1>11. ASSUME NEW k \in Tasks, NEW r \in Tables, NEW ts \in [Inner -> LiveTables],
              CreateTask(k, r, ts)
       PROVE  TypeOK'
  <2>1. ts \in [Inner -> Tables]
    BY <1>2
  <2>2. InitTask(entries, r, ts) \in [Tables -> [EntryIndex -> PageTableEntry]]
    BY <2>1, InitTaskType DEF TypeOK
  <2>3. ASSUME NEW x \in Objects
        PROVE  /\ MappedAt(MaxLevel, 0, 0, cap[x].parent) \in Capability
               /\ (\E l \in Inner : ts[l] = x) =>
                    MappedAt(LevelIn(ts, x), 0, CapSpaceBase, cap[x].parent) \in Capability
    <3>1. MappedAt(MaxLevel, 0, 0, cap[x].parent) \in Capability
      BY CapParts, MappedType, Constants
    <3>2. ASSUME \E l \in Inner : ts[l] = x
          PROVE  MappedAt(LevelIn(ts, x), 0, CapSpaceBase, cap[x].parent) \in Capability
      <4>1. LevelIn(ts, x) \in Levels
        BY <3>2, LevelInType, Constants
      <4> QED BY <4>1, CapParts, MappedType, Constants
    <3> QED BY <3>1, <3>2
  <2>4. CASE EntriesFree(ts)
    <3>1. entries' \in [Tables -> [EntryIndex -> PageTableEntry]]
      BY <1>11, <2>2, <2>4 DEF CreateTask, AssertThen
    <3>2. cap' \in [Objects -> Capability]
      BY <1>11, <2>3, <2>4, CapParts DEF CreateTask, AssertThen
    <3>3. rootOf' \in [Tasks -> Tables \cup {Nil}] /\ ext' \in [Tasks -> 0..(N - 1)]
      BY <1>11, <2>4, Constants DEF CreateTask, AssertThen, TypeOK
    <3> QED BY <3>1, <3>2, <3>3 DEF TypeOK
  <2>5. CASE ~EntriesFree(ts)
    BY <1>11, <2>5 DEF CreateTask, AssertThen, TypeOK
  <2> QED BY <2>4, <2>5
<1>12. ASSUME NEW k \in Tasks, NEW t \in Tables, ExtendCapSpace(k, t) PROVE TypeOK'
  <2>1. PICK va, mid, i : /\ va = CapSpaceBase + N * ext[k]
                          /\ mid = WalkTables(rootOf[k], va)[1] /\ i = Index(va, 1)
    OBVIOUS
  <2>2. ext[k] \in 0..(N - 1) /\ ext[k] \in Nat
    BY Constants DEF TypeOK
  <2>3. va \in Nat
    BY <2>1, <2>2, Constants
  <2>4. CASE mid \in Tables /\ ~IsEnabled(mid, i)
    <3>1. /\ SetEntry(mid, i, Entry(t, "table")) /\ SetCap(t, MappedAt(0, 0, va, t))
          /\ ext' = [ext EXCEPT ![k] = @ + 1] /\ rootOf' = rootOf /\ ext[k] # N - 1
      BY <1>12, <2>1, <2>4 DEF ExtendCapSpace, AssertThen
    <3>2. i \in EntryIndex
      BY <2>1, <2>3, IndexType
    <3>3. MappedAt(0, 0, va, t) \in Capability /\ Entry(t, "table") \in PageTableEntry
      BY <1>1, <2>3, MappedType, Constants DEF Kind
    <3>4. ext[k] + 1 \in 0..(N - 1)
      BY <2>2, <3>1, Constants
    <3>5. ext' \in [Tasks -> 0..(N - 1)]
      BY <3>1, <3>4 DEF TypeOK
    <3> QED BY <2>4, <3>1, <3>2, <3>3, <3>5, SetCapType, SetEntryType DEF TypeOK
  <2>5. CASE ~(mid \in Tables /\ ~IsEnabled(mid, i))
    BY <1>12, <2>1, <2>5 DEF ExtendCapSpace, AssertThen, TypeOK
  <2> QED BY <2>4, <2>5
<1> QED BY <1>2, <1>3, <1>4, <1>5, <1>6, <1>7, <1>8, <1>9, <1>10, <1>11, <1>12 DEF Next

(* Capabilities, entries and tasks hold values of their types, whatever    *)
(* tables and pages the programs map, unmap, move and destroy.             *)
THEOREM PageTypesCorrect == Spec => []TypeOK
<1>1. Init => TypeOK
  BY InitType
<1>2. TypeOK /\ [Next]_vars => TypeOK'
  <2>1. TypeOK /\ UNCHANGED vars => TypeOK'
    BY DEF vars, TypeOK
  <2> QED BY <2>1, TypeNext
<1> QED BY <1>1, <1>2, PTL DEF Spec

-----------------------------------------------------------------------------
(* The effects of the calls, one capability and one entry at a time.       *)

LEMMA OneCap ==
  ASSUME TypeOK, NEW x \in Objects, NEW c, SetCap(x, c)
  PROVE  cap'[x] = c /\ \A y \in Objects : y # x => cap'[y] = cap[y]
BY DEF TypeOK, SetCap

LEMMA OneEntry ==
  ASSUME TypeOK, NEW t \in Tables, NEW i \in EntryIndex, NEW e, SetEntry(t, i, e)
  PROVE  /\ entries'[t][i] = e
         /\ \A s \in Tables, j \in EntryIndex : s # t \/ j # i => entries'[s][j] = entries[s][j]
BY DEF TypeOK, SetEntry

LEMMA SetMapped ==
  ASSUME TypeOK, NEW x \in Objects, NEW level, NEW index, NEW base, NEW parent,
         SetCap(x, MappedAt(level, index, base, parent))
  PROVE  /\ Live(x)' /\ cap'[x].mapped /\ cap'[x].level = level
         /\ cap'[x].base = base /\ cap'[x].parent = parent
         /\ \A y \in Objects : y # x => cap'[y] = cap[y]
<1>1. PICK c : c = MappedAt(level, index, base, parent)
  OBVIOUS
<1>2. cap'[x] = c /\ \A y \in Objects : y # x => cap'[y] = cap[y]
  BY <1>1, OneCap
<1>3. /\ c.st = "live" /\ c.mapped = TRUE /\ c.level = level
      /\ c.base = base /\ c.parent = parent
  BY <1>1 DEF MappedAt, Cap
<1> QED BY <1>2, <1>3 DEF Live

LEMMA UnmappedParts ==
  /\ \A level : LET c == Unmapped(level)
                IN  /\ c.st = "live" /\ c.mapped = FALSE /\ c.level = level
                    /\ c.base = 0 /\ c.parent = Nil
  /\ \A st : LET c == NoCap(st)
             IN  /\ c.st = st /\ c.mapped = FALSE /\ c.level = 0
                 /\ c.base = 0 /\ c.parent = Nil
BY DEF Unmapped, NoCap, Cap

LEMMA EntryParts ==
  /\ \A to, kind : Entry(to, kind).to = to /\ Entry(to, kind).kind = kind
  /\ Off.to = Nil /\ Off.kind = "off" /\ KernelPage.to = Nil /\ KernelPage.kind = "kernel"
  /\ \A x \in Objects : x # Nil
  /\ \A x \in Tables : x \notin Pages
BY PageTableAssumption DEF Entry, Off, KernelPage, Objects

(* An entry that leads somewhere is enabled.                               *)
LEMMA Leads ==
  ASSUME NEW t \in Tables, NEW i \in EntryIndex, entries[t][i].to # Nil
  PROVE  IsEnabled(t, i) /\ entries[t][i] # Off
BY EntryParts DEF IsEnabled

(* A table the user can write to.                                          *)
LEMMA Reachable ==
  ASSUME TypeOK, Aligned, NEW t \in Tables, NEW level \in Levels, NEW i \in EntryIndex,
         UserEntry(t, level, i), level = cap[t].level
  PROVE  /\ cap[t].base < KernelBase
         /\ AddressAt(t, level, i) \in Nat /\ AddressAt(t, level, i) < KernelBase
         /\ Index(AddressAt(t, level, i), level) = i
         /\ AddressAt(t, level, i) % PageSize(level) = 0
<1>1. PICK b \in Nat, P \in Nat : b = cap[t].base /\ P = PageSize(level)
  BY CapParts, PageSizeType, Constants DEF Objects
<1>2. i \in Nat /\ P * i \in Nat /\ level \in Nat
  BY <1>1, Constants
<1>3. b + P * i < KernelBase /\ AddressAt(t, level, i) = b + P * i
  BY <1>1 DEF UserEntry, AddressAt
<1>4. b < KernelBase
  BY <1>2, <1>3, Constants
<1>5. b % PageSize(level + 1) = 0
  BY <1>1, <1>4 DEF Aligned
<1> QED BY <1>1, <1>2, <1>3, <1>4, <1>5, IndexOfEntry

(* A capability that does not change names the same entry.                 *)
LEMMA SameOwn ==
  ASSUME NEW x, cap'[x] = cap[x]
  PROVE  /\ OwnIndex(x)' = OwnIndex(x)
         /\ Live(x)' <=> Live(x)
         /\ Shielded(x)' <=> Shielded(x)
         /\ IsRoot(x)' <=> IsRoot(x)
         /\ \A t, i : Agrees(x, t, i)' <=> Agrees(x, t, i)
BY DEF OwnIndex, Live, Shielded, IsRoot, Agrees

-----------------------------------------------------------------------------
(* Capabilities and entries agree.                                         *)

(* Entry i of table t, which was disabled, now leads to x, and x to it or  *)
(* to the space of the kernel; x has left its other entries.               *)
LEMMA AgreeLink ==
  ASSUME TypeOK, TypeOK', Agreement,
         NEW x \in Objects, NEW t \in Tables, NEW i \in EntryIndex,
         cap'[x].mapped, Live(x)', \A y \in Objects : y # x => cap'[y] = cap[y],
         entries'[t][i].to = x, entries'[t][i].kind # "kernel", entries[t][i] = Off,
         \A s \in Tables, j \in EntryIndex :
           \/ s = t /\ j = i
           \/ entries'[s][j] = entries[s][j]
           \/ entries[s][j].to = x /\ entries'[s][j] = Off,
         x \in Pages => \A s \in Tables, j \in EntryIndex :
                          entries'[s][j].to = x => s = t /\ j = i,
         x \in Tables => Live(x) /\ ~cap[x].mapped,
         \/ /\ cap'[x].base < KernelBase /\ cap'[x].parent = t /\ OwnIndex(x)' = i
            /\ x \in Tables => cap'[x].base % PageSize(cap'[x].level + 1) = 0
         \/ x \in Tables /\ cap'[x].base >= KernelBase /\ (t = x \/ Shielded(t))
  PROVE  Agreement'
<1> USE DEF Objects
<1>0. KernelBase \in Nat /\ cap'[x].base \in Nat /\ cap[x].base \in Nat
  BY CapParts, Constants DEF TypeOK, Capability
<1>1. Unlinked'
  BY DEF Agreement, Unlinked, Live
<1>2. Aligned'
  BY <1>0 DEF Agreement, Aligned
<1>3. PageEntries'
  <2> SUFFICES ASSUME NEW s \in Tables, NEW j \in EntryIndex, NEW p \in Pages,
                      entries'[s][j].to = p
               PROVE  Agrees(p, s, j)'
    BY DEF PageEntries
  <2>1. CASE p = x
    BY <2>1, EntryParts DEF Agrees
  <2>2. CASE p # x
    <3>1. entries[s][j].to = p
      BY <2>2, EntryParts
    <3> QED BY <2>2, <3>1, SameOwn DEF Agreement, PageEntries
  <2> QED BY <2>1, <2>2
<1>4. ASSUME NEW s \in Tables, ~Shielded(s)' PROVE ~Shielded(s)
  <2>1. CASE s = x
    BY <1>0, <2>1 DEF Shielded, Live, Agreement, Unlinked
  <2>2. CASE s # x
    BY <1>4, <2>2, SameOwn
  <2> QED BY <2>1, <2>2
<1>5. TableEntries'
  <2> SUFFICES ASSUME NEW s \in Tables, NEW j \in EntryIndex, NEW d \in Tables,
                      entries'[s][j].to = d, entries'[s][j].kind # "kernel", ~Shielded(s)'
               PROVE  Agrees(d, s, j)' /\ cap'[d].base < KernelBase
    BY DEF TableEntries
  <2>1. CASE s = t /\ j = i
    <3>1. d = x
      BY <2>1
    <3>2. cap'[x].base < KernelBase
      <4>1. t # x \/ cap'[x].base < KernelBase
        BY <1>0, <2>1 DEF Shielded
      <4> QED BY <1>4, <2>1, <4>1
    <3> QED BY <1>0, <2>1, <3>1, <3>2 DEF Agrees
  <2>2. CASE s # t \/ j # i
    <3>1. ~Shielded(s) /\ entries[s][j] = entries'[s][j]
      BY <1>4, <2>2, EntryParts
    <3>2. Agrees(d, s, j) /\ cap[d].base < KernelBase
      BY <3>1 DEF Agreement, TableEntries
    <3>3. d # x
      BY <3>2 DEF Agrees
    <3> QED BY <3>2, <3>3, SameOwn
  <2> QED BY <2>1, <2>2
<1>6. KernelEntries'
  <2> SUFFICES ASSUME NEW s \in Tables, NEW j \in EntryIndex,
                      entries'[s][j].to \in Tables, entries'[s][j].kind = "kernel", ~Shielded(s)'
               PROVE  IsRoot(s)' /\ PageSize(MaxLevel) * j >= KernelBase
    BY DEF KernelEntries
  <2>1. entries'[s][j] = entries[s][j] /\ ~Shielded(s)
    BY <1>4, EntryParts
  <2>2. IsRoot(s) /\ PageSize(MaxLevel) * j >= KernelBase
    BY <2>1 DEF Agreement, KernelEntries
  <2>3. s # x
    BY <2>2 DEF IsRoot
  <2> QED BY <2>2, <2>3, SameOwn
<1>7. Findable'
  <2> SUFFICES ASSUME NEW y \in Objects, cap'[y].base < KernelBase, cap'[y].parent # Nil
               PROVE  entries'[cap'[y].parent][OwnIndex(y)'].to = y
    BY DEF Findable, EntryFound
  <2>1. CASE y = x
    BY <1>0, <2>1
  <2>2. CASE y # x
    <3>1. cap'[y] = cap[y] /\ OwnIndex(y)' = OwnIndex(y)
      BY <2>2, SameOwn
    <3>2. entries[cap[y].parent][OwnIndex(y)].to = y
      BY <3>1 DEF Agreement, Findable, EntryFound
    <3>3. cap[y].parent \in Tables /\ OwnIndex(y) \in EntryIndex
      BY <3>1, CapParts, OwnIndexType
    <3> QED BY <2>2, <3>1, <3>2, <3>3, EntryParts
  <2> QED BY <2>1, <2>2
<1> QED BY <1>1, <1>2, <1>3, <1>5, <1>6, <1>7 DEF Agreement

(* Object x is not mapped any more, or never was: nothing leads to it but  *)
(* entries out of the user's reach, and only entries to x were disabled.   *)
LEMMA AgreeUnlink ==
  ASSUME TypeOK, TypeOK', Agreement, NEW x \in Objects,
         ~cap'[x].mapped, cap'[x].parent = Nil, cap'[x].base < KernelBase,
         x \in Tables => cap'[x].base % PageSize(cap'[x].level + 1) = 0,
         \A y \in Objects : y # x => cap'[y] = cap[y],
         \A s \in Tables, j \in EntryIndex :
           \/ entries'[s][j] = entries[s][j]
           \/ entries[s][j].to = x /\ entries'[s][j] = Off,
         \A s \in Tables, j \in EntryIndex : entries'[s][j].to = x =>
           x \in Tables /\ (Shielded(s)' \/ entries'[s][j].kind = "kernel"),
         x \in Tables => (Shielded(x) => Shielded(x)') /\ (~Shielded(x)' => ~IsRoot(x))
  PROVE  Agreement'
<1> USE DEF Objects
<1>1. Unlinked'
  BY DEF Agreement, Unlinked, Live
<1>2. Aligned'
  BY DEF Agreement, Aligned
<1>3. PageEntries'
  <2> SUFFICES ASSUME NEW s \in Tables, NEW j \in EntryIndex, NEW p \in Pages,
                      entries'[s][j].to = p
               PROVE  Agrees(p, s, j)'
    BY DEF PageEntries
  <2>1. p # x
    BY EntryParts
  <2>2. entries[s][j].to = p
    BY EntryParts
  <2> QED BY <2>1, <2>2, SameOwn DEF Agreement, PageEntries
<1>4. ASSUME NEW s \in Tables, ~Shielded(s)' PROVE ~Shielded(s)
  BY <1>4, SameOwn
<1>5. TableEntries'
  <2> SUFFICES ASSUME NEW s \in Tables, NEW j \in EntryIndex, NEW d \in Tables,
                      entries'[s][j].to = d, entries'[s][j].kind # "kernel", ~Shielded(s)'
               PROVE  Agrees(d, s, j)' /\ cap'[d].base < KernelBase
    BY DEF TableEntries
  <2>1. d # x /\ entries'[s][j] = entries[s][j] /\ ~Shielded(s)
    BY <1>4, EntryParts
  <2>2. Agrees(d, s, j) /\ cap[d].base < KernelBase
    BY <2>1 DEF Agreement, TableEntries
  <2> QED BY <2>1, <2>2, SameOwn
<1>6. KernelEntries'
  <2> SUFFICES ASSUME NEW s \in Tables, NEW j \in EntryIndex,
                      entries'[s][j].to \in Tables, entries'[s][j].kind = "kernel", ~Shielded(s)'
               PROVE  IsRoot(s)' /\ PageSize(MaxLevel) * j >= KernelBase
    BY DEF KernelEntries
  <2>1. entries'[s][j] = entries[s][j] /\ ~Shielded(s)
    BY <1>4, EntryParts
  <2>2. IsRoot(s) /\ PageSize(MaxLevel) * j >= KernelBase
    BY <2>1 DEF Agreement, KernelEntries
  <2> QED BY <2>2, SameOwn
<1>7. Findable'
  <2> SUFFICES ASSUME NEW y \in Objects, cap'[y].base < KernelBase, cap'[y].parent # Nil
               PROVE  entries'[cap'[y].parent][OwnIndex(y)'].to = y
    BY DEF Findable, EntryFound
  <2>1. y # x /\ cap'[y] = cap[y] /\ OwnIndex(y)' = OwnIndex(y)
    BY SameOwn
  <2>2. entries[cap[y].parent][OwnIndex(y)].to = y
    BY <2>1 DEF Agreement, Findable, EntryFound
  <2>3. cap[y].parent \in Tables /\ OwnIndex(y) \in EntryIndex
    BY <2>1, CapParts, OwnIndexType
  <2> QED BY <2>1, <2>2, <2>3, EntryParts
<1> QED BY <1>1, <1>2, <1>3, <1>5, <1>6, <1>7 DEF Agreement

(* map_page_table_cap                                                      *)
LEMMA AgreeMapTable ==
  ASSUME TypeOK, TypeOK', Agreement, NEW t \in Tables, NEW i \in EntryIndex, NEW c \in Tables,
         Live(c), MapTable(t, i, c)
  PROVE  Agreement'
<1> USE DEF Objects
<1>1. PICK l \in Levels : l = cap[t].level /\ l # 0 /\ l - 1 + 1 = l
  BY CapParts, Constants DEF MapTable, HoldsTables
<1>2. PICK b : b = AddressAt(t, l, i)
  OBVIOUS
<1>3. /\ b \in Nat /\ b < KernelBase /\ Index(b, l) = i /\ b % PageSize(l) = 0
  BY <1>1, <1>2, Reachable DEF MapTable, Agreement
<1>4. PICK m : m = MappedAt(l - 1, 0, b, t)
  OBVIOUS
<1>5. /\ SetCap(c, m) /\ SetEntry(t, i, Entry(c, "table"))
      /\ entries[t][i] = Off /\ ~cap[c].mapped
  BY <1>1, <1>2, <1>4 DEF MapTable, IsEnabled
<1>6. /\ cap'[c].mapped /\ Live(c)' /\ cap'[c].level = l - 1
      /\ cap'[c].base = b /\ cap'[c].parent = t
      /\ \A y \in Objects : y # c => cap'[y] = cap[y]
  BY <1>4, <1>5, SetMapped
<1>7. /\ entries'[t][i].to = c /\ entries'[t][i].kind # "kernel"
      /\ \A s \in Tables, j \in EntryIndex : s # t \/ j # i => entries'[s][j] = entries[s][j]
  BY <1>5, OneEntry, EntryParts
<1>8. OwnIndex(c)' = i
  BY <1>1, <1>3, <1>6 DEF OwnIndex
<1>9. cap'[c].base < KernelBase /\ cap'[c].base % PageSize(cap'[c].level + 1) = 0 /\ c \notin Pages
  BY <1>1, <1>3, <1>6, EntryParts
<1> QED BY <1>5, <1>6, <1>7, <1>8, <1>9, AgreeLink

(* An enabled entry that the user reaches, and that leads to a table.      *)
LEMMA UserLink ==
  ASSUME TypeOK, Agreement, NEW t \in Tables, NEW i \in EntryIndex, NEW c \in Tables,
         Live(t), UserEntry(t, cap[t].level, i), entries[t][i].to = c
  PROVE  Agrees(c, t, i) /\ cap[c].base < KernelBase
<1>1. cap[t].level \in Levels /\ cap[t].base \in Nat /\ i \in Nat /\ PageSize(MaxLevel) \in Nat
  BY CapParts, Constants, PageSizeType DEF Objects
<1>2. cap[t].base < KernelBase
  BY <1>1, Reachable DEF Agreement
<1>3. ~Shielded(t)
  BY <1>1, <1>2, Constants DEF Shielded, Live
<1>4. entries[t][i].kind # "kernel"
  <2> SUFFICES ASSUME entries[t][i].kind = "kernel" PROVE FALSE
    OBVIOUS
  <2>1. cap[t].level = MaxLevel /\ cap[t].base = 0 /\ PageSize(MaxLevel) * i >= KernelBase
    BY <1>3 DEF Agreement, KernelEntries, IsRoot
  <2>2. 0 + PageSize(MaxLevel) * i < KernelBase
    BY <2>1 DEF UserEntry, AddressAt
  <2>3. PageSize(MaxLevel) * i \in Nat
    BY <1>1
  <2> QED BY <2>1, <2>2, <2>3, Constants
<1> QED BY <1>3, <1>4 DEF Agreement, TableEntries

(* unmap_page_table_cap                                                    *)
LEMMA AgreeUnmapTable ==
  ASSUME TypeOK, TypeOK', Agreement, NEW t \in Tables, NEW i \in EntryIndex, NEW c \in Tables,
         Live(t), Live(c), UnmapTable(t, i, c)
  PROVE  Agreement'
<1> USE DEF Objects
<1>1. Agrees(c, t, i) /\ cap[c].base < KernelBase
  BY UserLink DEF UnmapTable, CanUnmap
<1>2. /\ SetCap(c, Released(cap[c])) /\ SetEntry(t, i, Off) /\ entries[t][i].to = c
  BY DEF UnmapTable, CanUnmap
<1>3. /\ ~cap'[c].mapped /\ cap'[c].parent = Nil /\ cap'[c].base = cap[c].base
      /\ cap'[c].level = cap[c].level /\ cap'[c].st = cap[c].st
      /\ \A y \in Objects : y # c => cap'[y] = cap[y]
  <2>1. PICK m \in Capability : m = cap[c]
    BY CapParts
  <2>2. /\ Released(m).mapped = FALSE /\ Released(m).parent = Nil
        /\ Released(m).base = m.base /\ Released(m).level = m.level /\ Released(m).st = m.st
    BY DEF Released, Capability
  <2> QED BY <1>2, <2>1, <2>2, OneCap
<1>4. /\ entries'[t][i] = Off
      /\ \A s \in Tables, j \in EntryIndex : s # t \/ j # i => entries'[s][j] = entries[s][j]
  BY <1>2, OneEntry
<1>5. \A s \in Tables : Shielded(s)' <=> Shielded(s)
  BY <1>3, SameOwn DEF Shielded
<1>6. ASSUME NEW s \in Tables, NEW j \in EntryIndex, entries'[s][j].to = c
      PROVE  Shielded(s)' \/ entries'[s][j].kind = "kernel"
  <2>1. (s # t \/ j # i) /\ entries'[s][j] = entries[s][j]
    BY <1>4, <1>6, EntryParts
  <2>2. ~Agrees(c, s, j)
    BY <1>1, <2>1 DEF Agrees
  <2> QED BY <1>5, <1>6, <2>1, <2>2 DEF Agreement, TableEntries
<1>7. ~IsRoot(c)
  BY <1>1, EntryParts DEF Agrees, IsRoot
<1>8. cap'[c].base % PageSize(cap'[c].level + 1) = 0
  BY <1>1, <1>3 DEF Agreement, Aligned
<1> QED BY <1>1, <1>2, <1>3, <1>4, <1>5, <1>6, <1>7, <1>8, AgreeUnlink

(* map_virt_page_cap                                                       *)
LEMMA AgreeMapPage ==
  ASSUME TypeOK, TypeOK', Agreement, NEW t \in Tables, NEW i \in EntryIndex, NEW p \in Pages,
         MapPage(t, i, p)
  PROVE  Agreement'
<1> USE DEF Objects
<1>1. PICK l \in Levels : l = cap[p].level /\ l = cap[t].level
  BY CapParts DEF MapPage, SameLevel
<1>2. PICK b : b = AddressAt(t, l, i)
  OBVIOUS
<1>3. b \in Nat /\ b < KernelBase /\ Index(b, l) = i
  BY <1>1, <1>2, Reachable DEF MapPage, Agreement
<1>4. PICK m : m = MappedAt(l, i, b, t)
  OBVIOUS
<1>5. /\ SetCap(p, m) /\ SetEntry(t, i, Entry(p, "user"))
      /\ entries[t][i] = Off /\ ~cap[p].mapped
  BY <1>1, <1>2, <1>4 DEF MapPage, IsEnabled
<1>6. /\ cap'[p].mapped /\ Live(p)' /\ cap'[p].level = l
      /\ cap'[p].base = b /\ cap'[p].parent = t
      /\ \A y \in Objects : y # p => cap'[y] = cap[y]
  BY <1>4, <1>5, SetMapped
<1>7. /\ entries'[t][i].to = p /\ entries'[t][i].kind # "kernel"
      /\ \A s \in Tables, j \in EntryIndex : s # t \/ j # i => entries'[s][j] = entries[s][j]
  BY <1>5, OneEntry, EntryParts
<1>8. p \notin Tables
  BY EntryParts
<1>9. OwnIndex(p)' = i
  BY <1>3, <1>6, <1>8 DEF OwnIndex
<1>10. \A s \in Tables, j \in EntryIndex : entries'[s][j].to = p => s = t /\ j = i
  BY <1>5, <1>7 DEF Agreement, PageEntries, Agrees
<1> QED BY <1>3, <1>5, <1>6, <1>7, <1>8, <1>9, <1>10, AgreeLink

(* unmap_virt_page_cap                                                     *)
LEMMA AgreeUnmapPage ==
  ASSUME TypeOK, TypeOK', Agreement, NEW t \in Tables, NEW i \in EntryIndex, NEW p \in Pages,
         UnmapPage(t, i, p)
  PROVE  Agreement'
<1> USE DEF Objects
<1>1. /\ SetCap(p, Unmapped(cap[p].level)) /\ SetEntry(t, i, Off) /\ entries[t][i].to = p
      /\ p \notin Tables
  BY EntryParts DEF UnmapPage, CanUnmap
<1>2. /\ ~cap'[p].mapped /\ cap'[p].parent = Nil /\ cap'[p].base = 0
      /\ \A y \in Objects : y # p => cap'[y] = cap[y]
  BY <1>1, OneCap, UnmappedParts
<1>3. /\ entries'[t][i] = Off
      /\ \A s \in Tables, j \in EntryIndex : s # t \/ j # i => entries'[s][j] = entries[s][j]
  BY <1>1, OneEntry
<1>4. \A s \in Tables, j \in EntryIndex : entries'[s][j].to # p
  BY <1>1, <1>3, EntryParts DEF Agreement, PageEntries, Agrees
<1>5. 0 < KernelBase
  BY Constants
<1> QED BY <1>1, <1>2, <1>3, <1>4, <1>5, AgreeUnlink

(* remap_virt_page_cap                                                     *)
LEMMA AgreeRemapPage ==
  ASSUME TypeOK, TypeOK', Agreement, NEW t \in Tables, NEW i \in EntryIndex, NEW p \in Pages,
         NEW old \in Tables, RemapPage(t, i, p, old)
  PROVE  Agreement'
<1> USE DEF Objects
<1>1. PICK l \in Levels : l = cap[p].level /\ l = cap[t].level
  BY CapParts DEF RemapPage, SameLevel
<1>2. PICK b : b = AddressAt(t, l, i)
  OBVIOUS
<1>3. b \in Nat /\ b < KernelBase /\ Index(b, l) = i
  BY <1>1, <1>2, Reachable DEF RemapPage, Agreement
<1>4. PICK m, j0 : m = MappedAt(l, i, b, t) /\ j0 = cap[p].index
  OBVIOUS
<1>5. /\ SetCap(p, m) /\ entries' = Moved(t, i, p, old)
      /\ entries[t][i] = Off /\ entries[old][j0].to = p /\ j0 \in EntryIndex
  BY <1>1, <1>2, <1>4, CapParts DEF RemapPage, IsEnabled
<1>6. /\ cap'[p].mapped /\ Live(p)' /\ cap'[p].level = l
      /\ cap'[p].base = b /\ cap'[p].parent = t
      /\ \A y \in Objects : y # p => cap'[y] = cap[y]
  BY <1>4, <1>5, SetMapped
<1>7. \A s \in Tables, j \in EntryIndex :
        entries'[s][j] = IF s = t /\ j = i THEN Entry(p, "user")
                         ELSE IF s = old /\ j = j0 THEN Off ELSE entries[s][j]
  <2>1. entries' = [entries EXCEPT ![old][j0] = Off, ![t][i] = Entry(p, "user")]
    BY <1>4, <1>5 DEF Moved
  <2>2. PICK half : half = [entries EXCEPT ![old][j0] = Off]
    OBVIOUS
  <2>3. /\ half \in [Tables -> [EntryIndex -> PageTableEntry]]
        /\ \A s \in Tables, j \in EntryIndex :
             half[s][j] = IF s = old /\ j = j0 THEN Off ELSE entries[s][j]
    BY <1>5, <2>2, EntryType DEF TypeOK, Off, Kind
  <2>4. entries' = [half EXCEPT ![t][i] = Entry(p, "user")]
    BY <2>1, <2>2
  <2> QED BY <2>3, <2>4
<1>8. p \notin Tables
  BY EntryParts
<1>9. OwnIndex(p)' = i
  BY <1>3, <1>6, <1>8 DEF OwnIndex
<1>10. entries'[t][i].to = p /\ entries'[t][i].kind # "kernel"
  BY <1>7, EntryParts
<1>11. \A s \in Tables, j \in EntryIndex : entries[s][j].to = p => s = old /\ j = j0
  BY <1>5 DEF Agreement, PageEntries, Agrees
<1>12. \A s \in Tables, j \in EntryIndex : entries'[s][j].to = p => s = t /\ j = i
  BY <1>7, <1>11, EntryParts
<1>13. \A s \in Tables, j \in EntryIndex :
         \/ s = t /\ j = i
         \/ entries'[s][j] = entries[s][j]
         \/ entries[s][j].to = p /\ entries'[s][j] = Off
  BY <1>5, <1>7
<1> QED BY <1>3, <1>5, <1>6, <1>8, <1>9, <1>10, <1>12, <1>13, AgreeLink

(* No page of no size has a remainder at address 0.                        *)
LEMMA ZeroAligned ==
  ASSUME NEW l \in Nat
  PROVE  0 % PageSize(l) = 0
<1>1. PICK P \in Nat \ {0} : P = PageSize(l)
  BY PageSizeType
<1> QED BY <1>1

(* create_page_table_object and create_virt_page_object                    *)
LEMMA AgreeCreate ==
  ASSUME TypeOK, TypeOK', Agreement, NEW x \in Objects, NEW l \in Levels,
         cap[x].st = "none", SetCap(x, Unmapped(l)), entries' = entries
  PROVE  Agreement'
<1> USE DEF Objects
<1>1. /\ ~cap'[x].mapped /\ cap'[x].parent = Nil /\ cap'[x].base = 0 /\ cap'[x].level = l
      /\ cap'[x].st = "live"
      /\ \A y \in Objects : y # x => cap'[y] = cap[y]
  BY OneCap, UnmappedParts
<1>2. ~cap[x].mapped /\ ~Shielded(x)
  BY CapParts, Constants DEF Agreement, Unlinked, Live, Shielded
<1>3. ASSUME NEW s \in Tables, NEW j \in EntryIndex, entries'[s][j].to = x
      PROVE  x \in Tables /\ (Shielded(s)' \/ entries'[s][j].kind = "kernel")
  <2>1. x \in Tables
    BY <1>2, <1>3 DEF Agreement, PageEntries, Agrees
  <2>2. Shielded(s) \/ entries'[s][j].kind = "kernel"
    BY <1>2, <1>3, <2>1 DEF Agreement, TableEntries, Agrees
  <2> QED BY <1>1, <1>2, <2>1, <2>2, SameOwn
<1>4. 0 < KernelBase /\ l + 1 \in Nat
  BY Constants
<1>5. cap'[x].base % PageSize(cap'[x].level + 1) = 0
  BY <1>1, <1>4, ZeroAligned
<1>6. ~IsRoot(x)
  BY <1>2 DEF IsRoot
<1> QED BY <1>1, <1>2, <1>3, <1>4, <1>5, <1>6, AgreeUnlink

(* destroy_page_table_object and destroy_virt_page_object                  *)
LEMMA AgreeDestroy ==
  ASSUME TypeOK, TypeOK', Agreement, NEW x \in Objects, Destroy(x)
  PROVE  Agreement'
<1> USE DEF Objects
<1>1. CASE EntryFound(x)
  <2>1. SetCap(x, NoCap("dead")) /\ entries' = Disabled(x)
    BY <1>1 DEF Destroy, AssertThen
  <2>2. /\ ~cap'[x].mapped /\ cap'[x].parent = Nil /\ cap'[x].base = 0 /\ cap'[x].level = 0
        /\ cap'[x].st = "dead"
        /\ \A y \in Objects : y # x => cap'[y] = cap[y]
    BY <2>1, OneCap, UnmappedParts
  <2>3. \A s \in Tables, j \in EntryIndex :
          entries'[s][j] = IF s = cap[x].parent /\ j = OwnIndex(x) THEN Off ELSE entries[s][j]
    BY <2>1, CapParts, OwnIndexType, EntryParts DEF Disabled, TypeOK
  <2>4. \A s \in Tables, j \in EntryIndex :
          s = cap[x].parent /\ j = OwnIndex(x) => entries[s][j].to = x
    BY <1>1, EntryParts DEF EntryFound
  <2>5. ASSUME NEW s \in Tables, NEW j \in EntryIndex, entries'[s][j].to = x
        PROVE  x \in Tables /\ (Shielded(s)' \/ entries'[s][j].kind = "kernel")
    <3>1. entries'[s][j] = entries[s][j] /\ ~Agrees(x, s, j)
      BY <2>3, <2>5, EntryParts DEF Agrees
    <3>2. x \in Tables
      BY <2>5, <3>1 DEF Agreement, PageEntries
    <3>3. Shielded(s) \/ entries[s][j].kind = "kernel"
      BY <2>5, <3>1, <3>2 DEF Agreement, TableEntries
    <3>4. Shielded(s) => Shielded(s)'
      BY <2>2, SameOwn DEF Shielded
    <3> QED BY <3>1, <3>2, <3>3, <3>4
  <2>6. Shielded(x)' /\ 0 < KernelBase /\ 0 + 1 \in Nat
    BY <2>2, Constants DEF Shielded
  <2>7. cap'[x].base % PageSize(cap'[x].level + 1) = 0
    BY <2>2, <2>6, ZeroAligned
  <2> QED BY <2>2, <2>3, <2>4, <2>5, <2>6, <2>7, AgreeUnlink
<1>2. CASE ~EntryFound(x)
  <2>1. cap' = cap /\ entries' = entries
    BY <1>2 DEF Destroy, AssertThen
  <2> QED BY <2>1 DEF Agreement, Unlinked, Aligned, PageEntries, TableEntries, KernelEntries,
                      Findable, Shielded, IsRoot, Agrees, EntryFound, OwnIndex, Live
<1> QED BY <1>1, <1>2

(* extend_cap_space, if the tables of the capability space are the         *)
(* kernel's.                                                               *)
LEMMA AgreeExtend ==
  ASSUME TypeOK, TypeOK', Agreement, NEW t \in Tables, NEW mid \in Tables, NEW i \in EntryIndex,
         NEW va \in Nat, va >= KernelBase, Live(t), ~cap[t].mapped, ~IsEnabled(mid, i),
         Shielded(mid), SetEntry(mid, i, Entry(t, "table")), SetCap(t, MappedAt(0, 0, va, t))
  PROVE  Agreement'
<1> USE DEF Objects
<1>2. /\ cap'[t].mapped /\ Live(t)' /\ cap'[t].base = va
      /\ \A y \in Objects : y # t => cap'[y] = cap[y]
  BY SetMapped
<1>3. /\ entries'[mid][i].to = t /\ entries'[mid][i].kind # "kernel" /\ entries[mid][i] = Off
      /\ \A s \in Tables, j \in EntryIndex : s # mid \/ j # i => entries'[s][j] = entries[s][j]
  BY OneEntry, EntryParts DEF IsEnabled
<1>4. t \notin Pages
  BY EntryParts
<1> QED BY <1>2, <1>3, <1>4, AgreeLink

(* The entries that init_task writes: a root table leads to the tables of  *)
(* the capability space, one after the other.                              *)
TaskLinked(E, ents, root, tables) ==
  /\ \A t \in Tables : t # root /\ (\A l \in Inner : tables[l] # t) => E[t] = ents[t]
  /\ \A i \in EntryIndex : E[root][i].to # Nil => i = Index(CapSpaceBase, MaxLevel)
  /\ E[root][Index(CapSpaceBase, MaxLevel)] = Entry(tables[MaxLevel - 1], "kernel")
  /\ \A l \in Inner, i \in EntryIndex :
       E[tables[l]][i].to # Nil => i = Index(CapSpaceBase, l) /\ l # 0
  /\ \A l \in Inner : E[tables[l]][Index(CapSpaceBase, l)] = CapLink(l, tables)

(* That is what init_task does.                                            *)
LEMMA InitTaskEntries ==
  ASSUME NEW ents, NEW root \in Tables, NEW tables \in [Inner -> Tables],
         \A l, m \in Inner : tables[l] # root /\ (tables[l] = tables[m] => l = m),
         NEW E, E = InitTask(ents, root, tables)
  PROVE  TaskLinked(E, ents, root, tables)
<1>2. \A t \in Tables : t # root /\ (\A l \in Inner : tables[l] # t) => E[t] = ents[t]
  BY DEF InitTask
<1>3. E[root] = RootEntries(tables)
  BY DEF InitTask
<1>4. ASSUME NEW l \in Inner PROVE E[tables[l]] = CapTableEntries(l, tables)
  <2>1. tables[l] \in Tables /\ tables[l] # root /\ \E m \in Inner : tables[m] = tables[l]
    OBVIOUS
  <2>2. LevelIn(tables, tables[l]) = l
    BY <2>1, LevelInType
  <2> QED BY <2>1, <2>2 DEF InitTask
<1>5. ASSUME NEW l \in Levels
      PROVE  /\ Index(CapSpaceBase, l) \in EntryIndex
             /\ CapTableEntries(l, tables)[Index(CapSpaceBase, l)] = CapLink(l, tables)
             /\ \A i \in EntryIndex : i # Index(CapSpaceBase, l) =>
                  CapTableEntries(l, tables)[i].to = Nil
  <2>1. Index(CapSpaceBase, l) \in EntryIndex
    BY IndexType, Constants
  <2> QED BY <2>1, EntryParts DEF CapTableEntries, Empty
<1>6. Index(CapSpaceBase, MaxLevel) \notin MappedSpace
  <2>1. PICK i \in Nat, P \in Nat : i = Index(CapSpaceBase, MaxLevel) /\ P = PageSize(MaxLevel)
    BY <1>5, PageSizeType, Constants
  <2>2. i * P = CapSpaceBase
    BY <2>1, CapIndexAtTop
  <2> QED BY <2>1, <2>2, Constants DEF MappedSpace
<1>7. MaxLevel \in Levels /\ MaxLevel # 0 /\ MaxLevel # 1 /\ Inner \subseteq Levels
  BY Constants
<1>8. CapLink(MaxLevel, tables) = Entry(tables[MaxLevel - 1], "kernel")
  BY <1>7 DEF CapLink
<1>9. /\ E[root][Index(CapSpaceBase, MaxLevel)] = Entry(tables[MaxLevel - 1], "kernel")
      /\ \A i \in EntryIndex : i # Index(CapSpaceBase, MaxLevel) => E[root][i].to = Nil
  BY <1>3, <1>5, <1>6, <1>7, <1>8, EntryParts DEF RootEntries
<1>10. CapLink(0, tables).to = Nil
  BY EntryParts DEF CapLink
<1> QED BY <1>2, <1>4, <1>5, <1>7, <1>9, <1>10 DEF TaskLinked

(* What a task is created on, if only unused tables are.                   *)
LEMMA UnusedTables ==
  ASSUME ~ReuseTables, NEW k, NEW r, NEW ts, CreateTask(k, r, ts)
  PROVE  /\ \A l, m \in Inner : ts[l] # r /\ (ts[l] = ts[m] => l = m)
         /\ \A t \in {r} \cup {ts[l] : l \in Inner} :
              cap[t].st = "live" /\ ~cap[t].mapped /\ entries[t] = Empty
         /\ entries' = InitTask(entries, r, ts)
         /\ cap' = [x \in Objects |->
                      IF \E l \in Inner : ts[l] = x
                      THEN MappedAt(LevelIn(ts, x), 0, CapSpaceBase, cap[x].parent)
                      ELSE IF x = r THEN MappedAt(MaxLevel, 0, 0, cap[x].parent)
                      ELSE cap[x]]
         /\ rootOf' = [rootOf EXCEPT ![k] = r] /\ ext' = [ext EXCEPT ![k] = 1]
<1>1. TaskTables(r, ts) /\ Untouched(r, ts)
  BY DEF CreateTask, TaskTables
<1>2. EntriesFree(ts)
  BY <1>1 DEF Untouched, EntriesFree
<1>3. \A l, m \in Inner : ts[l] # r /\ (ts[l] = ts[m] => l = m)
  BY <1>1 DEF Untouched
<1>4. \A t \in {r} \cup {ts[l] : l \in Inner} :
        cap[t].st = "live" /\ ~cap[t].mapped /\ entries[t] = Empty
  BY <1>1 DEF TaskTables, Untouched, Live
<1> QED BY <1>2, <1>3, <1>4 DEF CreateTask, AssertThen

(* The tables of a new task, and no others, change.                        *)
LEMMA TaskEffects ==
  ASSUME TypeOK, Unlinked, ~ReuseTables, NEW k \in Tasks, NEW r \in LiveTables, NEW ts \in [Inner -> LiveTables],
         CreateTask(k, r, ts)
  PROVE  /\ r \in Tables /\ ts \in [Inner -> Tables]
         /\ \A l, m \in Inner : ts[l] # r /\ (ts[l] = ts[m] => l = m)
         /\ ~cap[r].mapped /\ cap[r].st = "live" /\ entries[r] = Empty
         /\ cap'[r].st = "live" /\ IsRoot(r)'
         /\ \A l \in Inner :
              /\ ~cap[ts[l]].mapped /\ cap[ts[l]].st = "live" /\ entries[ts[l]] = Empty
              /\ cap'[ts[l]].st = "live" /\ cap'[ts[l]].mapped
              /\ cap'[ts[l]].base = CapSpaceBase /\ cap'[ts[l]].parent = Nil
         /\ \A x \in Objects : x # r /\ (\A l \in Inner : ts[l] # x) => cap'[x] = cap[x]
<1> USE DEF Objects
<1>1. r \in Tables /\ ts \in [Inner -> Tables]
  BY DEF LiveTables
<1>2. \A l, m \in Inner : ts[l] # r /\ (ts[l] = ts[m] => l = m)
  BY UnusedTables
<1>3. \A t \in {r} \cup {ts[l] : l \in Inner} :
        cap[t].st = "live" /\ ~cap[t].mapped /\ entries[t] = Empty
  BY UnusedTables
<1>4. \A x \in Objects : cap'[x] =
        IF x = r THEN MappedAt(MaxLevel, 0, 0, cap[x].parent)
        ELSE IF \E l \in Inner : ts[l] = x
             THEN MappedAt(LevelIn(ts, x), 0, CapSpaceBase, cap[x].parent)
             ELSE cap[x]
  BY <1>2, UnusedTables
<1>5. cap'[r].st = "live" /\ IsRoot(r)'
  <2>1. cap[r].parent = Nil
    BY <1>1, <1>3 DEF Unlinked
  <2>2. cap'[r] = MappedAt(MaxLevel, 0, 0, Nil)
    BY <1>1, <1>4, <2>1
  <2> QED BY <2>2 DEF IsRoot, MappedAt, Cap
<1>6. ASSUME NEW l \in Inner
      PROVE  /\ cap'[ts[l]].st = "live" /\ cap'[ts[l]].mapped
             /\ cap'[ts[l]].base = CapSpaceBase /\ cap'[ts[l]].parent = Nil
  <2>1. cap[ts[l]].parent = Nil
    BY <1>1, <1>3 DEF Unlinked
  <2>2. ts[l] \in Objects /\ ts[l] # r /\ \E m \in Inner : ts[m] = ts[l]
    BY <1>1, <1>2
  <2>3. cap'[ts[l]] = MappedAt(LevelIn(ts, ts[l]), 0, CapSpaceBase, Nil)
    BY <1>4, <2>1, <2>2
  <2> QED BY <2>3 DEF MappedAt, Cap
<1> QED BY <1>1, <1>2, <1>3, <1>4, <1>5, <1>6

(* create_task_object                                                      *)
LEMMA AgreeCreateTask ==
  ASSUME TypeOK, TypeOK', Agreement, ~ReuseTables, NEW k \in Tasks, NEW r \in LiveTables,
         NEW ts \in [Inner -> LiveTables], CreateTask(k, r, ts)
  PROVE  Agreement'
<1> USE DEF Objects
<1>1. /\ r \in Tables /\ ts \in [Inner -> Tables]
      /\ \A l, m \in Inner : ts[l] # r /\ (ts[l] = ts[m] => l = m)
      /\ ~cap[r].mapped /\ entries[r] = Empty
      /\ cap'[r].st = "live" /\ IsRoot(r)'
      /\ \A l \in Inner :
           /\ ~cap[ts[l]].mapped /\ entries[ts[l]] = Empty
           /\ cap'[ts[l]].st = "live" /\ cap'[ts[l]].mapped
           /\ cap'[ts[l]].base = CapSpaceBase /\ cap'[ts[l]].parent = Nil
      /\ \A x \in Objects : x # r /\ (\A l \in Inner : ts[l] # x) => cap'[x] = cap[x]
  BY TaskEffects DEF Agreement
<1>2. /\ \A t \in Tables : t # r /\ (\A l \in Inner : ts[l] # t) => entries'[t] = entries[t]
      /\ \A i \in EntryIndex : entries'[r][i].to # Nil => i = Index(CapSpaceBase, MaxLevel)
      /\ entries'[r][Index(CapSpaceBase, MaxLevel)] = Entry(ts[MaxLevel - 1], "kernel")
      /\ \A l \in Inner, i \in EntryIndex :
           entries'[ts[l]][i].to # Nil => i = Index(CapSpaceBase, l) /\ l # 0
      /\ \A l \in Inner : entries'[ts[l]][Index(CapSpaceBase, l)] = CapLink(l, ts)
  <2>1. PICK E : E = InitTask(entries, r, ts) /\ entries' = E
    BY UnusedTables
  <2>2. TaskLinked(E, entries, r, ts)
    BY <1>1, <2>1, InitTaskEntries
  <2> QED BY <2>1, <2>2 DEF TaskLinked
<1> DEFINE fresh(x) == x = r \/ \E l \in Inner : ts[l] = x
<1>3. \A x \in Objects : fresh(x) => ~cap[x].mapped /\ x \in Tables /\ cap'[x].mapped
                                     /\ cap'[x].st = "live" /\ cap'[x].parent = Nil
  BY <1>1 DEF IsRoot
<1>4. \A x \in Objects : ~fresh(x) => cap'[x] = cap[x]
  BY <1>1
<1>5. \A s \in Tables : ~fresh(s) => entries'[s] = entries[s]
  BY <1>2
<1>6. \A l \in Inner : Shielded(ts[l])'
  BY <1>1, Constants DEF Shielded
<1>7. ~Shielded(r)' /\ cap'[r].base = 0 /\ cap'[r].level = MaxLevel
  BY <1>1, Constants DEF Shielded, IsRoot
<1>8. \A j \in EntryIndex : entries'[r][j].to \in Objects =>
        j = Index(CapSpaceBase, MaxLevel) /\ entries'[r][j] = Entry(ts[MaxLevel - 1], "kernel")
  BY <1>2, EntryParts
<1>9. ASSUME NEW s \in Tables, NEW j \in EntryIndex, fresh(s) PROVE entries'[s][j].to \notin Pages
  <2>1. CASE s = r
    <3>1. ts[MaxLevel - 1] \in Tables
      BY <1>1, Constants
    <3> QED BY <1>8, <2>1, <3>1, EntryParts
  <2>2. ASSUME NEW l \in Inner, s = ts[l] PROVE entries'[s][j].to \notin Pages
    <3> SUFFICES ASSUME entries'[s][j].to \in Pages PROVE FALSE
      OBVIOUS
    <3>1. j = Index(CapSpaceBase, l) /\ l # 0
      BY <1>2, <2>2, EntryParts
    <3>2. entries'[s][j] = CapLink(l, ts) /\ l - 1 \in Inner
      BY <1>2, <2>2, <3>1, Constants DEF Inner
    <3>3. CapLink(l, ts).to \in Tables
      <4>1. ts[0] \in Tables /\ ts[l - 1] \in Tables
        BY <1>1, <3>2, Constants
      <4> QED BY <3>1, <4>1, EntryParts DEF CapLink
    <3> QED BY <3>2, <3>3, EntryParts
  <2> QED BY <1>9, <2>1, <2>2
<1> HIDE DEF fresh
<1>10. Unlinked'
  BY <1>3, <1>4 DEF Agreement, Unlinked, Live
<1>11. Aligned'
  <2> SUFFICES ASSUME NEW t \in Tables, cap'[t].base < KernelBase
               PROVE  cap'[t].base % PageSize(cap'[t].level + 1) = 0
    BY DEF Aligned
  <2>1. CASE t = r
    BY <1>7, <2>1, ZeroAligned, Constants
  <2>2. ASSUME NEW l \in Inner, t = ts[l] PROVE FALSE
    BY <1>1, <2>2, Constants
  <2>3. CASE ~fresh(t)
    BY <1>4, <2>3 DEF Agreement, Aligned
  <2> QED BY <2>1, <2>2, <2>3 DEF fresh
<1>12. PageEntries'
  <2> SUFFICES ASSUME NEW s \in Tables, NEW j \in EntryIndex, NEW p \in Pages,
                      entries'[s][j].to = p
               PROVE  Agrees(p, s, j)'
    BY DEF PageEntries
  <2>1. ~fresh(s) /\ ~fresh(p)
    BY <1>3, <1>9, EntryParts
  <2> QED BY <1>4, <1>5, <2>1, SameOwn DEF Agreement, PageEntries
<1>13. TableEntries'
  <2> SUFFICES ASSUME NEW s \in Tables, NEW j \in EntryIndex, NEW d \in Tables,
                      entries'[s][j].to = d, entries'[s][j].kind # "kernel", ~Shielded(s)'
               PROVE  Agrees(d, s, j)' /\ cap'[d].base < KernelBase
    BY DEF TableEntries
  <2>1. ~fresh(s)
    BY <1>6, <1>8, EntryParts DEF fresh
  <2>2. entries'[s] = entries[s] /\ ~Shielded(s)
    BY <1>4, <1>5, <2>1, SameOwn
  <2>3. Agrees(d, s, j) /\ cap[d].base < KernelBase
    BY <2>2 DEF Agreement, TableEntries
  <2>4. ~fresh(d)
    BY <1>3, <2>3 DEF Agrees
  <2> QED BY <1>4, <2>3, <2>4, SameOwn
<1>14. KernelEntries'
  <2> SUFFICES ASSUME NEW s \in Tables, NEW j \in EntryIndex,
                      entries'[s][j].to \in Tables, entries'[s][j].kind = "kernel", ~Shielded(s)'
               PROVE  IsRoot(s)' /\ PageSize(MaxLevel) * j >= KernelBase
    BY DEF KernelEntries
  <2>1. CASE s = r
    <3>1. j = Index(CapSpaceBase, MaxLevel)
      BY <1>8, <2>1
    <3>2. PageSize(MaxLevel) * j >= KernelBase
      BY <3>1, CapIndexAtTop, Constants
    <3> QED BY <1>1, <2>1, <3>2
  <2>2. CASE ~fresh(s)
    <3>1. entries'[s] = entries[s] /\ ~Shielded(s)
      BY <1>4, <1>5, <2>2, SameOwn
    <3> QED BY <1>4, <2>2, <3>1, SameOwn DEF Agreement, KernelEntries
  <2> QED BY <1>6, <2>1, <2>2 DEF fresh
<1>15. Findable'
  <2> SUFFICES ASSUME NEW y \in Objects, cap'[y].base < KernelBase, cap'[y].parent # Nil
               PROVE  entries'[cap'[y].parent][OwnIndex(y)'].to = y
    BY DEF Findable, EntryFound
  <2>1. ~fresh(y)
    BY <1>3
  <2>2. cap'[y] = cap[y] /\ OwnIndex(y)' = OwnIndex(y)
    BY <1>4, <2>1, SameOwn
  <2>3. entries[cap[y].parent][OwnIndex(y)].to = y
    BY <2>2 DEF Agreement, Findable, EntryFound
  <2>4. cap[y].parent \in Tables /\ OwnIndex(y) \in EntryIndex
    BY <2>2, CapParts, OwnIndexType
  <2>5. ~fresh(cap[y].parent)
    <3>1. \A t \in Tables : fresh(t) => entries[t] = Empty
      BY <1>1 DEF fresh
    <3> QED BY <2>3, <2>4, <3>1, EntryParts DEF Empty
  <2> QED BY <1>5, <2>2, <2>3, <2>4, <2>5
<1> QED BY <1>10, <1>11, <1>12, <1>13, <1>14, <1>15 DEF Agreement

(* The program and the capability space are behind different entries of    *)
(* the first root table.                                                   *)
LEMMA PayloadIndexAtTop == Index(PayloadBase, MaxLevel) # Index(CapSpaceBase, MaxLevel)
<1>1. MaxLevel \in Nat /\ N \in Nat \ {0} /\ CapSpaceBase \in Nat /\ PayloadBase \in Nat
      /\ PayloadBase < CapSpaceBase
  BY Constants
<1>2. PICK P \in Nat \ {0} : P = PageSize(MaxLevel) /\ PageSize(MaxLevel + 1) = N * P
  BY <1>1, PageSizeType
<1>3. PICK q \in Nat, s \in 0..(P - 1) : q = PayloadBase \div P /\ PayloadBase = P * q + s
  BY <1>1, DivMod
<1>4. PICK m \in EntryIndex : m = Index(CapSpaceBase, MaxLevel) /\ P * m = CapSpaceBase
  BY <1>1, <1>2, IndexType, CapIndexAtTop
<1>5. m \in Nat /\ m < N
  BY <1>1, <1>4 DEF EntryIndex
<1>6. P * q < P * m
  <2>1. P * q \in Nat
    OBVIOUS
  <2> QED BY <1>1, <1>3, <1>4, <1>5, <2>1
<1>7. q < m
  <2> SUFFICES ASSUME q >= m PROVE FALSE
    BY <1>5
  <2>1. P * q >= P * m
    BY <1>5
  <2> QED BY <1>5, <1>6, <2>1
<1>8. q % N = q
  BY <1>1, <1>5, <1>7
<1> QED BY <1>2, <1>3, <1>4, <1>5, <1>7, <1>8 DEF Index

(* The tables of the root task's program, from the root table down.        *)
PayloadAt(l) == IF l = MaxLevel THEN RootTable ELSE PayloadTables[l]

PayloadLink(l) ==
  IF l = 0 THEN Entry(PayloadPage, "user") ELSE Entry(PayloadAt(l - 1), "table")

(* The entries that boot leaves.                                           *)
LEMMA BootLinks ==
  ASSUME Init
  PROVE  /\ \A l \in Levels : entries[PayloadAt(l)][Index(PayloadBase, l)] = PayloadLink(l)
         /\ \A i \in EntryIndex : entries[RootTable][i].to # Nil =>
              i = Index(PayloadBase, MaxLevel) \/ i = Index(CapSpaceBase, MaxLevel)
         /\ entries[RootTable][Index(CapSpaceBase, MaxLevel)]
              = Entry(CapTables[MaxLevel - 1], "kernel")
         /\ \A l \in Inner, i \in EntryIndex :
              entries[CapTables[l]][i].to # Nil => i = Index(CapSpaceBase, l) /\ l # 0
         /\ \A l \in Inner :
              entries[CapTables[l]][Index(CapSpaceBase, l)] = CapLink(l, CapTables)
         /\ \A l \in Inner, i \in EntryIndex :
              entries[PayloadTables[l]][i].to # Nil => i = Index(PayloadBase, l)
         /\ \A t \in Tables, i \in EntryIndex :
              \/ t = RootTable \/ \E l \in Inner : t = CapTables[l] \/ t = PayloadTables[l]
              \/ entries[t][i].to = Nil
<1>1. PICK E : E = InitTask([t \in Tables |-> Empty], RootTable, CapTables)
  OBVIOUS
<1>2. \A l, m \in Inner : /\ CapTables[l] # RootTable /\ CapTables[l] # PayloadTables[m]
                          /\ PayloadTables[l] # RootTable
                          /\ CapTables[l] = CapTables[m] \/ PayloadTables[l] = PayloadTables[m] => l = m
  BY BootAssumption DEF Inner
<1>3. TaskLinked(E, [t \in Tables |-> Empty], RootTable, CapTables)
  BY <1>1, <1>2, BootTables, InitTaskEntries
<1>4. \A t \in Tables, i \in EntryIndex :
        t # RootTable /\ (\A l \in Inner : CapTables[l] # t) => E[t][i].to = Nil
  BY <1>3, EntryParts DEF TaskLinked, Empty
<1>5. \A t \in Tables, i \in EntryIndex :
        entries[t][i] = IF \E l \in Levels : PayloadAt(l) = t /\ i = Index(PayloadBase, l)
                        THEN PayloadLink(CHOOSE l \in Levels : PayloadAt(l) = t)
                        ELSE E[t][i]
  BY <1>1 DEF Init, BootEntries, PayloadAt, PayloadLink
<1>6. \A l \in Levels : l = MaxLevel \/ l \in Inner
  BY Constants DEF Levels, Inner
<1>7. \A l, m \in Levels : PayloadAt(l) = PayloadAt(m) => l = m
  BY <1>2, <1>6 DEF PayloadAt
<1>8. \A l \in Levels : (CHOOSE m \in Levels : PayloadAt(m) = PayloadAt(l)) = l
  BY <1>7
<1>9. \A l \in Levels : PayloadAt(l) \in Tables /\ Index(PayloadBase, l) \in EntryIndex
                        /\ Index(CapSpaceBase, l) \in EntryIndex
  BY <1>6, BootTables, IndexType, Constants DEF PayloadAt
<1>10. ASSUME NEW l \in Levels
       PROVE  entries[PayloadAt(l)][Index(PayloadBase, l)] = PayloadLink(l)
  BY <1>5, <1>8, <1>9
<1>11. PayloadAt(MaxLevel) = RootTable /\ MaxLevel \in Levels /\ MaxLevel \notin Inner
  BY Constants DEF PayloadAt, Inner
<1>12. \A l \in Inner : PayloadAt(l) = PayloadTables[l] /\ l \in Levels
  BY <1>11, Constants DEF PayloadAt
<1>13. ASSUME NEW t \in Tables, NEW i \in EntryIndex, NEW l \in Levels, PayloadAt(l) = t,
              i # Index(PayloadBase, l)
       PROVE  entries[t][i] = E[t][i]
  BY <1>5, <1>7, <1>13
<1>14. ASSUME NEW t \in Tables, NEW i \in EntryIndex, \A l \in Levels : PayloadAt(l) # t
       PROVE  entries[t][i] = E[t][i]
  BY <1>5, <1>14
<1>15. \A i \in EntryIndex : entries[RootTable][i].to # Nil =>
         i = Index(PayloadBase, MaxLevel) \/ i = Index(CapSpaceBase, MaxLevel)
  BY <1>3, <1>11, <1>13, BootTables DEF TaskLinked
<1>16. entries[RootTable][Index(CapSpaceBase, MaxLevel)] = Entry(CapTables[MaxLevel - 1], "kernel")
  BY <1>3, <1>9, <1>11, <1>13, BootTables, PayloadIndexAtTop DEF TaskLinked
<1>17. ASSUME NEW l \in Inner, NEW i \in EntryIndex
       PROVE  entries[CapTables[l]][i] = E[CapTables[l]][i]
  <2>1. CapTables[l] \in Tables /\ \A m \in Levels : PayloadAt(m) # CapTables[l]
    BY <1>2, <1>6, BootTables DEF PayloadAt
  <2> QED BY <1>14, <2>1
<1>18. ASSUME NEW l \in Inner, NEW i \in EntryIndex, entries[PayloadTables[l]][i].to # Nil
       PROVE  i = Index(PayloadBase, l)
  <2>1. PayloadTables[l] \in Tables /\ PayloadTables[l] # RootTable
        /\ \A m \in Inner : CapTables[m] # PayloadTables[l]
    BY <1>2, BootTables
  <2> QED BY <1>4, <1>12, <1>13, <1>18, <2>1
<1>19. ASSUME NEW t \in Tables, NEW i \in EntryIndex, t # RootTable,
              \A l \in Inner : t # CapTables[l] /\ t # PayloadTables[l]
       PROVE  entries[t][i].to = Nil
  <2>1. \A l \in Levels : PayloadAt(l) # t
    BY <1>6, <1>19 DEF PayloadAt
  <2> QED BY <1>4, <1>14, <1>19, <2>1
<1>20. \A l \in Inner : Index(CapSpaceBase, l) \in EntryIndex
  BY <1>9, <1>12
<1>21. \A l \in Inner, i \in EntryIndex :
         entries[CapTables[l]][i].to # Nil => i = Index(CapSpaceBase, l) /\ l # 0
  BY <1>3, <1>17 DEF TaskLinked
<1>22. \A l \in Inner : entries[CapTables[l]][Index(CapSpaceBase, l)] = CapLink(l, CapTables)
  BY <1>3, <1>17, <1>20 DEF TaskLinked
<1> QED BY <1>10, <1>15, <1>16, <1>18, <1>19, <1>21, <1>22

(* What boot leaves agrees.                                                *)
LEMMA AgreeInit ==
  ASSUME Init
  PROVE  Agreement
<1> USE DEF Objects
<1>0. TypeOK /\ KernelBase \in Nat
  BY InitType, Constants
<1>1. ASSUME NEW x \in Objects PROVE cap[x] = BootCap(x)
  BY DEF Init
<1>2. /\ cap[RootTable].mapped /\ cap[RootTable].st = "live" /\ cap[RootTable].parent = Nil
      /\ cap[RootTable].base = 0 /\ cap[RootTable].level = MaxLevel
  <2>1. cap[RootTable] = MappedAt(MaxLevel, 0, 0, Nil)
    BY <1>1, BootCaps, BootTables
  <2> QED BY <2>1 DEF MappedAt, Cap
<1>3. ASSUME NEW l \in Inner
      PROVE  /\ cap[CapTables[l]].mapped /\ cap[CapTables[l]].st = "live"
             /\ cap[CapTables[l]].base = CapSpaceBase
  <2>1. cap[CapTables[l]] = MappedAt(l, 0, CapSpaceBase, ParentOf(CapTables, l))
    BY <1>1, BootCaps, BootTables
  <2> QED BY <2>1 DEF MappedAt, Cap
<1>4. ASSUME NEW l \in Inner
      PROVE  /\ cap[PayloadTables[l]].mapped /\ cap[PayloadTables[l]].st = "live"
             /\ cap[PayloadTables[l]].parent = PayloadAt(l + 1)
             /\ cap[PayloadTables[l]].level = l
             /\ cap[PayloadTables[l]].base = PayloadBase - (PayloadBase % PageSize(l + 1))
             /\ OwnIndex(PayloadTables[l]) = Index(PayloadBase, l + 1)
             /\ cap[PayloadTables[l]].base % PageSize(l + 1) = 0
             /\ cap[PayloadTables[l]].base < KernelBase
  <2>1. PICK b : b = PayloadBase - (PayloadBase % PageSize(l + 1))
    OBVIOUS
  <2>2. cap[PayloadTables[l]] = MappedAt(l, 0, b, ParentOf(PayloadTables, l))
    BY <1>1, <2>1, BootCaps, BootTables
  <2>3. ParentOf(PayloadTables, l) = PayloadAt(l + 1)
    BY DEF ParentOf, PayloadAt
  <2>4. /\ cap[PayloadTables[l]].mapped /\ cap[PayloadTables[l]].st = "live"
        /\ cap[PayloadTables[l]].parent = PayloadAt(l + 1)
        /\ cap[PayloadTables[l]].level = l /\ cap[PayloadTables[l]].base = b
    BY <2>2, <2>3 DEF MappedAt, Cap
  <2>5. b \in Nat /\ b <= PayloadBase /\ Index(b, l + 1) = Index(PayloadBase, l + 1)
        /\ b % PageSize(l + 1) = 0
    BY <2>1, IndexOfStart, Constants
  <2>6. OwnIndex(PayloadTables[l]) = Index(b, l + 1)
    BY <2>4, BootTables DEF OwnIndex
  <2>7. b < KernelBase
    BY <2>5, Constants
  <2> QED BY <2>1, <2>4, <2>5, <2>6, <2>7
<1>5. /\ cap[PayloadPage].mapped /\ cap[PayloadPage].st = "live"
      /\ cap[PayloadPage].parent = PayloadTables[0]
      /\ OwnIndex(PayloadPage) = Index(PayloadBase, 0) /\ cap[PayloadPage].base = PayloadBase
  <2>1. cap[PayloadPage] = MappedAt(0, Index(PayloadBase, 0), PayloadBase, PayloadTables[0])
    BY <1>1, BootCaps, BootTables
  <2>2. /\ cap[PayloadPage].mapped /\ cap[PayloadPage].st = "live"
        /\ cap[PayloadPage].parent = PayloadTables[0] /\ cap[PayloadPage].level = 0
        /\ cap[PayloadPage].base = PayloadBase
    BY <2>1 DEF MappedAt, Cap
  <2> QED BY <2>2, BootTables DEF OwnIndex
<1>6. ASSUME NEW x \in Objects, x # RootTable, x # PayloadPage,
             \A l \in Inner : x # CapTables[l] /\ x # PayloadTables[l]
      PROVE  /\ ~cap[x].mapped /\ cap[x].parent = Nil /\ cap[x].base = 0 /\ cap[x].level = 0
  <2>1. cap[x] = NoCap("none")
    BY <1>1, <1>6, BootCaps
  <2> QED BY <2>1, UnmappedParts
<1>7. Unlinked
  BY <1>2, <1>3, <1>4, <1>5, <1>6, Constants DEF Unlinked, Live
<1>8. Aligned
  <2> SUFFICES ASSUME NEW t \in Tables, cap[t].base < KernelBase
               PROVE  cap[t].base % PageSize(cap[t].level + 1) = 0
    BY DEF Aligned
  <2>1. CASE t = RootTable
    BY <1>2, <2>1, ZeroAligned, Constants
  <2>2. ASSUME NEW l \in Inner, t = CapTables[l] PROVE FALSE
    BY <1>3, <2>2, Constants
  <2>3. ASSUME NEW l \in Inner, t = PayloadTables[l]
        PROVE  cap[t].base % PageSize(cap[t].level + 1) = 0
    BY <1>4, <2>3
  <2>4. CASE t # RootTable /\ \A l \in Inner : t # CapTables[l] /\ t # PayloadTables[l]
    <3>1. cap[t].base = 0 /\ cap[t].level = 0 /\ 0 + 1 \in Nat
      BY <1>6, <2>4, EntryParts, BootTables
    <3> QED BY <3>1, ZeroAligned
  <2> QED BY <2>1, <2>2, <2>3, <2>4
<1>9. ASSUME NEW t \in Tables, NEW i \in EntryIndex, entries[t][i].to # Nil
      PROVE  \/ \E l \in Levels : t = PayloadAt(l) /\ i = Index(PayloadBase, l)
                                  /\ entries[t][i] = PayloadLink(l)
             \/ /\ t = RootTable /\ i = Index(CapSpaceBase, MaxLevel)
                /\ entries[t][i] = Entry(CapTables[MaxLevel - 1], "kernel")
             \/ \E l \in Inner : t = CapTables[l] /\ l # 0 /\ entries[t][i] = CapLink(l, CapTables)
  <2>1. \A l \in Inner : l \in Levels /\ PayloadAt(l) = PayloadTables[l]
    BY Constants DEF PayloadAt, Inner
  <2>2. PayloadAt(MaxLevel) = RootTable /\ MaxLevel \in Levels
    BY Constants DEF PayloadAt
  <2> QED BY <1>9, <2>1, <2>2, BootLinks
<1>10. ASSUME NEW l \in Levels
       PROVE  \/ l = 0 /\ PayloadLink(l).to = PayloadPage
              \/ /\ l - 1 \in Inner /\ l - 1 + 1 = l /\ PayloadLink(l).to = PayloadTables[l - 1]
                 /\ PayloadLink(l).kind # "kernel"
  <2>1. CASE l = 0
    BY <2>1, EntryParts DEF PayloadLink
  <2>2. CASE l # 0
    <3>1. l - 1 \in Inner /\ l - 1 + 1 = l /\ l - 1 # MaxLevel
      BY <2>2, Constants DEF Levels, Inner
    <3> QED BY <2>2, <3>1, EntryParts DEF PayloadLink, PayloadAt
  <2> QED BY <2>1, <2>2
<1>11. ASSUME NEW l \in Inner, l # 0 PROVE CapLink(l, CapTables).to \in Tables
  <2>1. CapTables[0] \in Tables /\ CapTables[l - 1] \in Tables
    BY <1>11, BootTables, Constants DEF Inner
  <2> QED BY <1>11, <2>1, EntryParts DEF CapLink
<1>12. CapTables[MaxLevel - 1] \in Tables
  BY BootTables, Constants
<1>13. PageEntries
  <2> SUFFICES ASSUME NEW t \in Tables, NEW i \in EntryIndex, NEW p \in Pages,
                      entries[t][i].to = p
               PROVE  Agrees(p, t, i)
    BY DEF PageEntries
  <2>1. PICK l \in Levels : t = PayloadAt(l) /\ i = Index(PayloadBase, l)
                            /\ entries[t][i] = PayloadLink(l)
    BY <1>9, <1>11, <1>12, EntryParts
  <2>2. l = 0 /\ p = PayloadPage
    BY <1>10, <2>1, BootTables, EntryParts
  <2>3. t = PayloadTables[0]
    BY <2>1, <2>2, Constants DEF PayloadAt
  <2> QED BY <1>5, <2>1, <2>2, <2>3 DEF Agrees
<1>14. \A l \in Inner : Shielded(CapTables[l])
  BY <1>3, Constants DEF Shielded
<1>15. TableEntries
  <2> SUFFICES ASSUME NEW t \in Tables, NEW i \in EntryIndex, NEW c \in Tables,
                      entries[t][i].to = c, entries[t][i].kind # "kernel", ~Shielded(t)
               PROVE  Agrees(c, t, i) /\ cap[c].base < KernelBase
    BY DEF TableEntries
  <2>1. PICK l \in Levels : t = PayloadAt(l) /\ i = Index(PayloadBase, l)
                            /\ entries[t][i] = PayloadLink(l)
    BY <1>9, <1>14, EntryParts
  <2>2. l - 1 \in Inner /\ l - 1 + 1 = l /\ c = PayloadTables[l - 1]
    BY <1>10, <2>1, BootTables, EntryParts
  <2> QED BY <1>4, <2>1, <2>2 DEF Agrees
<1>16. KernelEntries
  <2> SUFFICES ASSUME NEW t \in Tables, NEW i \in EntryIndex,
                      entries[t][i].to \in Tables, entries[t][i].kind = "kernel", ~Shielded(t)
               PROVE  IsRoot(t) /\ PageSize(MaxLevel) * i >= KernelBase
    BY DEF KernelEntries
  <2>1. t = RootTable /\ i = Index(CapSpaceBase, MaxLevel)
    <3>1. \A l \in Levels : entries[t][i] # PayloadLink(l)
      BY <1>10, BootTables, EntryParts
    <3> QED BY <1>9, <1>14, <3>1, EntryParts
  <2>2. PageSize(MaxLevel) * i >= KernelBase
    BY <2>1, CapIndexAtTop, Constants
  <2> QED BY <1>2, <2>1, <2>2 DEF IsRoot
<1>17. Findable
  <2> SUFFICES ASSUME NEW x \in Objects, cap[x].base < KernelBase, cap[x].parent # Nil
               PROVE  entries[cap[x].parent][OwnIndex(x)].to = x
    BY DEF Findable, EntryFound
  <2>1. CASE x = PayloadPage
    <3>1. PayloadTables[0] = PayloadAt(0) /\ PayloadLink(0).to = PayloadPage /\ 0 \in Levels
      BY Constants, EntryParts DEF PayloadAt, PayloadLink
    <3>2. entries[PayloadAt(0)][Index(PayloadBase, 0)] = PayloadLink(0)
      BY <3>1, BootLinks
    <3> QED BY <1>5, <2>1, <3>1, <3>2
  <2>2. ASSUME NEW l \in Inner, x = PayloadTables[l]
        PROVE  entries[cap[x].parent][OwnIndex(x)].to = x
    <3>1. l + 1 \in Levels
      BY Constants
    <3>2. PayloadLink(l + 1).to = x
      <4>1. PICK m \in Levels : m = l + 1 /\ m # 0 /\ m - 1 = l
        BY <3>1, Constants DEF Inner
      <4>2. PayloadLink(m).to = PayloadTables[m - 1]
        BY <1>10, <4>1
      <4> QED BY <2>2, <4>1, <4>2
    <3>3. entries[PayloadAt(l + 1)][Index(PayloadBase, l + 1)] = PayloadLink(l + 1)
      BY <3>1, BootLinks
    <3> QED BY <1>4, <2>2, <3>2, <3>3
  <2>3. ASSUME NEW l \in Inner, x = CapTables[l] PROVE FALSE
    BY <1>3, <2>3, Constants
  <2> QED BY <1>2, <1>6, <2>1, <2>2, <2>3
<1> QED BY <1>7, <1>8, <1>13, <1>15, <1>16, <1>17 DEF Agreement

-----------------------------------------------------------------------------
(* Walks down the tables.                                                  *)

(* WalkTables, with the entries as a parameter.                            *)
WalkIn(ents, root, va) ==
  LET at[level \in Levels] ==
        IF level = MaxLevel THEN root
        ELSE IF at[level + 1] \in Tables
             THEN ents[at[level + 1]][Index(va, level + 1)].to
             ELSE Nil
  IN  at

(* A walk starts at the root table and follows the entries.                *)
IsWalk(w, ents, root, va) ==
  /\ w[MaxLevel] = root
  /\ \A l \in Levels : w[l] \in Objects \cup {Nil}
  /\ \A l \in Inner :
       w[l] = IF w[l + 1] \in Tables THEN ents[w[l + 1]][Index(va, l + 1)].to ELSE Nil

(* The recursion of WalkTables is well-defined.                            *)
LEMMA WalkSteps ==
  ASSUME NEW ents \in [Tables -> [EntryIndex -> PageTableEntry]],
         NEW root \in Tables \cup {Nil}, NEW va \in Nat
  PROVE  IsWalk(WalkIn(ents, root, va), ents, root, va)
<1> DEFINE S == Objects \cup {Nil}
           Down(n, s) == IF s \in Tables /\ n < MaxLevel THEN ents[s][Index(va, MaxLevel - n)].to
                         ELSE Nil
<1>0. MaxLevel \in Nat /\ root \in S
  BY Constants DEF Objects
<1>1. ASSUME NEW n \in Nat, NEW s \in S PROVE Down(n, s) \in S
  <2>1. CASE s \in Tables /\ n < MaxLevel
    <3>1. MaxLevel - n \in Nat
      BY <1>0, <2>1
    <3>2. Index(va, MaxLevel - n) \in EntryIndex
      BY <3>1, IndexType
    <3>3. ents[s][Index(va, MaxLevel - n)] \in PageTableEntry
      BY <2>1, <3>2
    <3> QED BY <2>1, <3>3 DEF PageTableEntry
  <2>2. CASE ~(s \in Tables /\ n < MaxLevel)
    BY <2>2
  <2> QED BY <2>1, <2>2
<1>2. PICK g \in [Nat -> [S -> S]] : \A n \in Nat, s \in S : g[n][s] = Down(n, s)
  <2> HIDE DEF Down, S
  <2>1. [n \in Nat |-> [s \in S |-> Down(n, s)]] \in [Nat -> [S -> S]]
    BY <1>1
  <2> QED BY <2>1
<1>3. PICK f : IsIterate(f, S, root, g)
  <2> HIDE DEF S
  <2> QED BY <1>0, Iterates
<1>4. /\ f \in [Nat -> S] /\ f[0] = root
      /\ \A n \in Nat : f[n + 1] = Down(n, f[n])
  <2> HIDE DEF S, Down
  <2> QED BY <1>2, <1>3 DEF IsIterate
<1> DEFINE h == [l \in Levels |-> f[MaxLevel - l]]
<1>5. ASSUME NEW l \in Levels
      PROVE  h[l] = IF l = MaxLevel THEN root
                    ELSE IF h[l + 1] \in Tables THEN ents[h[l + 1]][Index(va, l + 1)].to ELSE Nil
  <2>1. CASE l = MaxLevel
    BY <1>0, <1>4, <2>1
  <2>2. CASE l # MaxLevel
    <3>1. PICK n \in Nat : /\ n = MaxLevel - (l + 1) /\ n + 1 = MaxLevel - l
                           /\ n < MaxLevel /\ MaxLevel - n = l + 1 /\ l + 1 \in Levels
      BY <1>0, <2>2 DEF Levels
    <3>2. h[l] = Down(n, f[n]) /\ h[l + 1] = f[n]
      BY <1>4, <3>1
    <3> QED BY <2>2, <3>1, <3>2
  <2> QED BY <2>1, <2>2
<1>6. h = [l \in Levels |-> IF l = MaxLevel THEN root
                            ELSE IF h[l + 1] \in Tables THEN ents[h[l + 1]][Index(va, l + 1)].to
                                 ELSE Nil]
  BY <1>5
<1>7. PICK w : w = WalkIn(ents, root, va)
  OBVIOUS
<1>8. w = [l \in Levels |-> IF l = MaxLevel THEN root
                            ELSE IF w[l + 1] \in Tables THEN ents[w[l + 1]][Index(va, l + 1)].to
                                 ELSE Nil]
  <2> HIDE DEF h
  <2> QED BY <1>6, <1>7 DEF WalkIn
<1>9. ASSUME NEW l \in Levels PROVE w[l] \in S
  <2>1. CASE l = MaxLevel
    BY <1>0, <1>8, <2>1
  <2>2. CASE l # MaxLevel /\ w[l + 1] \in Tables
    <3>1. l + 1 \in Nat
      BY Constants
    <3>2. ents[w[l + 1]][Index(va, l + 1)] \in PageTableEntry
      BY <2>2, <3>1, IndexType
    <3>3. w[l] = ents[w[l + 1]][Index(va, l + 1)].to
      BY <1>8, <2>2
    <3> QED BY <3>2, <3>3 DEF PageTableEntry
  <2>3. CASE l # MaxLevel /\ w[l + 1] \notin Tables
    BY <1>8, <2>3
  <2> QED BY <2>1, <2>2, <2>3
<1>10. MaxLevel \in Levels /\ \A l \in Inner : l \in Levels /\ l # MaxLevel
  BY Constants DEF Inner
<1> QED BY <1>7, <1>8, <1>9, <1>10 DEF IsWalk

(* Induction over the levels, from the root table down.                    *)
LEMMA DownLevels ==
  ASSUME NEW S, NEW lo \in Levels, MaxLevel \in S,
         \A l \in Inner : l >= lo /\ l + 1 \in S => l \in S
  PROVE  \A l \in lo..MaxLevel : l \in S
<1> DEFINE bad == {n \in 0..(MaxLevel - lo) : MaxLevel - n \notin S}
<1>0. MaxLevel \in Nat /\ lo \in 0..MaxLevel /\ MaxLevel - lo \in Nat
  BY Constants DEF Levels
<1>1. bad = {}
  <2> SUFFICES ASSUME bad # {} PROVE FALSE
    OBVIOUS
  <2>1. bad \in SUBSET Nat
    OBVIOUS
  <2>2. PICK n \in bad : \A j \in bad : n <= j
    BY <2>1, LeastOf
  <2>3. n # 0
    BY <1>0, <2>2
  <2>4. n - 1 \in 0..(MaxLevel - lo) /\ n - 1 \notin bad /\ n \in 0..(MaxLevel - lo)
    BY <1>0, <2>2, <2>3
  <2>5. PICK l \in Inner : l = MaxLevel - n /\ l >= lo /\ l + 1 = MaxLevel - (n - 1)
    BY <1>0, <2>3, <2>4 DEF Inner
  <2> QED BY <2>2, <2>4, <2>5
<1> SUFFICES ASSUME NEW l \in lo..MaxLevel PROVE l \in S
  OBVIOUS
<1>2. MaxLevel - l \in 0..(MaxLevel - lo) /\ MaxLevel - (MaxLevel - l) = l
  BY <1>0
<1> QED BY <1>1, <1>2

-----------------------------------------------------------------------------
(* The tables that lead to the capability spaces.                          *)

(* A spine, level by level.                                                *)
LEMMA SpineSteps ==
  ASSUME TypeOK, NEW k \in Tasks
  PROVE  IsWalk(Spine(k), entries, rootOf[k], CapSpaceBase)
<1>1. PICK ents \in [Tables -> [EntryIndex -> PageTableEntry]], root \in Tables \cup {Nil} :
        ents = entries /\ root = rootOf[k]
  BY DEF TypeOK
<1>2. Spine(k) = WalkIn(ents, root, CapSpaceBase)
  BY <1>1 DEF Spine, WalkTables, WalkIn
<1>3. IsWalk(WalkIn(ents, root, CapSpaceBase), ents, root, CapSpaceBase)
  BY Constants, WalkSteps
<1> QED BY <1>1, <1>2, <1>3

LEMMA SpineStepsNext ==
  ASSUME TypeOK', NEW k \in Tasks
  PROVE  IsWalk(Spine(k)', entries', rootOf'[k], CapSpaceBase)
<1>1. PICK ents \in [Tables -> [EntryIndex -> PageTableEntry]], root \in Tables \cup {Nil} :
        ents = entries' /\ root = rootOf'[k]
  BY DEF TypeOK
<1>2. Spine(k)' = WalkIn(ents, root, CapSpaceBase)
  BY <1>1 DEF Spine, WalkTables, WalkIn
<1>3. IsWalk(WalkIn(ents, root, CapSpaceBase), ents, root, CapSpaceBase)
  BY Constants, WalkSteps
<1> QED BY <1>1, <1>2, <1>3

(* extend_cap_space finds the table of level 1 that the first capability   *)
(* space hangs from.                                                       *)
LEMMA ExtensionWalk ==
  ASSUME TypeOK, NEW k \in Tasks, NEW e \in 1..(N - 1)
  PROVE  WalkTables(rootOf[k], CapSpaceBase + N * e)[1] = Spine(k)[1]
<1>0. CapSpaceBase + N * e \in Nat /\ 1 \in Levels /\ CapSpaceBase \in Nat
  BY ExtensionIndex, Constants
<1>1. PICK ents \in [Tables -> [EntryIndex -> PageTableEntry]], root \in Tables \cup {Nil} :
        ents = entries /\ root = rootOf[k]
  BY DEF TypeOK
<1>2. PICK v, w : v = WalkIn(ents, root, CapSpaceBase + N * e) /\ w = WalkIn(ents, root, CapSpaceBase)
  OBVIOUS
<1>3. v = WalkTables(rootOf[k], CapSpaceBase + N * e) /\ w = Spine(k)
  BY <1>1, <1>2 DEF Spine, WalkTables, WalkIn
<1>4. IsWalk(v, ents, root, CapSpaceBase + N * e) /\ IsWalk(w, ents, root, CapSpaceBase)
  BY <1>0, <1>2, WalkSteps
<1> DEFINE same == {l \in Levels : v[l] = w[l]}
<1>5. MaxLevel \in same
  BY <1>4, Constants DEF IsWalk
<1>6. ASSUME NEW l \in Inner, l >= 1, l + 1 \in same PROVE l \in same
  <2>1. l + 1 \in Levels /\ l + 1 >= 2 /\ l \in Levels
    BY <1>6, Constants
  <2>2. Index(CapSpaceBase + N * e, l + 1) = Index(CapSpaceBase, l + 1)
    BY <2>1, ExtensionIndex
  <2> QED BY <1>4, <1>6, <2>1, <2>2 DEF IsWalk
<1>7. 1 \in 1..MaxLevel
  BY Constants
<1> HIDE DEF same
<1>8. 1 \in same
  BY <1>0, <1>5, <1>6, <1>7, DownLevels
<1> QED BY <1>3, <1>8 DEF same

(* The entry of a spine at a level.                                        *)
SpineEntry(k, l) == entries[Spine(k)[l]][Index(CapSpaceBase, l)]

(* No call writes to a spine, but to disable an entry that leads to a page *)
(* or to a table of the root task that is destroyed.                       *)
SpineKept(k) ==
  \A l \in Levels : Spine(k)[l] \in Tables =>
    LET new == entries'[Spine(k)[l]][Index(CapSpaceBase, l)]
    IN  \/ new = SpineEntry(k, l)
        \/ new = Off /\ SpineEntry(k, l).to \in Pages
        \/ new = Off /\ SpineEntry(k, l).to \in Tables /\ ~Intact(k)'

(* What happens to the capabilities of tables: only those of unmapped      *)
(* tables and of tables below others change, unless they are destroyed.    *)
CapsSteady ==
  \A t \in Tables : /\ cap[t].st = "dead" => cap'[t].st = "dead"
                    /\ \/ cap'[t] = cap[t] \/ cap'[t].st = "dead"
                       \/ ~cap[t].mapped
                       \/ cap[t].parent # Nil /\ cap[t].base < KernelBase

(* A spine stays as it is, or is cut by the root task.                     *)
LEMMA SpineStays ==
  ASSUME TypeOK, TypeOK', PageInvariant, CapsSteady, NEW k \in Used, SpineKept(k),
         rootOf'[k] = rootOf[k]
  PROVE  /\ \A l \in Levels : Spine(k)'[l] \in Tables => Spine(k)'[l] = Spine(k)[l]
         /\ Intact(k)' => /\ \A l \in Inner : Spine(k)'[l] \in Tables
                          /\ entries'[Spine(k)'[0]][Index(CapSpaceBase, 0)] = KernelPage
<1>0. k \in Tasks
  BY DEF Used
<1>1. PICK s, z : s = Spine(k) /\ z = Spine(k)'
  OBVIOUS
<1>2. /\ s[MaxLevel] = rootOf[k]
      /\ \A l \in Inner : s[l] = IF s[l + 1] \in Tables
                                 THEN entries[s[l + 1]][Index(CapSpaceBase, l + 1)].to ELSE Nil
  BY <1>0, <1>1, SpineSteps DEF IsWalk
<1>3. /\ z[MaxLevel] = rootOf[k]
      /\ \A l \in Inner : z[l] = IF z[l + 1] \in Tables
                                 THEN entries'[z[l + 1]][Index(CapSpaceBase, l + 1)].to ELSE Nil
  BY <1>0, <1>1, SpineStepsNext DEF IsWalk
<1>4. \A l \in Levels : s[l] \in Tables =>
        \/ entries'[s[l]][Index(CapSpaceBase, l)] = entries[s[l]][Index(CapSpaceBase, l)]
        \/ /\ entries'[s[l]][Index(CapSpaceBase, l)] = Off
           /\ entries[s[l]][Index(CapSpaceBase, l)].to \in Objects
           /\ entries[s[l]][Index(CapSpaceBase, l)].to \in Tables => ~Intact(k)'
  BY <1>1, EntryParts DEF SpineKept, SpineEntry, Objects
<1>5. 0 \in Levels /\ \A l \in Inner : l + 1 \in Levels /\ l \in Levels
  BY Constants
<1>6. \A l \in 0..MaxLevel : z[l] \in Tables => z[l] = s[l]
  <2> DEFINE S == {l \in Levels : z[l] \in Tables => z[l] = s[l]}
  <2>1. MaxLevel \in S
    BY <1>2, <1>3, Constants
  <2>2. ASSUME NEW l \in Inner, l >= 0, l + 1 \in S PROVE l \in S
    <3> SUFFICES ASSUME z[l] \in Tables PROVE z[l] = s[l]
      BY <1>5
    <3>1. z[l + 1] \in Tables /\ z[l] = entries'[z[l + 1]][Index(CapSpaceBase, l + 1)].to
      BY <1>3, PageTableAssumption
    <3>2. z[l + 1] = s[l + 1]
      BY <2>2, <3>1
    <3>3. s[l] = entries[s[l + 1]][Index(CapSpaceBase, l + 1)].to
      BY <1>2, <3>1, <3>2
    <3>4. entries'[s[l + 1]][Index(CapSpaceBase, l + 1)] # Off
      BY <3>1, <3>2, EntryParts, PageTableAssumption
    <3> QED BY <1>4, <1>5, <3>1, <3>2, <3>3, <3>4
  <2> HIDE DEF S
  <2>3. \A l \in 0..MaxLevel : l \in S
    BY <1>5, <2>1, <2>2, DownLevels
  <2> QED BY <2>3 DEF S
<1>7. ASSUME Intact(k)'
      PROVE  /\ \A l \in Inner : z[l] \in Tables
             /\ entries'[z[0]][Index(CapSpaceBase, 0)] = KernelPage
  <2>1. Intact(k)
    <3>1. \A l \in Inner : CapTables[l] \in Tables
      BY BootTables
    <3> QED BY <1>7, <3>1 DEF Intact, CapsSteady
  <2>2. /\ \A l \in Inner : s[l] \in Tables
        /\ entries[s[0]][Index(CapSpaceBase, 0)] = KernelPage
    BY <1>1, <2>1 DEF PageInvariant, Spines, SpinesOf, SpineWhole
  <2>3. s[MaxLevel] \in Tables
    BY <1>0, <1>2 DEF Used, TypeOK
  <2>4. \A l \in 0..MaxLevel : z[l] = s[l]
    <3> DEFINE S == {l \in Levels : z[l] = s[l]}
    <3>1. MaxLevel \in S
      BY <1>2, <1>3, Constants
    <3>2. ASSUME NEW l \in Inner, l >= 0, l + 1 \in S PROVE l \in S
      <4>1. s[l + 1] \in Tables
        <5>1. l + 1 = MaxLevel \/ l + 1 \in Inner
          BY Constants DEF Inner
        <5> QED BY <2>2, <2>3, <5>1
      <4>2. entries'[s[l + 1]][Index(CapSpaceBase, l + 1)] = entries[s[l + 1]][Index(CapSpaceBase, l + 1)]
        BY <1>2, <1>4, <1>5, <1>7, <2>2, <4>1
      <4> QED BY <1>2, <1>3, <1>5, <3>2, <4>1, <4>2
    <3> HIDE DEF S
    <3>3. \A l \in 0..MaxLevel : l \in S
      BY <1>5, <3>1, <3>2, DownLevels
    <3> QED BY <3>3 DEF S
  <2>5. \A l \in Inner : l \in 0..MaxLevel
    BY Constants DEF Inner
  <2>6. entries'[s[0]][Index(CapSpaceBase, 0)] = entries[s[0]][Index(CapSpaceBase, 0)]
    BY <1>4, <1>5, <2>2, EntryParts, Constants
  <2> QED BY <2>2, <2>4, <2>5, <2>6, Constants
<1> QED BY <1>1, <1>6, <1>7 DEF Levels

(* A shielded table remains so.                                            *)
LEMMA ShieldStays ==
  ASSUME TypeOK, Unlinked, CapsSteady, NEW t \in Tables, Shielded(t)
  PROVE  Shielded(t)' /\ (cap'[t].st # "dead" => cap'[t] = cap[t])
<1>1. t \in Objects /\ cap[t].base \in Nat /\ KernelBase \in Nat
  BY CapParts, Constants DEF Objects
<1>2. CASE cap[t].st = "dead"
  BY <1>2 DEF CapsSteady, Shielded
<1>3. CASE cap[t].base >= KernelBase
  <2>1. cap[t].mapped
    BY <1>1, <1>3 DEF Unlinked
  <2>2. cap'[t] = cap[t] \/ cap'[t].st = "dead"
    BY <1>1, <1>3, <2>1 DEF CapsSteady
  <2> QED BY <1>3, <2>2 DEF Shielded
<1> QED BY <1>2, <1>3 DEF Shielded

(* The spines of the tasks that exist are kept.                            *)
LEMMA OldSpines ==
  ASSUME TypeOK, TypeOK', PageInvariant, CapsSteady, NEW U, U = Used,
         \A k \in U : SpineKept(k) /\ rootOf'[k] = rootOf[k] /\ ext'[k] >= ext[k]
  PROVE  SpinesOf(U)'
<1>1. U \subseteq Tasks
  BY DEF Used
<1>2. \A k \in U :
        /\ \A l \in Levels : Spine(k)'[l] \in Tables => Spine(k)'[l] = Spine(k)[l]
        /\ Intact(k)' => /\ \A l \in Inner : Spine(k)'[l] \in Tables
                         /\ entries'[Spine(k)'[0]][Index(CapSpaceBase, 0)] = KernelPage
  BY SpineStays
<1>3. Inner \subseteq Levels
  BY Constants
<1>4. \A t \in Tables : Shielded(t) => Shielded(t)' /\ (cap'[t].st # "dead" => cap'[t] = cap[t])
  BY ShieldStays DEF PageInvariant, Agreement
<1>5. Roots(U)'
  <2> SUFFICES ASSUME NEW k \in U
               PROVE  (cap'[rootOf'[k]].st = "dead" \/ IsRoot(rootOf[k])') /\ ext'[k] >= 1
    BY DEF Roots
  <2>1. ext[k] \in Nat /\ ext'[k] \in Nat /\ ext[k] >= 1 /\ ext'[k] >= ext[k]
    BY <1>1, Constants DEF TypeOK, PageInvariant, Spines, SpinesOf, Roots
  <2>2. PICK t \in Tables : t = rootOf[k] /\ t = rootOf'[k]
    BY <1>1 DEF TypeOK, Used
  <2>3. cap[t].st = "dead" \/ IsRoot(t)
    BY <2>2 DEF PageInvariant, Spines, SpinesOf, Roots
  <2>4. cap'[t].st = "dead" \/ IsRoot(t)'
    BY <2>3 DEF CapsSteady, IsRoot
  <2> QED BY <2>1, <2>2, <2>4 DEF IsRoot
<1>6. SpineShielded(U)'
  <2> SUFFICES ASSUME NEW k \in U, NEW l \in Inner, Spine(k)'[l] \in Tables
               PROVE  Shielded(Spine(k)[l])' /\ Spine(k)'[l] = Spine(k)[l]
    BY DEF SpineShielded, Shielded
  <2>1. Spine(k)'[l] = Spine(k)[l]
    BY <1>2, <1>3
  <2>2. PICK t \in Tables : t = Spine(k)[l] /\ t = Spine(k)'[l]
    BY <2>1
  <2>3. Shielded(t)
    BY <2>2 DEF PageInvariant, Spines, SpinesOf, SpineShielded
  <2> QED BY <1>4, <2>2, <2>3 DEF Shielded
<1>7. SpinesApart(U)'
  <2>1. SpinesApart(U)
    BY DEF PageInvariant, Spines, SpinesOf
  <2> QED BY <1>2, <2>1 DEF SpinesApart
<1>8. SpineParents(U)'
  <2> SUFFICES ASSUME NEW k \in U, NEW l \in Inner, Spine(k)'[l] \in Tables
               PROVE  IF k = RootTask THEN Spine(k)'[l] = CapTables[l]
                      ELSE cap'[Spine(k)'[l]].st = "live" => cap'[Spine(k)'[l]].parent = Nil
    BY DEF SpineParents, Live
  <2>1. PICK t \in Tables : t = Spine(k)[l] /\ t = Spine(k)'[l]
    BY <1>2, <1>3
  <2>2. SpineShielded(U) /\ SpineParents(U)
    BY DEF PageInvariant, Spines, SpinesOf
  <2>3. Shielded(t)
    BY <2>1, <2>2 DEF SpineShielded
  <2>4. IF k = RootTask THEN t = CapTables[l] ELSE Live(t) => cap[t].parent = Nil
    <3>1. Spine(k)[l] \in Tables
      BY <2>1
    <3>2. IF k = RootTask THEN Spine(k)[l] = CapTables[l]
          ELSE Live(Spine(k)[l]) => cap[Spine(k)[l]].parent = Nil
      BY <2>2, <3>1, Zenon DEF SpineParents
    <3> QED BY <2>1, <3>2
  <2>5. cap'[t].st = "live" => cap'[t] = cap[t]
    BY <1>4, <2>3
  <2> QED BY <2>1, <2>4, <2>5 DEF Live
<1>9. SpineWhole(U)'
  BY <1>2 DEF SpineWhole
<1> QED BY <1>5, <1>6, <1>7, <1>8, <1>9 DEF PageInvariant, Spines, SpinesOf

(* So they are when no task is created.                                    *)
LEMMA SpinesKept ==
  ASSUME TypeOK, TypeOK', PageInvariant, CapsSteady, rootOf' = rootOf,
         \A k \in Used : SpineKept(k), \A k \in Used : ext'[k] >= ext[k]
  PROVE  Spines'
<1>1. PICK U : U = Used
  OBVIOUS
<1>2. U = Used'
  BY <1>1 DEF Used
<1>3. SpinesOf(U)'
  BY <1>1, OldSpines
<1> QED BY <1>2, <1>3 DEF Spines

(* What a user's call writes to a live table is not in a spine: the user   *)
(* reaches no table of it but the root table, and of that only entries in  *)
(* front of the kernel's.                                                  *)
LEMMA SpineOutOfReach ==
  ASSUME TypeOK, PageInvariant, NEW t \in Tables, NEW i \in EntryIndex, NEW k \in Used,
         NEW l \in Levels, Live(t), UserEntry(t, cap[t].level, i), Spine(k)[l] = t
  PROVE  i # Index(CapSpaceBase, l)
<1>0. k \in Tasks /\ i \in Nat /\ cap[t].level \in Levels
  BY CapParts, Constants DEF Used, Objects
<1>1. cap[t].base < KernelBase /\ ~Shielded(t)
  <2>1. cap[t].base < KernelBase
    BY <1>0, Reachable DEF PageInvariant, Agreement
  <2> QED BY <2>1, CapParts, Constants DEF Shielded, Live, Objects
<1>2. l \notin Inner
  BY <1>1 DEF PageInvariant, Spines, SpinesOf, SpineShielded
<1>3. l = MaxLevel
  BY <1>2, Constants DEF Levels, Inner
<1>4. rootOf[k] = t
  BY <1>0, <1>3, SpineSteps DEF IsWalk
<1>5. cap[t].level = MaxLevel /\ cap[t].base = 0
  BY <1>4 DEF PageInvariant, Spines, SpinesOf, Roots, IsRoot, Live
<1>6. PICK P \in Nat : P = PageSize(MaxLevel)
  BY PageSizeType, Constants
<1>7. P * i \in Nat /\ 0 + P * i < KernelBase
  BY <1>0, <1>5, <1>6 DEF UserEntry, AddressAt
<1>8. P * Index(CapSpaceBase, l) = CapSpaceBase
  BY <1>3, <1>6, CapIndexAtTop
<1> QED BY <1>7, <1>8, Constants

(* So the calls on tables and pages keep every spine.                      *)
LEMMA UserKeepsSpines ==
  ASSUME TypeOK, PageInvariant,
         \A s \in Tables, j \in EntryIndex :
           \/ entries'[s][j] = entries[s][j]
           \/ entries'[s][j] = Off /\ entries[s][j].to \in Pages
           \/ Live(s) /\ UserEntry(s, cap[s].level, j)
  PROVE  \A k \in Used : SpineKept(k)
<1> SUFFICES ASSUME NEW k \in Used, NEW l \in Levels, Spine(k)[l] \in Tables
             PROVE  LET new == entries'[Spine(k)[l]][Index(CapSpaceBase, l)]
                    IN  \/ new = SpineEntry(k, l)
                        \/ new = Off /\ SpineEntry(k, l).to \in Pages
  BY DEF SpineKept
<1>1. Index(CapSpaceBase, l) \in EntryIndex
  BY IndexType, Constants
<1>2. PICK s \in Tables, j \in EntryIndex : s = Spine(k)[l] /\ j = Index(CapSpaceBase, l)
  BY <1>1
<1>3. ~(Live(s) /\ UserEntry(s, cap[s].level, j))
  BY <1>2, SpineOutOfReach
<1> QED BY <1>2, <1>3 DEF SpineEntry

(* The capability of x alone changes.                                      *)
LEMMA SteadyOne ==
  ASSUME NEW x, \A y \in Objects : y # x => cap'[y] = cap[y],
         x \in Tables => /\ cap[x].st # "dead"
                         /\ \/ cap'[x].st = "dead" \/ ~cap[x].mapped
                            \/ cap[x].parent # Nil /\ cap[x].base < KernelBase
  PROVE  CapsSteady
BY DEF CapsSteady, Objects

(* map_page_table_cap                                                      *)
LEMMA SpinesMapTable ==
  ASSUME TypeOK, TypeOK', PageInvariant, NEW t \in Tables, NEW i \in EntryIndex,
         NEW c \in Tables, Live(t), Live(c), MapTable(t, i, c)
  PROVE  Spines'
<1>1. PICK m, e : /\ SetCap(c, m) /\ SetEntry(t, i, e) /\ ~cap[c].mapped
                  /\ UserEntry(t, cap[t].level, i) /\ rootOf' = rootOf /\ ext' = ext
  BY DEF MapTable
<1>2. \A y \in Objects : y # c => cap'[y] = cap[y]
  BY <1>1, OneCap DEF Objects
<1>3. CapsSteady
  BY <1>1, <1>2, SteadyOne DEF Live
<1>4. \A s \in Tables, j \in EntryIndex : s # t \/ j # i => entries'[s][j] = entries[s][j]
  BY <1>1, OneEntry
<1>5. \A k \in Used : SpineKept(k)
  BY <1>1, <1>4, UserKeepsSpines
<1>6. \A k \in Used : ext'[k] >= ext[k]
  BY <1>1, Constants DEF TypeOK, Used
<1> QED BY <1>1, <1>3, <1>5, <1>6, SpinesKept

(* unmap_page_table_cap                                                    *)
LEMMA SpinesUnmapTable ==
  ASSUME TypeOK, TypeOK', PageInvariant, NEW t \in Tables, NEW i \in EntryIndex,
         NEW c \in Tables, Live(t), Live(c), UnmapTable(t, i, c)
  PROVE  Spines'
<1>1. PICK m : /\ SetCap(c, m) /\ SetEntry(t, i, Off) /\ entries[t][i].to = c
               /\ UserEntry(t, cap[t].level, i) /\ rootOf' = rootOf /\ ext' = ext
  BY DEF UnmapTable, CanUnmap
<1>2. \A y \in Objects : y # c => cap'[y] = cap[y]
  BY <1>1, OneCap DEF Objects
<1>3. cap[c].parent # Nil /\ cap[c].base < KernelBase
  BY <1>1, UserLink, EntryParts DEF PageInvariant, Agrees, Objects
<1>4. CapsSteady
  BY <1>2, <1>3, SteadyOne DEF Live
<1>5. \A s \in Tables, j \in EntryIndex : s # t \/ j # i => entries'[s][j] = entries[s][j]
  BY <1>1, OneEntry
<1>6. \A k \in Used : SpineKept(k)
  BY <1>1, <1>5, UserKeepsSpines
<1>7. \A k \in Used : ext'[k] >= ext[k]
  BY <1>1, Constants DEF TypeOK, Used
<1> QED BY <1>1, <1>4, <1>6, <1>7, SpinesKept

(* map_virt_page_cap, unmap_virt_page_cap, remap_virt_page_cap             *)
LEMMA SpinesPage ==
  ASSUME TypeOK, TypeOK', PageInvariant, NEW t \in Tables, NEW i \in EntryIndex,
         NEW p \in Pages, NEW old \in Tables, Live(t),
         MapPage(t, i, p) \/ UnmapPage(t, i, p) \/ RemapPage(t, i, p, old)
  PROVE  Spines'
<1>1. PICK m : SetCap(p, m) /\ rootOf' = rootOf /\ ext' = ext
  BY DEF MapPage, UnmapPage, RemapPage
<1>2. p \in Objects /\ p \notin Tables /\ cap[p].index \in EntryIndex
  BY EntryParts, CapParts DEF Objects
<1>3. \A y \in Objects : y # p => cap'[y] = cap[y]
  BY <1>1, <1>2, OneCap
<1>4. CapsSteady
  BY <1>2, <1>3, SteadyOne
<1>5. \A s \in Tables, j \in EntryIndex :
        \/ entries'[s][j] = entries[s][j]
        \/ entries'[s][j] = Off /\ entries[s][j].to \in Pages
        \/ Live(s) /\ UserEntry(s, cap[s].level, j)
  <2>1. CASE MapPage(t, i, p)
    <3>1. UserEntry(t, cap[t].level, i) /\ SetEntry(t, i, Entry(p, "user"))
      BY <2>1 DEF MapPage, SameLevel
    <3> QED BY <3>1, OneEntry
  <2>2. CASE UnmapPage(t, i, p)
    <3>1. entries[t][i].to = p /\ SetEntry(t, i, Off)
      BY <2>2 DEF UnmapPage, CanUnmap
    <3> QED BY <3>1, OneEntry
  <2>3. CASE RemapPage(t, i, p, old)
    <3>1. PICK j0 \in EntryIndex : j0 = cap[p].index
      BY <1>2
    <3>2. /\ UserEntry(t, cap[t].level, i) /\ entries[old][j0].to = p
          /\ entries' = [entries EXCEPT ![old][j0] = Off, ![t][i] = Entry(p, "user")]
      BY <2>3, <3>1 DEF RemapPage, SameLevel, Moved
    <3>3. \A s \in Tables, j \in EntryIndex :
            \/ s = t /\ j = i
            \/ entries'[s][j] = entries[s][j]
            \/ s = old /\ j = j0 /\ entries'[s][j] = Off
      BY <3>2 DEF TypeOK
    <3> QED BY <3>2, <3>3
  <2> QED BY <2>1, <2>2, <2>3
<1>6. \A k \in Used : SpineKept(k)
  BY <1>5, UserKeepsSpines
<1>7. \A k \in Used : ext'[k] >= ext[k]
  BY <1>1, Constants DEF TypeOK, Used
<1> QED BY <1>1, <1>4, <1>6, <1>7, SpinesKept

(* create_page_table_object and create_virt_page_object                    *)
LEMMA SpinesCreate ==
  ASSUME TypeOK, TypeOK', PageInvariant, NEW x \in Objects, NEW m,
         cap[x].st = "none", SetCap(x, m), UNCHANGED <<entries, rootOf, ext>>
  PROVE  Spines'
<1>1. \A y \in Objects : y # x => cap'[y] = cap[y]
  BY OneCap
<1>2. ~cap[x].mapped
  BY DEF PageInvariant, Agreement, Unlinked, Live
<1>3. CapsSteady
  BY <1>1, <1>2, SteadyOne
<1>4. \A k \in Used : SpineKept(k)
  BY UserKeepsSpines
<1>5. \A k \in Used : ext'[k] >= ext[k]
  BY Constants DEF TypeOK, Used
<1> QED BY <1>3, <1>4, <1>5, SpinesKept

(* destroy_page_table_object and destroy_virt_page_object                  *)
LEMMA SpinesDestroy ==
  ASSUME TypeOK, TypeOK', PageInvariant, NEW x \in Objects, Live(x), Destroy(x)
  PROVE  Spines'
<1>1. rootOf' = rootOf /\ ext' = ext
  BY DEF Destroy, AssertThen
<1>2. \A k \in Used : ext'[k] >= ext[k]
  BY <1>1, Constants DEF TypeOK, Used
<1>3. CASE EntryFound(x)
  <2>1. SetCap(x, NoCap("dead")) /\ entries' = Disabled(x)
    BY <1>3 DEF Destroy, AssertThen
  <2>2. cap'[x].st = "dead" /\ \A y \in Objects : y # x => cap'[y] = cap[y]
    BY <2>1, OneCap, UnmappedParts
  <2>3. CapsSteady
    BY <2>2, SteadyOne DEF Live
  <2>4. \A s \in Tables, j \in EntryIndex :
          entries'[s][j] = IF s = cap[x].parent /\ j = OwnIndex(x) THEN Off ELSE entries[s][j]
    BY <2>1, CapParts, OwnIndexType, EntryParts DEF Disabled, TypeOK, Objects
  <2>5. ASSUME NEW k \in Used PROVE SpineKept(k)
    <3> SUFFICES ASSUME NEW l \in Levels, Spine(k)[l] \in Tables
                 PROVE  LET new == entries'[Spine(k)[l]][Index(CapSpaceBase, l)]
                        IN  \/ new = SpineEntry(k, l)
                            \/ new = Off /\ SpineEntry(k, l).to \in Pages
                            \/ new = Off /\ SpineEntry(k, l).to \in Tables /\ ~Intact(k)'
      BY DEF SpineKept
    <3>0. k \in Tasks /\ Index(CapSpaceBase, l) \in EntryIndex
      BY IndexType, Constants DEF Used
    <3>1. PICK s \in Tables, j \in EntryIndex : s = Spine(k)[l] /\ j = Index(CapSpaceBase, l)
      BY <3>0
    <3>2. CASE s # cap[x].parent \/ j # OwnIndex(x)
      BY <2>4, <3>1, <3>2 DEF SpineEntry
    <3>3. CASE s = cap[x].parent /\ j = OwnIndex(x)
      <4>1. entries'[s][j] = Off /\ entries[s][j].to = x
        BY <1>3, <2>4, <3>3, EntryParts DEF EntryFound, Objects
      <4>2. ASSUME x \in Tables PROVE ~Intact(k)'
        <5>1. CASE l = 0
          <6>1. entries[s][j] # KernelPage
            BY <4>1, EntryParts
          <6>2. ~Intact(k)
            BY <3>1, <5>1, <6>1 DEF PageInvariant, Spines, SpinesOf, SpineWhole
          <6> QED BY <2>3, <6>2, BootTables DEF Intact, CapsSteady
        <5>2. CASE l # 0
          <6>1. PICK m \in Inner : m + 1 = l
            <7>1. l - 1 \in Inner /\ l - 1 + 1 = l
              BY <5>2, Constants DEF Levels, Inner
            <7> QED BY <7>1
          <6>2. Spine(k)[m] = x
            BY <3>0, <3>1, <4>1, <6>1, SpineSteps DEF IsWalk
          <6>3. k = RootTask /\ x = CapTables[m]
            BY <3>3, <4>2, <6>2, EntryParts DEF PageInvariant, Spines, SpinesOf, SpineParents, Objects
          <6> QED BY <2>2, <6>3 DEF Intact
        <5> QED BY <5>1, <5>2
      <4> QED BY <3>1, <4>1, <4>2 DEF SpineEntry, Objects
    <3> QED BY <3>2, <3>3
  <2> QED BY <1>1, <1>2, <2>3, <2>5, SpinesKept
<1>4. CASE ~EntryFound(x)
  <2>1. cap' = cap /\ entries' = entries
    BY <1>4 DEF Destroy, AssertThen
  <2>2. CapsSteady /\ \A k \in Used : SpineKept(k)
    BY <2>1, UserKeepsSpines DEF CapsSteady
  <2> QED BY <1>1, <1>2, <2>2, SpinesKept
<1> QED BY <1>3, <1>4

(* extend_cap_space: the new table hangs from the spine of its task, at an *)
(* entry of its own.                                                       *)
LEMMA InvariantExtend ==
  ASSUME TypeOK, TypeOK', PageInvariant, NEW k \in Used, NEW t \in Tables, Live(t),
         ExtendCapSpace(k, t)
  PROVE  PageInvariant'
<1>1. /\ k \in Tasks /\ ext[k] \in 1..(N - 1)
  BY Constants DEF Used, TypeOK, PageInvariant, Spines, SpinesOf, Roots
<1>2. PICK va, mid, i : /\ va = CapSpaceBase + N * ext[k]
                        /\ mid = WalkTables(rootOf[k], va)[1] /\ i = Index(va, 1)
  OBVIOUS
<1>3. /\ va \in Nat /\ va >= KernelBase /\ i # Index(CapSpaceBase, 1) /\ i \in EntryIndex
      /\ mid = Spine(k)[1]
  <2>1. PICK e \in 1..(N - 1) : e = ext[k]
    BY <1>1
  <2>2. va \in Nat /\ i # Index(CapSpaceBase, 1)
    BY <1>2, <2>1, ExtensionIndex, Constants
  <2>3. va >= KernelBase
    <3>1. N * e \in Nat
      BY Constants
    <3> QED BY <1>2, <2>1, <3>1, Constants
  <2>4. i \in EntryIndex
    BY <1>2, <2>2, IndexType
  <2>5. mid = Spine(k)[1]
    BY <1>1, <1>2, <2>1, ExtensionWalk
  <2> QED BY <2>2, <2>3, <2>4, <2>5
<1>4. /\ ~cap[t].mapped /\ rootOf' = rootOf
      /\ \/ UNCHANGED <<cap, entries, ext>>
         \/ /\ mid \in Tables /\ ~IsEnabled(mid, i)
            /\ SetEntry(mid, i, Entry(t, "table")) /\ SetCap(t, MappedAt(0, 0, va, t))
            /\ ext' = [ext EXCEPT ![k] = @ + 1]
  BY <1>2 DEF ExtendCapSpace, AssertThen
<1>5. \A m \in Used : ext'[m] >= ext[m]
  BY <1>4, Constants DEF TypeOK, Used
<1>6. CASE UNCHANGED <<cap, entries, ext>>
  <2>1. CapsSteady /\ \A m \in Used : SpineKept(m)
    BY <1>6, UserKeepsSpines DEF CapsSteady
  <2>2. Spines'
    BY <1>4, <1>5, <2>1, SpinesKept
  <2>3. Agreement'
    BY <1>6 DEF PageInvariant, Agreement, Unlinked, Aligned, PageEntries, TableEntries,
                KernelEntries, Findable, Shielded, IsRoot, Agrees, EntryFound, OwnIndex, Live
  <2> QED BY <2>2, <2>3 DEF PageInvariant
<1>7. CASE /\ mid \in Tables /\ ~IsEnabled(mid, i)
           /\ SetEntry(mid, i, Entry(t, "table")) /\ SetCap(t, MappedAt(0, 0, va, t))
  <2>1. Shielded(mid) /\ 1 \in Levels
    BY <1>3, <1>7, Constants DEF PageInvariant, Spines, SpinesOf, SpineShielded
  <2>2. Agreement'
    BY <1>3, <1>4, <1>7, <2>1, AgreeExtend DEF PageInvariant
  <2>3. \A y \in Objects : y # t => cap'[y] = cap[y]
    BY <1>7, OneCap DEF Objects
  <2>4. CapsSteady
    BY <1>4, <2>3, SteadyOne DEF Live
  <2>5. \A s \in Tables, j \in EntryIndex : s # mid \/ j # i => entries'[s][j] = entries[s][j]
    BY <1>3, <1>7, OneEntry
  <2>6. ASSUME NEW m \in Used, NEW l \in Levels, Spine(m)[l] \in Tables
        PROVE  entries'[Spine(m)[l]][Index(CapSpaceBase, l)] = SpineEntry(m, l)
    <3>1. Index(CapSpaceBase, l) \in EntryIndex
      BY IndexType, Constants
    <3>2. Spine(m)[l] = mid => m = k /\ l = 1
      BY <1>3, <1>7, <2>1, <2>6 DEF PageInvariant, Spines, SpinesOf, SpinesApart
    <3>3. Spine(m)[l] # mid \/ Index(CapSpaceBase, l) # i
      BY <1>3, <3>2
    <3> QED BY <2>5, <2>6, <3>1, <3>3 DEF SpineEntry
  <2>7. \A m \in Used : SpineKept(m)
    BY <2>6 DEF SpineKept
  <2> QED BY <1>4, <1>5, <2>2, <2>4, <2>7, SpinesKept DEF PageInvariant
<1> QED BY <1>4, <1>6, <1>7

(* A walk through the tables that init_task linked passes them all.        *)
LEMMA LinkedWalk ==
  ASSUME NEW E, NEW root \in Tables, NEW tables \in [Inner -> Tables], NEW w,
         E[root][Index(CapSpaceBase, MaxLevel)] = Entry(tables[MaxLevel - 1], "kernel"),
         \A l \in Inner : E[tables[l]][Index(CapSpaceBase, l)] = CapLink(l, tables),
         IsWalk(w, E, root, CapSpaceBase)
  PROVE  w[MaxLevel] = root /\ \A l \in Inner : w[l] = tables[l]
<1> DEFINE S == {l \in Levels : w[l] = IF l = MaxLevel THEN root ELSE tables[l]}
<1>1. MaxLevel \in S
  BY Constants DEF IsWalk
<1>2. ASSUME NEW l \in Inner, l >= 0, l + 1 \in S PROVE l \in S
  <2>1. l \in Levels /\ l # MaxLevel /\ l + 1 \in Levels /\ l + 1 # 0
    BY Constants DEF Inner
  <2>2. w[l] = IF w[l + 1] \in Tables THEN E[w[l + 1]][Index(CapSpaceBase, l + 1)].to ELSE Nil
    BY DEF IsWalk
  <2>3. CASE l + 1 = MaxLevel
    <3>1. l = MaxLevel - 1 /\ w[l + 1] = root
      BY <1>2, <2>3, Constants DEF Inner
    <3> QED BY <2>1, <2>2, <2>3, <3>1, EntryParts
  <2>4. CASE l + 1 # MaxLevel
    <3>1. l + 1 \in Inner /\ w[l + 1] = tables[l + 1] /\ l + 1 - 1 = l
      BY <1>2, <2>4, Constants DEF Inner
    <3>2. CapLink(l + 1, tables).to = tables[l]
      <4>1. CASE l = 0
        <5>1. CapLink(1, tables) = Entry(tables[0], "table") /\ l + 1 = 1
          BY <4>1 DEF CapLink
        <5> QED BY <4>1, <5>1, EntryParts
      <4>2. CASE l # 0
        <5>1. PICK m : m = l + 1 /\ m # 0 /\ m # 1 /\ m - 1 = l
          BY <2>1, <4>2, Constants
        <5>2. CapLink(m, tables) = Entry(tables[m - 1], "kernel")
          BY <5>1 DEF CapLink
        <5> QED BY <5>1, <5>2, EntryParts
      <4> QED BY <4>1, <4>2
    <3> QED BY <2>1, <2>2, <3>1, <3>2
  <2> QED BY <2>3, <2>4
<1> HIDE DEF S
<1>3. \A l \in 0..MaxLevel : l \in S
  BY <1>1, <1>2, DownLevels, Constants
<1>4. \A l \in Inner : l \in 0..MaxLevel /\ l # MaxLevel
  BY Constants DEF Inner
<1> QED BY <1>3, <1>4 DEF S, IsWalk

(* create_task_object: the tables of a new task are none of another's, and *)
(* they lead to its capability space.                                      *)
LEMMA SpinesCreateTask ==
  ASSUME TypeOK, TypeOK', PageInvariant, ~ReuseTables, NEW n \in Unused, NEW r \in LiveTables,
         NEW ts \in [Inner -> LiveTables], CreateTask(n, r, ts)
  PROVE  Spines'
<1>0. n \in Tasks /\ n \notin Used
  BY DEF Unused, Used
<1>1. /\ r \in Tables /\ ts \in [Inner -> Tables]
      /\ \A l, m \in Inner : ts[l] # r /\ (ts[l] = ts[m] => l = m)
      /\ ~cap[r].mapped /\ cap[r].st = "live" /\ IsRoot(r)'
      /\ \A l \in Inner :
           /\ ~cap[ts[l]].mapped /\ cap[ts[l]].st = "live"
           /\ cap'[ts[l]].st = "live"
           /\ cap'[ts[l]].base = CapSpaceBase /\ cap'[ts[l]].parent = Nil
      /\ \A x \in Objects : x # r /\ (\A l \in Inner : ts[l] # x) => cap'[x] = cap[x]
  BY <1>0, TaskEffects DEF PageInvariant, Agreement
<1>2. PICK E : E = InitTask(entries, r, ts) /\ entries' = E
  BY UnusedTables
<1>3. TaskLinked(E, entries, r, ts)
  BY <1>1, <1>2, InitTaskEntries
<1>4. /\ rootOf'[n] = r /\ ext'[n] = 1
      /\ \A k \in Tasks : k # n => rootOf'[k] = rootOf[k] /\ ext'[k] = ext[k]
  BY <1>0, UnusedTables DEF TypeOK
<1> DEFINE fresh(x) == x = r \/ \E l \in Inner : ts[l] = x
<1>5. \A t \in Tables : fresh(t) => ~cap[t].mapped /\ cap[t].st = "live" /\ ~Shielded(t)
  <2>1. \A t \in Tables : ~cap[t].mapped => cap[t].base \in Nat /\ cap[t].base < KernelBase
    BY CapParts DEF PageInvariant, Agreement, Unlinked, Objects
  <2> QED BY <1>1, <2>1, Constants DEF Shielded
<1>6. \A t \in Tables : ~fresh(t) => cap'[t] = cap[t] /\ entries'[t] = entries[t]
  BY <1>1, <1>2, <1>3 DEF TaskLinked, Objects
<1>7. \A l \in Levels : l \in Inner \/ l = MaxLevel
  BY Constants DEF Levels, Inner
<1> HIDE DEF fresh
<1>8. ASSUME NEW k \in Used, NEW l \in Levels, Spine(k)[l] \in Tables PROVE ~fresh(Spine(k)[l])
  <2>1. CASE l \in Inner
    BY <1>5, <1>8, <2>1 DEF PageInvariant, Spines, SpinesOf, SpineShielded
  <2>2. CASE l = MaxLevel
    <3>1. Spine(k)[l] = rootOf[k]
      BY <2>2, SpineSteps DEF Used, IsWalk
    <3> QED BY <1>5, <1>8, <3>1 DEF PageInvariant, Spines, SpinesOf, Roots, IsRoot
  <2> QED BY <1>7, <2>1, <2>2
<1>9. CapsSteady
  BY <1>5, <1>6 DEF CapsSteady
<1>10. PICK U : U = Used
  OBVIOUS
<1>11. \A k \in U : SpineKept(k)
  BY <1>6, <1>8, <1>10 DEF SpineKept, SpineEntry
<1>12. \A k \in U : k \in Tasks /\ rootOf'[k] = rootOf[k] /\ ext'[k] >= ext[k]
  BY <1>0, <1>4, <1>10, Constants DEF Used, TypeOK
<1>13. SpinesOf(U)'
  BY <1>9, <1>10, <1>11, <1>12, OldSpines
<1>14. Used' = U \cup {n}
  <2>1. r # Nil
    BY <1>1, PageTableAssumption
  <2> QED BY <1>0, <1>4, <1>10, <2>1 DEF Used
<1>15. PICK w : w = Spine(n)'
  OBVIOUS
<1>16. w[MaxLevel] = r /\ \A l \in Inner : w[l] = ts[l]
  <2>1. IsWalk(w, entries', r, CapSpaceBase)
    BY <1>0, <1>4, <1>15, SpineStepsNext
  <2> QED BY <1>1, <1>2, <1>3, <2>1, LinkedWalk DEF TaskLinked
<1>17. \A l \in Levels : fresh(w[l])
  BY <1>7, <1>16 DEF fresh
<1>18. n # RootTask
  BY <1>0 DEF PageInvariant, Spines, SpinesOf
<1>19. Roots(Used)'
  <2>1. IsRoot(rootOf[n])' /\ ext'[n] >= 1
    BY <1>1, <1>4 DEF IsRoot
  <2> QED BY <1>13, <1>14, <2>1 DEF SpinesOf, Roots
<1>20. SpineShielded(Used)'
  <2>1. \A l \in Inner : Shielded(Spine(n)[l])'
    BY <1>1, <1>15, <1>16, Constants DEF Shielded
  <2> QED BY <1>13, <1>14, <2>1 DEF SpinesOf, SpineShielded
<1>21. SpinesApart(Used)'
  <2>1. ASSUME NEW k \in U, NEW l \in Levels, Spine(k)'[l] \in Tables PROVE ~fresh(Spine(k)'[l])
    <3>1. Spine(k)'[l] = Spine(k)[l]
      BY <1>9, <1>10, <1>11, <1>12, <2>1, SpineStays
    <3> QED BY <1>8, <1>10, <2>1, <3>1
  <2>2. \A l, j \in Levels : w[l] = w[j] => l = j
    BY <1>1, <1>7, <1>16
  <2> SUFFICES ASSUME NEW k \in U \cup {n}, NEW m \in U \cup {n}, NEW l \in Levels, NEW j \in Levels,
                      Spine(k)'[l] \in Tables, Spine(k)'[l] = Spine(m)'[j]
               PROVE  k = m /\ l = j
    BY <1>14 DEF SpinesApart
  <2>3. CASE k = n /\ m = n
    BY <1>15, <2>2, <2>3
  <2>4. CASE k \in U /\ m \in U
    BY <1>13, <2>4 DEF SpinesOf, SpinesApart
  <2>5. ~(k \in U /\ m = n) /\ ~(k = n /\ m \in U)
    BY <1>15, <1>17, <2>1
  <2> QED BY <2>3, <2>4, <2>5
<1>22. SpineParents(Used)'
  <2>1. \A l \in Inner : cap'[Spine(n)'[l]].parent = Nil
    BY <1>1, <1>15, <1>16
  <2> QED BY <1>13, <1>14, <1>18, <2>1 DEF SpinesOf, SpineParents
<1>23. SpineWhole(Used)'
  <2>1. \A l \in Inner : Spine(n)'[l] \in Tables
    BY <1>1, <1>15, <1>16
  <2>2. entries'[Spine(n)'[0]][Index(CapSpaceBase, 0)] = KernelPage
    BY <1>2, <1>3, <1>15, <1>16, Constants DEF TaskLinked, CapLink
  <2> QED BY <1>13, <1>14, <2>1, <2>2 DEF SpinesOf, SpineWhole
<1> QED BY <1>13, <1>14, <1>19, <1>20, <1>21, <1>22, <1>23 DEF Spines, SpinesOf

(* setup_root_task: the first task has its capability space.               *)
LEMMA SpinesInit ==
  ASSUME Init
  PROVE  Spines
<1>0. TypeOK
  BY InitType
<1>1. Used = {RootTask} /\ rootOf[RootTask] = RootTable /\ ext[RootTask] = 1 /\ RootTask \in Tasks
  <2>1. RootTask \in Tasks /\ RootTable # Nil
    BY PageTableAssumption
  <2> QED BY <2>1 DEF Init, Used
<1>2. PICK w : w = Spine(RootTask)
  OBVIOUS
<1>3. w[MaxLevel] = RootTable /\ \A l \in Inner : w[l] = CapTables[l]
  <2>1. IsWalk(w, entries, RootTable, CapSpaceBase)
    BY <1>0, <1>1, <1>2, SpineSteps
  <2>2. /\ entries[RootTable][Index(CapSpaceBase, MaxLevel)] = Entry(CapTables[MaxLevel - 1], "kernel")
        /\ \A l \in Inner : entries[CapTables[l]][Index(CapSpaceBase, l)] = CapLink(l, CapTables)
    BY BootLinks
  <2> QED BY <2>1, <2>2, BootTables, LinkedWalk
<1>4. IsRoot(RootTable)
  <2>1. cap[RootTable] = MappedAt(MaxLevel, 0, 0, Nil)
    BY BootCaps, BootTables DEF Init, Objects
  <2> QED BY <2>1 DEF MappedAt, Cap, IsRoot
<1>5. \A l \in Inner : cap[CapTables[l]].base = CapSpaceBase
  <2> TAKE l \in Inner
  <2>1. cap[CapTables[l]] = MappedAt(l, 0, CapSpaceBase, ParentOf(CapTables, l))
    BY BootCaps, BootTables DEF Init, Objects
  <2> QED BY <2>1 DEF MappedAt, Cap
<1>6. \A l \in Levels : l \in Inner \/ l = MaxLevel
  BY Constants DEF Levels, Inner
<1>7. Roots(Used)
  BY <1>1, <1>4 DEF Roots
<1>8. SpineShielded(Used)
  BY <1>1, <1>2, <1>3, <1>5, Constants DEF SpineShielded, Shielded
<1>9. SpinesApart(Used)
  <2>1. \A l, j \in Levels : w[l] = w[j] => l = j
    BY <1>3, <1>6, BootAssumption DEF Inner
  <2> QED BY <1>1, <1>2, <2>1 DEF SpinesApart
<1>10. SpineParents(Used)
  BY <1>1, <1>2, <1>3 DEF SpineParents
<1>11. SpineWhole(Used)
  <2>1. entries[CapTables[0]][Index(CapSpaceBase, 0)] = KernelPage
    BY BootLinks, Constants DEF CapLink
  <2> QED BY <1>1, <1>2, <1>3, <2>1, BootTables, Constants DEF SpineWhole
<1> QED BY <1>1, <1>7, <1>8, <1>9, <1>10, <1>11 DEF Spines, SpinesOf

-----------------------------------------------------------------------------
(* The theorems.                                                           *)

(* Every call preserves the invariant.                                     *)
LEMMA InvariantNext ==
  ASSUME TypeOK, TypeOK', PageInvariant, ~ReuseTables, Next
  PROVE  PageInvariant'
<1> USE DEF Objects
<1>1. ASSUME NEW t \in Tables, CreateTable(t) PROVE PageInvariant'
  <2>1. cap[t].st = "none" /\ SetCap(t, Unmapped(0)) /\ UNCHANGED <<entries, rootOf, ext>>
    BY <1>1 DEF CreateTable
  <2>2. Agreement'
    BY <2>1, AgreeCreate, Constants DEF PageInvariant
  <2>3. Spines'
    BY <2>1, SpinesCreate
  <2> QED BY <2>2, <2>3 DEF PageInvariant
<1>2. ASSUME NEW p \in Pages, NEW level \in PageLevels, CreatePage(p, level) PROVE PageInvariant'
  <2>1. cap[p].st = "none" /\ SetCap(p, Unmapped(level)) /\ UNCHANGED <<entries, rootOf, ext>>
    BY <1>2 DEF CreatePage
  <2>2. level \in Levels
    BY PageTableAssumption DEF Levels
  <2>3. Agreement'
    BY <2>1, <2>2, AgreeCreate DEF PageInvariant
  <2>4. Spines'
    BY <2>1, SpinesCreate
  <2> QED BY <2>3, <2>4 DEF PageInvariant
<1>3. ASSUME NEW t \in LiveTables, NEW i \in Indices, NEW c \in LiveTables, MapTable(t, i, c)
      PROVE  PageInvariant'
  <2>1. t \in Tables /\ Live(t) /\ c \in Tables /\ Live(c) /\ i \in EntryIndex
    BY PageTableAssumption DEF LiveTables, EntryIndex
  <2> QED BY <1>3, <2>1, AgreeMapTable, SpinesMapTable DEF PageInvariant
<1>4. ASSUME NEW t \in LiveTables, NEW i \in Indices, NEW c \in LiveTables, UnmapTable(t, i, c)
      PROVE  PageInvariant'
  <2>1. t \in Tables /\ Live(t) /\ c \in Tables /\ Live(c) /\ i \in EntryIndex
    BY PageTableAssumption DEF LiveTables, EntryIndex
  <2> QED BY <1>4, <2>1, AgreeUnmapTable, SpinesUnmapTable DEF PageInvariant
<1>5. ASSUME NEW t \in LiveTables, NEW i \in Indices, NEW p \in LivePages, NEW old \in LiveTables,
             MapPage(t, i, p) \/ UnmapPage(t, i, p) \/ RemapPage(t, i, p, old)
      PROVE  PageInvariant'
  <2>1. /\ t \in Tables /\ Live(t) /\ p \in Pages /\ old \in Tables /\ i \in EntryIndex
    BY PageTableAssumption DEF LiveTables, LivePages, EntryIndex
  <2>2. Agreement'
    BY <1>5, <2>1, AgreeMapPage, AgreeUnmapPage, AgreeRemapPage DEF PageInvariant
  <2>3. Spines'
    BY <1>5, <2>1, SpinesPage
  <2> QED BY <2>2, <2>3 DEF PageInvariant
<1>6. ASSUME NEW x \in LiveTables \cup LivePages, Destroy(x) PROVE PageInvariant'
  <2>1. x \in Objects /\ Live(x)
    BY DEF LiveTables, LivePages
  <2> QED BY <1>6, <2>1, AgreeDestroy, SpinesDestroy DEF PageInvariant
<1>7. ASSUME NEW k \in Unused, NEW r \in LiveTables, NEW ts \in [Inner -> LiveTables],
             CreateTask(k, r, ts)
      PROVE  PageInvariant'
  <2>1. k \in Tasks
    BY DEF Unused
  <2> QED BY <1>7, <2>1, AgreeCreateTask, SpinesCreateTask DEF PageInvariant
<1>8. ASSUME NEW k \in Tasks \ Unused, NEW t \in LiveTables, ExtendCapSpace(k, t)
      PROVE  PageInvariant'
  <2>1. k \in Used /\ t \in Tables /\ Live(t)
    BY DEF Unused, Used, LiveTables
  <2> QED BY <1>8, <2>1, InvariantExtend
<1> QED BY <1>1, <1>2, <1>3, <1>4, <1>5, <1>6, <1>7, <1>8 DEF Next

(* Whatever programs do with tables and pages, entries and capabilities    *)
(* agree where programs can write, and the tables that lead to capability  *)
(* spaces are out of their reach, as long as no task is created on tables  *)
(* in use: init_task clears them whatever they hold.                       *)
THEOREM PageInvariantHolds == ASSUME ~ReuseTables PROVE Spec => []PageInvariant
<1>1. Init => PageInvariant
  BY AgreeInit, SpinesInit DEF PageInvariant
<1>2. TypeOK /\ TypeOK' /\ PageInvariant /\ [Next]_vars => PageInvariant'
  <2>1. ASSUME TypeOK, TypeOK', PageInvariant, UNCHANGED vars PROVE PageInvariant'
    <3>1. /\ cap' = cap /\ entries' = entries /\ rootOf' = rootOf /\ ext' = ext
      BY <2>1 DEF vars
    <3>2. Agreement'
      BY <2>1, <3>1 DEF PageInvariant, Agreement, Unlinked, Aligned, PageEntries, TableEntries,
                  KernelEntries, Findable, Shielded, IsRoot, Agrees, EntryFound, OwnIndex, Live
    <3>3. CapsSteady /\ \A k \in Used : SpineKept(k)
      BY <2>1, <3>1, UserKeepsSpines DEF CapsSteady
    <3>4. \A k \in Used : ext'[k] >= ext[k]
      BY <2>1, <3>1, Constants DEF TypeOK, Used
    <3> QED BY <2>1, <3>1, <3>2, <3>3, <3>4, SpinesKept DEF PageInvariant
  <2> QED BY <2>1, InvariantNext
<1> QED BY <1>1, <1>2, PageTypesCorrect, PTL DEF Spec

(* map_page_table_cap, map_virt_page_cap, their inverses and the           *)
(* destructors keep page tables and capabilities in agreement: an entry of *)
(* the user leads to the object whose capability names that very entry,    *)
(* and every destructor finds its entry, as long as no task is created on  *)
(* tables that hold entries (init_task erases them).                       *)
THEOREM EntriesAlwaysAgree == ASSUME ~ReuseTables PROVE Spec => []EntriesAgree
<1>1. TypeOK /\ PageInvariant => EntriesAgree
  <2> SUFFICES ASSUME TypeOK, PageInvariant PROVE EntriesAgree
    OBVIOUS
  <2>1. ASSUME NEW t \in Tables, NEW i \in EntryIndex, entries[t][i].to # Nil,
               entries[t][i].kind \in {"table", "user"}
        PROVE  \/ Agrees(entries[t][i].to, t, i)
               \/ cap[t].base >= KernelBase \/ ~Live(t)
    <3>1. entries[t][i].to \in Tables \cup Pages /\ entries[t][i].kind # "kernel"
      <4>1. entries[t][i] \in PageTableEntry
        BY DEF TypeOK
      <4> QED BY <2>1, <4>1 DEF PageTableEntry, Objects
    <3>2. CASE entries[t][i].to \in Pages
      BY <3>2 DEF PageInvariant, Agreement, PageEntries
    <3>3. CASE entries[t][i].to \in Tables
      BY <3>1, <3>3 DEF PageInvariant, Agreement, TableEntries, Shielded, Live
    <3> QED BY <3>1, <3>2, <3>3
  <2>2. \A x \in Objects : cap[x].base < KernelBase => EntryFound(x)
    BY DEF PageInvariant, Agreement, Findable
  <2> QED BY <2>1, <2>2 DEF EntriesAgree
<1> QED BY <1>1, PageTypesCorrect, PageInvariantHolds, PTL

(* No call cuts a task off from its capability space; only destroying the  *)
(* tables of the root task's own space does.  That no task is created on   *)
(* tables in use is what the invariant it follows from needs.              *)
THEOREM CapsAlwaysKept == ASSUME ~ReuseTables PROVE Spec => []CapsKept
<1>1. TypeOK /\ PageInvariant => CapsKept
  <2> SUFFICES ASSUME TypeOK, PageInvariant, NEW k \in Tasks, rootOf[k] # Nil,
                      ~(k = RootTask /\ \E l \in Inner : ~Live(CapTables[l]))
               PROVE  CapsReachable(k)
    BY DEF CapsKept
  <2>1. k \in Used /\ Intact(k)
    BY DEF Used, Intact, Live
  <2>2. PICK last : last = Spine(k)[0]
    OBVIOUS
  <2>3. last \in Tables /\ entries[last][Index(CapSpaceBase, 0)] = KernelPage
    BY <2>1, <2>2, Constants DEF PageInvariant, Spines, SpinesOf, SpineWhole
  <2>4. IsEnabled(last, Index(CapSpaceBase, 0))
    BY <2>3, EntryParts DEF IsEnabled
  <2> QED BY <2>2, <2>3, <2>4 DEF CapsReachable, Spine
<1> QED BY <1>1, PageTypesCorrect, PageInvariantHolds, PTL
=============================================================================
