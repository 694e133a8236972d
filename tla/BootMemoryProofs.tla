------------------------- MODULE BootMemoryProofs -------------------------
(***************************************************************************)
(* Proofs about Regions.tla and BootMemory.tla.                            *)
(***************************************************************************)
EXTENDS BootInvariant, Iteration, SequenceTheorems

-----------------------------------------------------------------------------
(* Regions.                                                                *)

(* subtract_region is set difference: an address is in one of the two      *)
(* pieces exactly if it is in a and not in b.  This needs b not to be      *)
(* inverted: behind an inverted b (end before start) the two pieces would  *)
(* overlap.                                                                *)
THEOREM SubtractExact ==
  ASSUME NEW s \in Nat, NEW e \in Nat, NEW bs \in Nat, NEW be \in Nat, bs <= be,
         NEW x \in Nat
  PROVE  LET a == Region(s, e)
             b == Region(bs, be)
             d == SubtractRegion(a, b)
         IN  (In(x, d[1]) \/ In(x, d[2])) <=> (In(x, a) /\ ~In(x, b))
  BY DEF Region, Nothing, In, SubtractRegion

(* The two pieces have no address in common.                               *)
THEOREM SubtractDisjoint ==
  ASSUME NEW s \in Nat, NEW e \in Nat, NEW bs \in Nat, NEW be \in Nat, bs <= be,
         NEW x \in Nat
  PROVE  LET d == SubtractRegion(Region(s, e), Region(bs, be))
         IN  ~(In(x, d[1]) /\ In(x, d[2]))
  BY DEF Region, Nothing, In, SubtractRegion

LEMMA RegionType ==
  ASSUME NEW s \in Nat, NEW e \in Nat
  PROVE  /\ Region(s, e) \in RegionSet
         /\ Region(s, e).start = s /\ Region(s, e).end = e
BY DEF Region, RegionSet

LEMMA RegionFields ==
  ASSUME NEW r \in RegionSet
  PROVE  r.start \in Nat /\ r.end \in Nat /\ r = Region(r.start, r.end)
BY DEF Region, RegionSet

LEMMA PieceTypes ==
  ASSUME NEW a \in RegionSet, NEW b \in RegionSet
  PROVE  /\ SubtractRegion(a, b)[1] \in RegionSet
         /\ SubtractRegion(a, b)[2] \in RegionSet
<1>1. /\ a.start \in Nat /\ a.end \in Nat /\ b.start \in Nat /\ b.end \in Nat
  BY RegionFields
<1>2. Nothing \in RegionSet
  BY RegionType DEF Nothing
<1>3. Region(a.start, b.start) \in RegionSet /\ Region(b.end, a.end) \in RegionSet
  BY <1>1, RegionType
<1> QED BY <1>2, <1>3 DEF SubtractRegion

-----------------------------------------------------------------------------
(* Numbers.                                                                *)

LEMMA WordType == CellBase \in Nat \ {0} /\ CellBase * CellBase \in Nat \ {0}
<1>1. CellBase \in Nat \ {0}
  BY BootAssumption
<1>2. \A a, b \in Nat \ {0} : a * b \in Nat \ {0}
  OBVIOUS
<1> QED BY <1>1, <1>2

(* What one cell adds to a number.                                         *)
WithCell(n, c) == (n * CellBase + c) % (CellBase * CellBase)

LEMMA WithCellType ==
  ASSUME NEW n \in Nat, NEW c \in Nat
  PROVE  WithCell(n, c) \in Nat
<1>1. PICK w \in Nat \ {0} : w = CellBase * CellBase
  BY WordType
<1>2. PICK m \in Nat : m = n * CellBase + c
  BY WordType
<1>3. m % w \in Nat
  BY DivMod
<1> QED BY <1>1, <1>2, <1>3 DEF WithCell

IsNumber(f, cells, m) == f = [j \in 0..m |-> IF j = 0 THEN 0 ELSE WithCell(f[j - 1], cells[j])]

(* The recursion of Number is well-defined.                                *)
LEMMA NumberExists ==
  ASSUME NEW cells \in Seq(Nat)
  PROVE  \E f : IsNumber(f, cells, Len(cells))
<1> DEFINE m == Len(cells)
           Next1(n, v) == IF n + 1 \in 1..m THEN WithCell(v, cells[n + 1]) ELSE 0
           g == [n \in Nat |-> [v \in Nat |-> Next1(n, v)]]
<1>0. m \in Nat /\ \A i \in 1..m : cells[i] \in Nat
  BY LenProperties, ElementOfSeq
<1>1. g \in [Nat -> [Nat -> Nat]]
  <2>1. \A n \in Nat : \A v \in Nat : Next1(n, v) \in Nat
    BY <1>0, WithCellType
  <2> QED BY <2>1
<1>2. PICK q : IsIterate(q, Nat, 0, g)
  <2> HIDE DEF g
  <2> QED BY <1>1, Iterates
<1>3. q \in [Nat -> Nat] /\ q[0] = 0 /\ \A n \in Nat : q[n + 1] = g[n][q[n]]
  BY <1>2 DEF IsIterate
<1> DEFINE f == [j \in 0..m |-> q[j]]
<1>4. \A j \in 0..m : f[j] = IF j = 0 THEN 0 ELSE WithCell(f[j - 1], cells[j])
  <2> TAKE j \in 0..m
  <2>1. CASE j = 0
    BY <1>3, <2>1
  <2>2. CASE j # 0
    <3>1. j - 1 \in Nat /\ j - 1 \in 0..m /\ j - 1 + 1 = j /\ j \in 1..m
      BY <1>0, <2>2
    <3>2. q[j] = g[j - 1][q[j - 1]]
      BY <1>3, <3>1
    <3>3. q[j - 1] \in Nat
      BY <1>3, <3>1
    <3>4. q[j] = Next1(j - 1, q[j - 1])
      BY <3>1, <3>2, <3>3
    <3>5. q[j] = WithCell(q[j - 1], cells[j])
      BY <3>1, <3>4
    <3> QED BY <2>2, <3>1, <3>5
  <2> QED BY <2>1, <2>2
<1>5. f = [j \in 0..m |-> IF j = 0 THEN 0 ELSE WithCell(f[j - 1], cells[j])]
  <2> DEFINE r == [j \in 0..m |-> IF j = 0 THEN 0 ELSE WithCell(f[j - 1], cells[j])]
  <2>1. DOMAIN f = 0..m /\ DOMAIN r = 0..m /\ \A j \in 0..m : r[j] = f[j]
    BY <1>4
  <2> QED BY <1>4
<1> HIDE DEF f
<1> QED BY <1>5 DEF IsNumber

LEMMA NumberType ==
  ASSUME NEW cells \in Seq(Nat)
  PROVE  Number(cells) \in Nat
<1> DEFINE m == Len(cells)
<1>0. m \in Nat /\ \A i \in 1..m : cells[i] \in Nat
  BY LenProperties, ElementOfSeq
<1>1. PICK f : IsNumber(f, cells, m) /\ Number(cells) = f[m]
  <2>1. \E f : f = [j \in 0..Len(cells) |->
                      IF j = 0 THEN 0
                      ELSE (f[j - 1] * CellBase + cells[j]) % (CellBase * CellBase)]
    BY NumberExists DEF IsNumber, WithCell
  <2> QED BY <2>1 DEF Number, IsNumber, WithCell
<1> DEFINE bad == {j \in 0..m : f[j] \notin Nat}
<1>2. bad = {}
  <2> SUFFICES ASSUME bad # {} PROVE FALSE
    OBVIOUS
  <2>1. bad \in SUBSET Nat
    BY <1>0
  <2>2. PICK j \in bad : \A i \in bad : j <= i
    BY <2>1, LeastOf
  <2>3. j \in 0..m /\ f[j] = IF j = 0 THEN 0 ELSE WithCell(f[j - 1], cells[j])
    BY <1>1, <2>2 DEF IsNumber
  <2>4. CASE j = 0
    BY <2>2, <2>3, <2>4
  <2>5. CASE j # 0
    <3>1. j - 1 \in 0..m /\ j - 1 \notin bad /\ j \in 1..m
      <4>1. j - 1 \in 0..m /\ j \in 1..m /\ j \in Nat
        BY <1>0, <2>3, <2>5
      <4> HIDE DEF bad
      <4> QED BY <2>2, <4>1
    <3>2. f[j - 1] \in Nat
      BY <3>1
    <3> QED BY <1>0, <2>2, <2>3, <2>5, <3>1, <3>2, WithCellType
  <2> QED BY <2>4, <2>5
<1>3. m \in 0..m
  BY <1>0
<1> QED BY <1>1, <1>2, <1>3

-----------------------------------------------------------------------------
(* Reading the tokens.                                                     *)

(* A function on an interval from 1 is a sequence.                         *)
LEMMA FunctionIsSeq ==
  ASSUME NEW S, NEW n \in Nat, NEW f \in [1..n -> S]
  PROVE  f \in Seq(S) /\ Len(f) = n
<1>1. f \in Seq(S)
  BY SeqDef
<1> QED BY <1>1

(* The i-th of the blocks that fit lies within the data.                   *)
LEMMA BlockFits ==
  ASSUME NEW n \in Nat, NEW b \in Nat \ {0}, NEW i \in 1..(n \div b)
  PROVE  (i - 1) * b \in Nat /\ (i - 1) * b + b <= n
<1>1. PICK q \in Nat, r \in Nat : q = n \div b /\ n = b * q + r
  BY DivMod
<1>2. i - 1 \in Nat /\ q - i \in Nat
  BY <1>1
<1>3. PICK k \in Nat, d \in Nat : k = i - 1 /\ d = q - i
  BY <1>2
<1>4. q = k + d + 1
  BY <1>1, <1>3
<1>5. n = b * k + b * d + b + r /\ b * d \in Nat /\ b * k \in Nat
  BY <1>1, <1>3, <1>4
<1>6. (i - 1) * b = b * k
  BY <1>3
<1> QED BY <1>1, <1>5, <1>6

LEMMA PartNumber ==
  ASSUME NEW data \in Seq(Nat), NEW a \in Nat, NEW l \in Nat, a + l <= Len(data)
  PROVE  Number(SubSeq(data, a + 1, a + l)) \in Nat
<1>0. Len(data) \in Nat
  BY LenProperties
<1>1. \A i \in (a + 1)..(a + l) : data[i] \in Nat
  <2> TAKE i \in (a + 1)..(a + l)
  <2>1. i \in 1..Len(data)
    BY <1>0
  <2> QED BY <2>1, ElementOfSeq
<1>2. SubSeq(data, a + 1, a + l) \in Seq(Nat)
  BY <1>1, SubSeqProperties
<1> QED BY <1>2, NumberType

LEMMA RegRegionsType ==
  ASSUME NEW c \in CellCounts, c.size # 0, NEW data \in Seq(Nat)
  PROVE  \E n \in Nat : RegRegions(c, data) \in [1..n -> RegionSet]
<1>0. PICK a \in Nat, s \in Nat : a = c.addr /\ s = c.size /\ s # 0
  BY DEF CellCounts
<1>1. PICK b \in Nat \ {0} : b = a + s
  BY <1>0
<1>2. PICK l \in Nat : l = Len(data)
  BY LenProperties
<1>3. PICK n \in Nat : n = l \div b
  BY DivMod
<1> DEFINE from(i) == (i - 1) * b
           base(i) == Number(SubSeq(data, from(i) + 1, from(i) + a))
           size(i) == Number(SubSeq(data, from(i) + a + 1, from(i) + b))
           end(i) == (base(i) + size(i)) % (CellBase * CellBase)
<1>4. ASSUME NEW i \in 1..n PROVE base(i) \in Nat /\ size(i) \in Nat
  <2>1. PICK k \in Nat : k = from(i) /\ k + b <= l
    BY <1>3, BlockFits
  <2>0. k + a + s <= l
    <3>1. k + b <= l
      BY <2>1
    <3> HIDE DEF from, base, size, end
    <3> QED BY <1>0, <1>1, <3>1
  <2>2. base(i) \in Nat
    <3>1. k + a <= l
      BY ONLY <1>0, <2>0, k \in Nat, l \in Nat
    <3>2. Number(SubSeq(data, k + 1, k + a)) \in Nat
      BY <1>2, <3>1, PartNumber
    <3> QED BY <2>1, <3>2
  <2>3. size(i) \in Nat
    <3>1. PICK m \in Nat : m = k + a
      OBVIOUS
    <3>2. m + s <= l
      BY <2>0, <3>1
    <3>4. m + s = from(i) + b /\ m + 1 = from(i) + a + 1
      <4>1. k = from(i)
        BY <2>1
      <4>2. m + s = k + b /\ m + 1 = k + a + 1
        BY ONLY <1>1, <3>1, k \in Nat, a \in Nat, s \in Nat, b \in Nat, m \in Nat
      <4> HIDE DEF from
      <4> QED BY <4>1, <4>2
    <3>3. Number(SubSeq(data, m + 1, m + s)) \in Nat
      BY <1>2, <3>2, PartNumber
    <3> QED BY <3>3, <3>4
  <2> QED BY <2>2, <2>3
<1>5. \A i \in 1..n : Region(base(i), end(i)) \in RegionSet
  <2> TAKE i \in 1..n
  <2>1. PICK x \in Nat : x = base(i) + size(i)
    BY <1>4
  <2>2. PICK w \in Nat \ {0} : w = CellBase * CellBase
    BY WordType
  <2>3. x % w \in Nat
    BY DivMod
  <2>4. end(i) \in Nat
    BY <2>1, <2>2, <2>3
  <2> QED BY <1>4, <2>4, RegionType
<1>6. RegRegions(c, data) = [i \in 1..n |-> Region(base(i), end(i))]
  BY <1>0, <1>1, <1>2, <1>3 DEF RegRegions
<1> HIDE DEF base, end
<1> QED BY <1>5, <1>6

LEMMA RoundUpType ==
  ASSUME NEW n \in Nat
  PROVE  RoundUp(n) \in Nat /\ RoundUp(n) >= n
<1>1. PICK p \in Nat \ {0} : p = PageSz
  BY BootAssumption
<1>2. PICK m \in Nat : m = n + p - 1
  BY <1>1
<1>3. PICK q \in Nat, r \in 0..(p - 1) : q = m \div p /\ m = p * q + r
  BY DivMod
<1>4. p * q \in Nat /\ p * q >= n
  BY <1>2, <1>3
<1>5. q * p = p * q
  OBVIOUS
<1> QED BY <1>1, <1>2, <1>3, <1>4, <1>5 DEF RoundUp

LEMMA PushedType ==
  ASSUME NEW kind, NEW r \in RegionSet
  PROVE  Pushed(kind, r) \in RegionSet
<1>1. r.start \in Nat /\ RoundUp(r.end) \in Nat
  BY RegionFields, RoundUpType
<1> QED BY <1>1, RegionType DEF Pushed

LEMMA NodeRegionsType ==
  ASSUME TokensRead, NEW node \in NodeSet
  PROVE  NodeRegions(node) \in Seq(RegionSet)
<1> DEFINE regs == {i \in 1..Len(node.props) : node.props[i].name = "reg"}
           first == CHOOSE i \in regs : \A j \in regs : i <= j
<1>1. CASE node.name = PrunedName \/ node.cells.size = 0 \/ regs = {}
  BY <1>1, EmptySeq DEF NodeRegions
<1>2. CASE ~(node.name = PrunedName \/ node.cells.size = 0 \/ regs = {})
  <2>1. node.cells \in CellCounts /\ node.props \in Seq(Props)
    BY DEF NodeSet
  <2>2. first \in 1..Len(node.props)
    <3>1. regs \in SUBSET Nat
      <4>1. Len(node.props) \in Nat
        BY <2>1, LenProperties
      <4> QED BY <4>1
    <3>2. \E i \in regs : \A j \in regs : i <= j
      BY <1>2, <3>1, LeastOf
    <3>3. first \in regs
      BY <3>2
    <3> QED BY <3>3
  <2> HIDE DEF first
  <2>3. node.props[first] \in Props
    BY <2>1, <2>2, ElementOfSeq
  <2>4. node.props[first].cells \in Seq(Nat)
    BY <2>3 DEF TokensRead
  <2>5. PICK n \in Nat : RegRegions(node.cells, node.props[first].cells) \in [1..n -> RegionSet]
    BY <1>2, <2>1, <2>4, RegRegionsType
  <2> DEFINE found == RegRegions(node.cells, node.props[first].cells)
             pushed == [i \in 1..n |-> Pushed(KindOf(node.name), found[i])]
  <2>6. Len(found) = n
    BY <2>5, FunctionIsSeq
  <2>7. NodeRegions(node) = pushed
    BY <1>2, <2>6 DEF NodeRegions, first
  <2>8. pushed \in [1..n -> RegionSet]
    <3>1. \A i \in 1..n : found[i] \in RegionSet
      BY <2>5
    <3> HIDE DEF found
    <3>2. \A i \in 1..n : Pushed(KindOf(node.name), found[i]) \in RegionSet
      BY <3>1, PushedType
    <3> QED BY <3>2
  <2> QED BY <2>7, <2>8, FunctionIsSeq
<1> QED BY <1>1, <1>2

AreProps(f, i, stop) ==
  f = [j \in i..stop |->
         IF j = i THEN <<>>
         ELSE IF dtb[j - 1].type = "prop" THEN Append(f[j - 1], dtb[j - 1]) ELSE f[j - 1]]

WithToken(s, t) == IF t.type = "prop" THEN Append(s, t) ELSE s

LEMMA WithTokenType ==
  ASSUME NEW s \in Seq(Props), NEW t \in Tokens
  PROVE  WithToken(s, t) \in Seq(Props)
<1>1. CASE t.type = "prop"
  <2>1. t \in Props
    BY <1>1 DEF Props
  <2> QED BY <1>1, <2>1, AppendProperties DEF WithToken
<1> QED BY <1>1 DEF WithToken

(* The recursion of PropsFrom is well-defined.                             *)
LEMMA PropsExist ==
  ASSUME dtb \in Seq(Tokens), NEW i \in 1..(Len(dtb) + 1), NEW stop \in i..(Len(dtb) + 1)
  PROVE  \E f : AreProps(f, i, stop)
<1> DEFINE Then1(n, s) == IF n + i \in 1..Len(dtb) THEN WithToken(s, dtb[n + i]) ELSE <<>>
           g == [n \in Nat |-> [s \in Seq(Props) |-> Then1(n, s)]]
<1>0. Len(dtb) \in Nat /\ (\A k \in 1..Len(dtb) : dtb[k] \in Tokens) /\ <<>> \in Seq(Props)
  BY LenProperties, ElementOfSeq, EmptySeq
<1>1. g \in [Nat -> [Seq(Props) -> Seq(Props)]]
  <2>1. \A n \in Nat : \A s \in Seq(Props) : Then1(n, s) \in Seq(Props)
    BY <1>0, WithTokenType
  <2> HIDE DEF Then1
  <2> QED BY <2>1
<1>2. PICK q : IsIterate(q, Seq(Props), <<>>, g)
  <2> HIDE DEF g
  <2> QED BY <1>0, <1>1, Iterates
<1>3. q \in [Nat -> Seq(Props)] /\ q[0] = <<>> /\ \A n \in Nat : q[n + 1] = g[n][q[n]]
  BY <1>2 DEF IsIterate
<1> DEFINE f == [j \in i..stop |-> q[j - i]]
           body(j) == IF j = i THEN <<>>
                      ELSE IF dtb[j - 1].type = "prop" THEN Append(f[j - 1], dtb[j - 1])
                           ELSE f[j - 1]
<1>4. \A j \in i..stop : f[j] = body(j)
  <2> TAKE j \in i..stop
  <2>1. CASE j = i
    <3>1. j - i = 0 /\ f[j] = q[j - i]
      BY <1>0, <2>1
    <3> QED BY <1>3, <2>1, <3>1
  <2>2. CASE j # i
    <3>1. j - i - 1 \in Nat /\ j - i - 1 + 1 = j - i /\ j - i - 1 + i = j - 1
          /\ j - 1 \in 1..Len(dtb) /\ j - 1 \in i..stop /\ j - 1 - i = j - i - 1
      BY <1>0, <2>2
    <3>2. PICK m \in Nat : m = j - i - 1
      BY <3>1
    <3>3. q[m + 1] = g[m][q[m]] /\ q[m] \in Seq(Props)
      BY <1>3
    <3>4. g[m][q[m]] = Then1(m, q[m])
      BY <3>3
    <3>5. f[j] = q[m + 1] /\ f[j - 1] = q[m] /\ m + i = j - 1
      BY <3>1, <3>2
    <3>6. f[j] = WithToken(f[j - 1], dtb[j - 1])
      BY <3>1, <3>3, <3>4, <3>5
    <3> HIDE DEF f
    <3> QED BY <2>2, <3>6 DEF WithToken
  <2> QED BY <2>1, <2>2
<1>5. f = [j \in i..stop |-> body(j)]
  <2> DEFINE r == [j \in i..stop |-> body(j)]
  <2>1. DOMAIN f = i..stop /\ DOMAIN r = i..stop /\ \A j \in i..stop : r[j] = f[j]
    <3> HIDE DEF body
    <3> QED BY <1>4
  <2> HIDE DEF body
  <2> QED BY <1>4
<1> HIDE DEF f
<1> QED BY <1>5 DEF AreProps

LEMMA PropsFromType ==
  ASSUME dtb \in Seq(Tokens), NEW i \in 1..(Len(dtb) + 1)
  PROVE  PropsFrom(i) \in Seq(Props)
<1> DEFINE stops == {j \in i..Len(dtb) : dtb[j].type \notin {"prop", "nop"}}
           stop == IF stops = {} THEN Len(dtb) + 1
                   ELSE CHOOSE j \in stops : \A k \in stops : j <= k
<1>0. Len(dtb) \in Nat /\ (\A k \in 1..Len(dtb) : dtb[k] \in Tokens) /\ <<>> \in Seq(Props)
  BY LenProperties, ElementOfSeq, EmptySeq
<1>1. stop \in i..(Len(dtb) + 1)
  <2>1. CASE stops = {}
    BY <1>0, <2>1
  <2>2. CASE stops # {}
    <3>1. stops \in SUBSET Nat
      BY <1>0
    <3>2. \E j \in stops : \A k \in stops : j <= k
      BY <2>2, <3>1, LeastOf
    <3>3. stop \in stops
      BY <2>2, <3>2
    <3>4. stop \in i..Len(dtb)
      BY <3>3
    <3> HIDE DEF stop
    <3> QED BY <1>0, <3>4
  <2> QED BY <2>1, <2>2
<1>2. PICK z : z = stop
  OBVIOUS
<1>3. PICK f : AreProps(f, i, z) /\ PropsFrom(i) = f[z]
  <2>1. \E f : AreProps(f, i, stop)
    <3> HIDE DEF stop
    <3> QED BY <1>1, PropsExist
  <2> DEFINE c == CHOOSE f : f = [j \in i..stop |->
                               IF j = i THEN <<>>
                               ELSE IF dtb[j - 1].type = "prop" THEN Append(f[j - 1], dtb[j - 1])
                                    ELSE f[j - 1]]
  <2>2. PropsFrom(i) = c[stop]
    BY DEF PropsFrom
  <2> HIDE DEF stop
  <2>3. AreProps(c, i, stop)
    BY <2>1 DEF AreProps
  <2> HIDE DEF c
  <2>4. AreProps(c, i, z) /\ PropsFrom(i) = c[z]
    BY <1>2, <2>2, <2>3
  <2> QED BY <2>4
<1> HIDE DEF stop
<1> DEFINE bad == {j \in i..z : f[j] \notin Seq(Props)}
<1>4. bad = {}
  <2> SUFFICES ASSUME bad # {} PROVE FALSE
    OBVIOUS
  <2>1. bad \in SUBSET Nat
    BY <1>0, <1>1, <1>2
  <2>2. PICK j \in bad : \A k \in bad : j <= k
    BY <2>1, LeastOf
  <2>3. j \in i..z /\ f[j] \notin Seq(Props)
    BY <2>2
  <2>4. f[j] = IF j = i THEN <<>>
               ELSE IF dtb[j - 1].type = "prop" THEN Append(f[j - 1], dtb[j - 1]) ELSE f[j - 1]
    BY <1>3, <2>3 DEF AreProps
  <2>5. CASE j = i
    BY <1>0, <2>3, <2>4, <2>5
  <2>6. CASE j # i
    <3>1. j - 1 \in i..z /\ j - 1 \in 1..Len(dtb) /\ j - 1 < j
      BY <1>0, <1>1, <1>2, <2>3, <2>6
    <3>2. j - 1 \notin bad
      <4> HIDE DEF bad
      <4>1. j \in Int /\ j - 1 \in Int
        BY <1>0, <2>3
      <4> QED BY <2>2, <3>1, <4>1
    <3>3. f[j - 1] \in Seq(Props) /\ dtb[j - 1] \in Tokens
      BY <1>0, <3>1, <3>2
    <3>4. WithToken(f[j - 1], dtb[j - 1]) \in Seq(Props)
      BY <3>3, WithTokenType
    <3> QED BY <2>3, <2>4, <2>6, <3>4 DEF WithToken
  <2> QED BY <2>5, <2>6
<1>5. z \in i..z
  BY <1>0, <1>1, <1>2
<1> QED BY <1>3, <1>4, <1>5

-----------------------------------------------------------------------------
(* The walk.                                                               *)

FrameSet == [cells : CellCounts, go : BOOLEAN, inProps : BOOLEAN]

(* The last element of a sequence, and what is in front of it.             *)
LEMMA LastOf ==
  ASSUME NEW S, NEW s \in Seq(S), s # <<>>
  PROVE  /\ Last(s) \in S /\ Front(s) \in Seq(S) /\ Len(s) \in Nat \ {0}
<1>1. Len(s) \in Nat \ {0}
  BY EmptySeq, LenProperties
<1>2. Last(s) \in S
  BY <1>1, ElementOfSeq DEF Last
<1>3. Front(s) \in Seq(S)
  <2>1. \A i \in 1..(Len(s) - 1) : s[i] \in S
    <3> TAKE i \in 1..(Len(s) - 1)
    <3>1. i \in 1..Len(s)
      BY <1>1
    <3> QED BY <3>1, ElementOfSeq
  <2> QED BY <2>1, <1>1, SubSeqProperties DEF Front
<1> QED BY <1>1, <1>2, <1>3

LEMMA LastAppended ==
  ASSUME NEW S, NEW s \in Seq(S), NEW e \in S
  PROVE  /\ Append(s, e) \in Seq(S) /\ Append(s, e) # s /\ Last(Append(s, e)) = e
<1>1. /\ Append(s, e) \in Seq(S) /\ Len(Append(s, e)) = Len(s) + 1
      /\ Append(s, e)[Len(s) + 1] = e
  BY AppendProperties
<1>2. Len(s) \in Nat
  BY LenProperties
<1> QED BY <1>1, <1>2 DEF Last

LEMMA TokensReadAtFirst ==
  ASSUME DtbInit
  PROVE  TokensRead
<1>1. PICK t \in Trees : dtb = Stream(t)
  BY DEF DtbInit
<1>2. dtb \in Seq(Tokens)
  BY <1>1, TreesAssumption DEF Tokens
<1>3. \A p \in Props : /\ p.cells \in Seq(Nat)
                       /\ p.name \in {"#address-cells", "#size-cells"} => p.cells # <<>>
  BY <1>1, TreesAssumption DEF Tokens, Props
<1>4. frames \in Seq(FrameSet) /\ handed \in Seq(NodeSet) /\ src \in Nat \ {0}
  BY EmptySeq DEF DtbInit
<1> QED BY <1>2, <1>3, <1>4 DEF TokensRead, FrameSet

LEMMA TokensStay ==
  ASSUME dtb' = dtb
  PROVE  Tokens' = Tokens /\ Props' = Props /\ NodeSet' = NodeSet
<1>1. Tokens' = Tokens
  BY DEF Tokens
<1>2. Props' = Props
  BY <1>1 DEF Props
<1> QED BY <1>1, <1>2 DEF NodeSet

LEMMA TokenRead ==
  ASSUME TokensRead, More
  PROVE  dtb[src] \in Tokens /\ src \in 1..Len(dtb) /\ src + 1 \in 1..(Len(dtb) + 1)
<1>1. Len(dtb) \in Nat /\ src \in Nat \ {0} /\ src <= Len(dtb)
  BY LenProperties DEF TokensRead, More
<1>2. src \in 1..Len(dtb) /\ src + 1 \in 1..(Len(dtb) + 1)
  BY <1>1
<1> QED BY <1>2, ElementOfSeq DEF TokensRead

LEMMA CellsSeenType ==
  ASSUME TokensRead, NEW c \in CellCounts, NEW prop \in Props
  PROVE  CellsSeen(c, prop) \in CellCounts
<1>1. CASE prop.name \in {"#address-cells", "#size-cells"}
  <2>1. prop.cells \in Seq(Nat) /\ prop.cells # <<>>
    BY <1>1 DEF TokensRead
  <2>2. 1 \in 1..Len(prop.cells)
    BY <2>1, EmptySeq, LenProperties
  <2>3. PICK n \in Nat : n = prop.cells[1]
    BY <2>1, <2>2, ElementOfSeq
  <2>4. [c EXCEPT !.addr = n] \in CellCounts /\ [c EXCEPT !.size = n] \in CellCounts
    BY DEF CellCounts
  <2>5. CASE prop.name = "#address-cells"
    BY <2>3, <2>4, <2>5 DEF CellsSeen
  <2>6. CASE prop.name = "#size-cells"
    BY <2>3, <2>4, <2>6 DEF CellsSeen
  <2> QED BY <1>1, <2>5, <2>6
<1>2. CASE prop.name \notin {"#address-cells", "#size-cells"}
  BY <1>2 DEF CellsSeen
<1> QED BY <1>1, <1>2

LEMMA OwnCellsType ==
  ASSUME TokensRead
  PROVE  OwnCells \in CellCounts /\ Offered \in BOOLEAN
<1>1. CASE frames = <<>>
  BY <1>1 DEF OwnCells, Offered, DefaultCells, Cells, CellCounts
<1>2. CASE frames # <<>>
  <2>1. Top \in FrameSet
    BY <1>2, LastOf DEF TokensRead, Top, FrameSet
  <2> QED BY <1>2, <2>1 DEF OwnCells, Offered, FrameSet
<1> QED BY <1>1, <1>2

LEMMA TopReplaced ==
  ASSUME TokensRead, frames # <<>>, NEW f \in FrameSet
  PROVE  Front(frames) \o <<f>> \in Seq(FrameSet)
<1>1. Front(frames) \in Seq(FrameSet)
  BY LastOf DEF TokensRead, FrameSet
<1>2. <<f>> \in Seq(FrameSet)
  OBVIOUS
<1> QED BY <1>1, <1>2, ConcatProperties

LEMMA BeginReads ==
  ASSUME TokensRead, BeginNode
  PROVE  TokensRead' /\ (handed' # handed => Last(handed') \in NodeSet)
<1> DEFINE name == dtb[src].name
           node == [name |-> name, cells |-> OwnCells, props |-> PropsFrom(src + 1)]
           above == IF frames = <<>> THEN <<>>
                    ELSE Front(frames) \o <<[Top EXCEPT !.inProps = FALSE]>>
<1>1. dtb' = dtb /\ More
  BY DEF BeginNode, At
<1>2. dtb[src] \in Tokens /\ src + 1 \in 1..(Len(dtb) + 1)
  BY <1>1, TokenRead
<1>3. node \in NodeSet
  <2>1. dtb \in Seq(Tokens)
    BY DEF TokensRead
  <2>2. PropsFrom(src + 1) \in Seq(Props)
    BY <1>2, <2>1, PropsFromType
  <2> QED BY <1>2, <2>2, OwnCellsType DEF NodeSet
<1>4. above \in Seq(FrameSet)
  <2>1. CASE frames = <<>>
    BY <2>1, EmptySeq
  <2>2. CASE frames # <<>>
    <3>1. Top \in FrameSet
      BY <2>2, LastOf DEF TokensRead, Top, FrameSet
    <3>2. [Top EXCEPT !.inProps = FALSE] \in FrameSet
      BY <3>1 DEF FrameSet
    <3> QED BY <2>2, <3>2, TopReplaced
  <2> QED BY <2>1, <2>2
<1>5. Opened(name) \in FrameSet
  BY OwnCellsType DEF Opened, FrameSet, DefaultCells, Cells, CellCounts
<1>6. frames' = Append(above, Opened(name)) \/ frames' = frames
  BY DEF BeginNode
<1>7. frames' \in Seq(FrameSet)
  <2> HIDE DEF above
  <2>1. frames \in Seq(FrameSet)
    BY DEF TokensRead, FrameSet
  <2> QED BY <1>4, <1>5, <1>6, <2>1, AppendProperties
<1>8. handed' = Append(handed, node) \/ handed' = handed
  BY DEF BeginNode
<1>9. handed' \in Seq(NodeSet) /\ (handed' # handed => Last(handed') \in NodeSet)
  <2> HIDE DEF node
  <2>1. handed \in Seq(NodeSet)
    BY DEF TokensRead
  <2>2. PICK n \in NodeSet : n = node
    BY <1>3
  <2>3. PICK h : h = Append(handed, n)
    OBVIOUS
  <2>4. h \in Seq(NodeSet) /\ Last(h) = n
    BY <2>1, <2>3, LastAppended
  <2>5. handed' = h \/ handed' = handed
    BY <1>8, <2>2, <2>3
  <2> QED BY <2>1, <2>4, <2>5
<1>10. src' \in Nat \ {0}
  BY DEF BeginNode, TokensRead
<1> QED BY <1>1, <1>7, <1>9, <1>10, TokensStay DEF TokensRead, FrameSet

(* A step of the walk reads the tokens as they are written.                *)
LEMMA TokensReadStays ==
  ASSUME TokensRead, DtbNext
  PROVE  TokensRead' /\ (handed' # handed => Last(handed') \in NodeSet)
<1>0. frames \in Seq(FrameSet)
  BY DEF TokensRead, FrameSet
<1>1. CASE SkipNop
  <2>1. dtb' = dtb /\ frames' = frames /\ handed' = handed /\ src' \in Nat \ {0}
    BY <1>1 DEF SkipNop, TokensRead
  <2> QED BY <2>1, TokensStay DEF TokensRead
<1>2. CASE BeginNode
  BY <1>2, BeginReads
<1>3. CASE ReadProp
  <2>1. dtb' = dtb /\ handed' = handed /\ src' \in Nat \ {0} /\ frames # <<>>
        /\ frames' = Front(frames) \o <<[Top EXCEPT !.cells = CellsSeen(@, dtb[src])]>>
        /\ More /\ dtb[src].type = "prop"
    BY <1>3 DEF ReadProp, TokensRead, At
  <2>2. Top \in FrameSet
    BY <1>0, <2>1, LastOf DEF Top
  <2>3. dtb[src] \in Props
    BY <2>1, TokenRead DEF Props
  <2>4. CellsSeen(Top.cells, dtb[src]) \in CellCounts
    BY <2>2, <2>3, CellsSeenType DEF FrameSet
  <2>5. [Top EXCEPT !.cells = CellsSeen(Top.cells, dtb[src])] \in FrameSet
    BY <2>2, <2>4 DEF FrameSet
  <2>6. frames' \in Seq(FrameSet)
    BY <2>1, <2>5, TopReplaced
  <2> QED BY <2>1, <2>6, TokensStay DEF TokensRead, FrameSet
<1>4. CASE CloseNode
  <2>1. dtb' = dtb /\ handed' = handed /\ src' \in Nat \ {0}
        /\ frames # <<>> /\ frames' = Front(frames)
    BY <1>4 DEF CloseNode, TokensRead
  <2>2. frames' \in Seq(FrameSet)
    BY <1>0, <2>1, LastOf
  <2> QED BY <2>1, <2>2, TokensStay DEF TokensRead, FrameSet
<1>5. CASE UnexpectedEnd
  <2>1. dtb' = dtb /\ handed' = handed /\ src' = src /\ frames' = <<>>
    BY <1>5 DEF UnexpectedEnd
  <2>2. frames' \in Seq(FrameSet)
    BY <2>1, EmptySeq
  <2> QED BY <2>1, <2>2, TokensStay DEF TokensRead, FrameSet
<1> QED BY <1>1, <1>2, <1>3, <1>4, <1>5 DEF DtbNext

-----------------------------------------------------------------------------
(* Block sizes.                                                            *)

LEMMA BlockSizesDef ==
  BlockSizes = [bit \in Nat |-> IF bit = 0 THEN 1 ELSE 2 * BlockSizes[bit - 1]]
<1>1. PICK g \in [Nat -> [Nat -> Nat]] : \A n, s \in Nat : g[n][s] = 2 * s
  <2>1. [n \in Nat |-> [s \in Nat |-> 2 * s]] \in [Nat -> [Nat -> Nat]]
    OBVIOUS
  <2> QED BY <2>1
<1>2. PICK f \in [Nat -> Nat] : f[0] = 1 /\ \A n \in Nat : f[n + 1] = g[n][f[n]]
  <2>1. \E f : IsIterate(f, Nat, 1, g)
    BY Iterates
  <2> QED BY <2>1 DEF IsIterate
<1>3. ASSUME NEW n \in Nat PROVE f[n + 1] = 2 * f[n]
  <2>1. f[n] \in Nat
    BY <1>2
  <2> QED BY <1>1, <1>2, <2>1
<1>4. f = [bit \in Nat |-> IF bit = 0 THEN 1 ELSE 2 * f[bit - 1]]
  <2>1. ASSUME NEW n \in Nat, n # 0 PROVE f[n] = 2 * f[n - 1]
    <3>1. n - 1 \in Nat /\ n - 1 + 1 = n
      BY <2>1
    <3> QED BY <1>3, <3>1
  <2> QED BY <1>2, <2>1
<1> QED BY <1>4 DEF BlockSizes

(* A block size is a power of two.                                         *)
LEMMA BlockSizeType ==
  /\ BlockSize(0) = 1
  /\ \A b \in Nat : BlockSize(b) \in Nat \ {0} /\ BlockSize(b + 1) = 2 * BlockSize(b)
<1>1. BlockSizes[0] = 1
  BY BlockSizesDef
<1>2. \A b \in Nat : BlockSizes[b + 1] = 2 * BlockSizes[b]
  <2> TAKE b \in Nat
  <2>1. b + 1 \in Nat /\ b + 1 # 0 /\ b + 1 - 1 = b
    OBVIOUS
  <2> QED BY <2>1, BlockSizesDef
<1>3. \A b \in Nat : BlockSizes[b] \in Nat \ {0}
  <2> DEFINE bad == {b \in Nat : BlockSizes[b] \notin Nat \ {0}}
  <2> SUFFICES ASSUME bad # {} PROVE FALSE
    OBVIOUS
  <2>1. bad \in SUBSET Nat
    OBVIOUS
  <2>2. PICK b \in bad : \A j \in bad : b <= j
    BY <2>1, LeastOf
  <2>3. b # 0
    BY <1>1, <2>2
  <2>4. b - 1 \in Nat /\ b - 1 \notin bad /\ b - 1 + 1 = b
    BY <2>2, <2>3
  <2>5. BlockSizes[b] = 2 * BlockSizes[b - 1] /\ BlockSizes[b - 1] \in Nat \ {0}
    BY <1>2, <2>4
  <2> QED BY <2>2, <2>5
<1> QED BY <1>1, <1>2, <1>3 DEF BlockSize

-----------------------------------------------------------------------------
(* Types.                                                                  *)

Typed == TokensRead /\ BootTypes /\ Phases

LEMMA DtbStays ==
  ASSUME TokensRead, UNCHANGED dtbVars
  PROVE  TokensRead'
<1>1. dtb' = dtb /\ src' = src /\ frames' = frames /\ handed' = handed
  BY DEF dtbVars
<1> QED BY <1>1, TokensStay DEF TokensRead

LEMMA DtbRegionType == DtbRegion \in RegionSet
<1>1. DtbStart \in Nat /\ RoundUp(DtbLength) \in Nat
  BY BootAssumption, RoundUpType
<1> QED BY <1>1, RegionType DEF DtbRegion

CallOf(r, device, index) == [region |-> r, device |-> device, index |-> index]

CallsFor(r, device, index) == IF r.start < r.end THEN <<CallOf(r, device, index)>> ELSE <<>>

LEMMA CallsAre ==
  ASSUME NEW pieces, NEW device, NEW index
  PROVE  Calls(pieces, device, index)
           = CallsFor(pieces[1], device, index) \o CallsFor(pieces[2], device, index)
BY DEF Calls, CallsFor, CallOf

LEMMA OneCallType ==
  ASSUME NEW r \in RegionSet, NEW device \in BOOLEAN, NEW index \in Nat \ {0}
  PROVE  <<CallOf(r, device, index)>> \in Seq(CallSet)
<1>1. CallOf(r, device, index) \in CallSet
  BY DEF CallOf, CallSet
<1> QED BY <1>1

LEMMA CallsForType ==
  ASSUME NEW r \in RegionSet, NEW device \in BOOLEAN, NEW index \in Nat \ {0}
  PROVE  CallsFor(r, device, index) \in Seq(CallSet)
BY OneCallType, EmptySeq DEF CallsFor

LEMMA CallsType ==
  ASSUME NEW a \in RegionSet, NEW b \in RegionSet,
         NEW device \in BOOLEAN, NEW index \in Nat \ {0}
  PROVE  Calls(SubtractRegion(a, b), device, index) \in Seq(CallSet)
<1>1. PICK p, q \in RegionSet : p = SubtractRegion(a, b)[1] /\ q = SubtractRegion(a, b)[2]
  BY PieceTypes
<1>2. Calls(SubtractRegion(a, b), device, index)
        = CallsFor(p, device, index) \o CallsFor(q, device, index)
  BY <1>1, CallsAre
<1>3. CallsFor(p, device, index) \in Seq(CallSet) /\ CallsFor(q, device, index) \in Seq(CallSet)
  BY CallsForType
<1> QED BY <1>2, <1>3, ConcatProperties

LEMMA LimitType == \A kind \in Kinds : Limit(kind) \in Nat
BY BootAssumption DEF Limit, Kinds

LEMMA KindOfType ==
  ASSUME NEW name
  PROVE  KindOf(name) \in Kinds
BY DEF KindOf, Kinds

LEMMA PageCountType ==
  ASSUME BootTypes
  PROVE  PageCount \in Nat /\ pages[1] \in Nat /\ pages[2] \in 0..N /\ pages[3] \in Nat
<1>1. pages[1] \in Nat /\ pages[2] \in 0..N /\ pages[3] \in Nat
  BY DEF BootTypes
<1>2. pages[2] \in Nat
  BY <1>1
<1> QED BY <1>1, <1>2 DEF PageCount

(* The state in which the walk begins.                                     *)
LEMMA TypedAtFirst ==
  ASSUME BootInit
  PROVE  Typed
<1>1. TokensRead
  BY TokensReadAtFirst DEF BootInit
<1>2. <<KernelRegion, PayloadRegion, StackRegion>> \in Seq(RegionSet)
      /\ Len(<<KernelRegion, PayloadRegion, StackRegion>>) = 3
  BY BootAssumption
<1>3. regions \in [Kinds -> Seq(RegionSet)]
  BY <1>2, EmptySeq DEF BootInit
<1>4. \A kind \in Kinds : Len(regions[kind]) <= Limit(kind)
  <2> TAKE kind \in Kinds
  <2>1. CASE kind = "reserved"
    <3>1. regions[kind] = <<KernelRegion, PayloadRegion, StackRegion>>
      BY <2>1 DEF BootInit, Kinds
    <3>2. Limit(kind) = MaxReserved
      BY <2>1 DEF Limit
    <3> QED BY <1>2, <3>1, <3>2, BootAssumption
  <2>2. CASE kind # "reserved"
    <3>1. regions[kind] = <<>>
      BY <2>2 DEF BootInit
    <3> QED BY <3>1, EmptySeq, LimitType
  <2> QED BY <2>1, <2>2
<1>5. /\ phase = "walk" /\ taken = 0 /\ work = <<>> /\ split = Nil /\ caps = <<>>
      /\ pages \in Nat \X (0..N) \X Nat
      /\ tables \in [{"payload", "stack"} -> [0..(N - 1) -> Nat \cup {Nil}]]
  BY BootAssumption DEF BootInit
<1>6. BootTypes
  BY <1>3, <1>4, <1>5, EmptySeq DEF BootTypes
<1>7. Phases
  BY <1>5 DEF Phases
<1> QED BY <1>1, <1>6, <1>7 DEF Typed

LEMMA WalkTyped ==
  ASSUME Typed, Walk
  PROVE  Typed'
<1>1. TokensRead' /\ (handed' # handed => Last(handed') \in NodeSet)
  BY TokensReadStays DEF Typed, Walk
<1>2. phase = "walk" /\ UNCHANGED <<taken, work, split, caps, pages, tables>>
  BY DEF Walk
<1>3. CASE handed' = handed
  <2>1. UNCHANGED <<phase, regions>>
    BY <1>3 DEF Walk
  <2> QED BY <1>1, <1>2, <2>1 DEF Typed, BootTypes, Phases, PageCount
<1>4. CASE handed' # handed
  <2>1. PICK node \in NodeSet : node = Last(handed')
    BY <1>1, <1>4
  <2>2. PICK more \in Seq(RegionSet) : more = NodeRegions(node)
    BY NodeRegionsType DEF Typed
  <2>3. PICK kind \in Kinds : kind = KindOf(node.name)
    BY KindOfType
  <2>4. IF Len(regions[kind]) + Len(more) > Limit(kind)
        THEN phase' = "halted" /\ UNCHANGED regions
        ELSE regions' = [regions EXCEPT ![kind] = @ \o more] /\ UNCHANGED phase
    BY <1>4, <2>1, <2>2, <2>3 DEF Walk
  <2>5. CASE phase' = "halted" /\ UNCHANGED regions
    BY <1>1, <1>2, <2>5 DEF Typed, BootTypes, Phases
  <2>6. CASE /\ ~(Len(regions[kind]) + Len(more) > Limit(kind))
             /\ regions' = [regions EXCEPT ![kind] = @ \o more] /\ UNCHANGED phase
    <3>1. regions[kind] \in Seq(RegionSet)
      BY DEF Typed, BootTypes
    <3>2. regions[kind] \o more \in Seq(RegionSet)
          /\ Len(regions[kind] \o more) = Len(regions[kind]) + Len(more)
      BY <3>1, ConcatProperties
    <3>3. Len(regions[kind]) \in Nat /\ Len(more) \in Nat /\ Limit(kind) \in Nat
      BY <3>1, LenProperties, LimitType
    <3>4. Len(regions[kind] \o more) <= Limit(kind)
      BY <2>6, <3>2, <3>3
    <3>5. regions' \in [Kinds -> Seq(RegionSet)]
      BY <2>6, <3>2 DEF Typed, BootTypes
    <3>6. \A k \in Kinds : Len(regions'[k]) <= Limit(k)
      BY <2>6, <3>4 DEF Typed, BootTypes
    <3> QED BY <1>1, <1>2, <2>6, <3>5, <3>6 DEF Typed, BootTypes, Phases
  <2> QED BY <2>4, <2>5, <2>6
<1> QED BY <1>3, <1>4

LEMMA WalkEndsTyped ==
  ASSUME Typed, WalkEnds
  PROVE  Typed'
<1>1. TokensRead'
  BY DtbStays DEF Typed, WalkEnds
<1>2. /\ phase = "walk" /\ phase' \in {"memory", "halted"}
      /\ UNCHANGED <<regions, taken, work, split, caps, pages, tables>>
  BY DEF WalkEnds
<1>3. BootTypes'
  BY <1>2 DEF Typed, BootTypes
<1>4. Phases'
  <2>1. taken = 0
    BY <1>2 DEF Typed, Phases
  <2>2. Len(regions["memory"]) \in Nat
    BY LenProperties DEF Typed, BootTypes, Kinds
  <2> QED BY <1>2, <2>1, <2>2 DEF Phases
<1> QED BY <1>1, <1>3, <1>4 DEF Typed

LEMMA TakeMemoryTyped ==
  ASSUME Typed, TakeMemory
  PROVE  Typed'
<1>1. TokensRead'
  BY DtbStays DEF Typed, TakeMemory
<1>2. /\ phase = "memory" /\ work = <<>> /\ split = Nil
      /\ UNCHANGED <<regions, split, caps, pages, tables>>
  BY DEF TakeMemory, Idle
<1>3. regions["memory"] \in Seq(RegionSet) /\ regions["device"] \in Seq(RegionSet)
  BY DEF Typed, BootTypes, Kinds
<1>4. Len(regions["memory"]) \in Nat /\ Len(regions["device"]) \in Nat /\ taken \in Nat
  BY <1>3, LenProperties DEF Typed, BootTypes
<1>5. CASE taken < Len(regions["memory"])
  <2>1. PICK a \in RegionSet : a = regions["memory"][taken + 1]
    <3>1. taken + 1 \in 1..Len(regions["memory"])
      BY <1>4, <1>5
    <3> QED BY <1>3, <3>1, ElementOfSeq
  <2>2. taken' = taken + 1 /\ phase' = phase
    BY <1>5 DEF TakeMemory
  <2>3. work' \in Seq(CallSet)
    <3>1. 1 \in Nat \ {0} /\ FALSE \in BOOLEAN
      OBVIOUS
    <3>2. Calls(SubtractRegion(a, DtbRegion), FALSE, 1) \in Seq(CallSet)
      BY <3>1, DtbRegionType, CallsType, Zenon
    <3> QED BY <1>5, <2>1, <3>2 DEF TakeMemory
  <2>4. BootTypes'
    BY <1>2, <1>4, <2>2, <2>3 DEF Typed, BootTypes
  <2>5. Phases'
    BY <1>2, <1>4, <1>5, <2>2 DEF Phases
  <2> QED BY <1>1, <2>4, <2>5 DEF Typed
<1>6. CASE ~(taken < Len(regions["memory"]))
  <2>1. taken' = 0 /\ phase' = "device" /\ work' = work
    BY <1>6 DEF TakeMemory
  <2>2. BootTypes'
    BY <1>2, <2>1 DEF Typed, BootTypes
  <2>3. Phases'
    BY <1>2, <1>4, <2>1 DEF Phases
  <2> QED BY <1>1, <2>2, <2>3 DEF Typed
<1> QED BY <1>5, <1>6

LEMMA TakeDeviceTyped ==
  ASSUME Typed, TakeDevice
  PROVE  Typed'
<1>1. TokensRead'
  BY DtbStays DEF Typed, TakeDevice
<1>2. /\ phase = "device" /\ work = <<>> /\ split = Nil
      /\ UNCHANGED <<regions, split, caps, pages, tables>>
  BY DEF TakeDevice, Idle
<1>3. regions["device"] \in Seq(RegionSet)
  BY DEF Typed, BootTypes, Kinds
<1>4. Len(regions["device"]) \in Nat /\ taken \in Nat
  BY <1>3, LenProperties DEF Typed, BootTypes
<1>5. CASE taken < Len(regions["device"])
  <2>1. PICK a \in RegionSet : a = regions["device"][taken + 1]
    <3>1. taken + 1 \in 1..Len(regions["device"])
      BY <1>4, <1>5
    <3> QED BY <1>3, <3>1, ElementOfSeq
  <2>2. taken' = taken + 1 /\ phase' = phase
    BY <1>5 DEF TakeDevice
  <2>3. work' \in Seq(CallSet)
    <3>1. 1 \in Nat \ {0} /\ TRUE \in BOOLEAN
      OBVIOUS
    <3>2. <<CallOf(a, TRUE, 1)>> \in Seq(CallSet)
      BY <3>1, OneCallType, Zenon
    <3>3. work' = <<CallOf(a, TRUE, 1)>>
      BY <1>5, <2>1 DEF TakeDevice, CallOf
    <3> QED BY <3>2, <3>3
  <2>4. BootTypes'
    BY <1>2, <1>4, <2>2, <2>3 DEF Typed, BootTypes
  <2>5. Phases'
    BY <1>2, <1>4, <1>5, <2>2 DEF Phases
  <2> QED BY <1>1, <2>4, <2>5 DEF Typed
<1>6. CASE ~(taken < Len(regions["device"]))
  <2>1. taken' = 0 /\ phase' = "map" /\ work' = work
    BY <1>6 DEF TakeDevice
  <2>2. BootTypes'
    BY <1>2, <2>1 DEF Typed, BootTypes
  <2>3. PageCount' \in Nat
    BY <2>2, PageCountType, <1>2 DEF Typed, PageCount
  <2>4. Phases'
    BY <1>2, <2>1, <2>3 DEF Phases
  <2> QED BY <1>1, <2>2, <2>4 DEF Typed
<1> QED BY <1>5, <1>6

LEMMA WorkType ==
  ASSUME BootTypes, work # <<>>
  PROVE  /\ Head(work) \in CallSet /\ Tail(work) \in Seq(CallSet)
         /\ Head(work).region \in RegionSet /\ Head(work).device \in BOOLEAN
         /\ Head(work).index \in Nat \ {0}
<1>1. Head(work) \in CallSet /\ Tail(work) \in Seq(CallSet)
  BY HeadTailProperties DEF BootTypes
<1> QED BY <1>1 DEF CallSet

(* While there is work, or a region is being cut up, memory or devices are *)
(* handed out.                                                             *)
LEMMA Working ==
  ASSUME Typed, work # <<>> \/ split # Nil
  PROVE  phase \in {"memory", "device", "halted"}
BY DEF Typed, BootTypes, Phases

LEMMA CallTyped ==
  ASSUME Typed, Call
  PROVE  Typed'
<1>1. TokensRead'
  BY DtbStays DEF Typed, Call
<1>2. /\ work # <<>> /\ split = Nil
      /\ UNCHANGED <<phase, regions, taken, caps, pages, tables>>
  BY DEF Call
<1>3. PICK r \in RegionSet, device \in BOOLEAN, index \in Nat \ {0} :
        r = Head(work).region /\ device = Head(work).device /\ index = Head(work).index
  BY <1>2, WorkType DEF Typed
<1>4. Tail(work) \in Seq(CallSet) /\ work \in Seq(CallSet) /\ split \in SplitSet \cup {Nil}
  BY <1>2, WorkType DEF Typed, BootTypes
<1>5. work' \in Seq(CallSet) /\ split' \in SplitSet \cup {Nil}
  <2>1. CASE r.start >= r.end \/ r.start = 0
    BY <1>3, <1>4, <2>1 DEF Call
  <2>2. CASE /\ ~(r.start >= r.end \/ r.start = 0)
             /\ index <= Len(regions["reserved"])
    <3>1. index \in 1..Len(regions["reserved"]) /\ regions["reserved"] \in Seq(RegionSet)
      <4>1. regions["reserved"] \in Seq(RegionSet)
        BY DEF Typed, BootTypes, Kinds
      <4>2. Len(regions["reserved"]) \in Nat
        BY <4>1, LenProperties
      <4> QED BY <2>2, <4>1, <4>2
    <3>2. PICK b \in RegionSet : b = regions["reserved"][index]
      BY <3>1, ElementOfSeq
    <3>3. PICK j \in Nat \ {0} : j = index + 1
      OBVIOUS
    <3>4. work' = Calls(SubtractRegion(r, b), device, j) \o Tail(work) /\ split' = split
      BY <1>3, <2>2, <3>2, <3>3 DEF Call
    <3>5. Calls(SubtractRegion(r, b), device, j) \in Seq(CallSet)
      BY CallsType
    <3> QED BY <1>4, <3>4, <3>5, ConcatProperties
  <2>3. CASE /\ ~(r.start >= r.end \/ r.start = 0)
             /\ ~(index <= Len(regions["reserved"]))
    <3>1. /\ work' = Tail(work)
          /\ split' = [start |-> r.start, end |-> r.end, device |-> device, bit |-> 0, up |-> TRUE]
      BY <1>3, <2>3 DEF Call, FirstBit
    <3>2. r.start \in Nat /\ r.end \in Nat
      BY RegionFields
    <3> QED BY <1>4, <3>1, <3>2 DEF SplitSet
  <2> QED BY <2>1, <2>2, <2>3
<1>6. phase \in {"memory", "device", "halted"}
  BY <1>2, Working
<1> QED BY <1>1, <1>2, <1>5, <1>6 DEF Typed, BootTypes, Phases

-----------------------------------------------------------------------------
(* Cutting up.                                                             *)

LEMMA SplitFields ==
  ASSUME BootTypes, split # Nil
  PROVE  /\ split \in SplitSet
         /\ split.start \in Nat /\ split.end \in Nat /\ split.bit \in Nat
         /\ split.device \in BOOLEAN /\ split.up \in BOOLEAN
         /\ BlockSize(split.bit) \in Nat \ {0}
<1>1. split \in SplitSet
  BY DEF BootTypes
<1>2. split.bit \in Nat
  BY <1>1 DEF SplitSet
<1> QED BY <1>1, <1>2, BlockSizeType DEF SplitSet

SplitIsNotNil == \A s \in SplitSet : s # Nil

LEMMA NilIsNoSplit == SplitIsNotNil
BY BootAssumption DEF SplitIsNotNil

CutCap == [base |-> split.start, size |-> BlockSize(split.bit), device |-> split.device]

CutSplit(bit) == [split EXCEPT !.start = @ + BlockSize(split.bit), !.bit = bit]

(* A block is cut off and handed out.                                      *)
CutOff(bit) ==
  /\ phase' = phase
  /\ caps' = Append(caps, CutCap) /\ Len(caps) < MaxCaps
  /\ split' = CutSplit(bit)

LEMMA EmitCuts ==
  ASSUME NEW bit \in Nat, Emit(bit)
  PROVE  CutOff(bit) \/ (phase' = "halted" /\ caps' = caps /\ split' = split)
BY DEF Emit, CutOff, CutCap, CutSplit

(* What one round of the loops does.                                       *)
Cut ==
  /\ split # Nil /\ split.start < split.end /\ phase # "halted"
  /\ UNCHANGED <<dtbVars, regions, taken, work, pages, tables>>
  /\ \/ phase' = "halted" /\ caps' = caps /\ split' = split
     \/ /\ split.start + BlockSize(split.bit) <= split.end
        /\ CutOff(split.bit)
     \/ /\ split.start + BlockSize(split.bit) <= split.end
        /\ (split.start \div BlockSize(split.bit)) % 2 = 1
        /\ CutOff(split.bit + 1)
     \/ /\ phase' = phase /\ caps' = caps
        /\ \/ split' = [split EXCEPT !.up = FALSE]
           \/ /\ (split.start \div BlockSize(split.bit)) % 2 # 1
              /\ split' = [split EXCEPT !.bit = @ + 1]
           \/ /\ split.bit # 0
              /\ split' = [split EXCEPT !.bit = @ - 1]

LEMMA BlockHeld ==
  ASSUME NEW s \in Nat, NEW e \in Nat, s < e, NEW b \in Nat
  PROVE  /\ Holds(e - s, b) <=> s + BlockSize(b) <= e
         /\ ~Holds(e - s, b) => b # 0
<1>1. PICK l \in Nat \ {0}, z \in Nat : l = e - s /\ z = BlockSize(b)
  <2>1. e - s \in Nat \ {0}
    OBVIOUS
  <2>2. BlockSize(b) \in Nat
    BY BlockSizeType
  <2> QED BY <2>1, <2>2
<1>2. l >= z <=> s + z <= e
  BY <1>1
<1>3. b = 0 => z = 1
  BY <1>1, BlockSizeType
<1> QED BY <1>1, <1>2, <1>3 DEF Holds

LEMMA GrowCuts ==
  ASSUME Typed, Grow
  PROVE  Cut
<1>1. /\ split # Nil /\ split.start < split.end /\ phase # "halted"
      /\ UNCHANGED <<dtbVars, regions, taken, work, pages, tables>>
  BY DEF Grow, Splitting
<1>2. PICK s \in Nat, e \in Nat, b \in Nat, z \in Nat :
        s = split.start /\ e = split.end /\ b = split.bit /\ z = BlockSize(b) /\ s < e
  BY <1>1, SplitFields DEF Typed
<1>3. CASE (s \div z) % 2 = 1 /\ Holds(e - s, b)
  <2>1. Emit(b + 1)
    BY <1>2, <1>3 DEF Grow, Left
  <2>2. CutOff(b + 1) \/ (phase' = "halted" /\ caps' = caps /\ split' = split)
    <3>1. PICK c \in Nat : c = b + 1
      OBVIOUS
    <3> QED BY <2>1, <3>1, EmitCuts
  <2>3. s + z <= e
    BY <1>2, <1>3, BlockHeld
  <2> QED BY <1>1, <1>2, <1>3, <2>2, <2>3 DEF Cut
<1>4. CASE (s \div z) % 2 = 1 /\ ~Holds(e - s, b)
  <2>1. split' = [split EXCEPT !.up = FALSE] /\ UNCHANGED <<caps, phase>>
    BY <1>2, <1>4 DEF Grow, Left
  <2> QED BY <1>1, <2>1 DEF Cut
<1>5. CASE ~((s \div z) % 2 = 1)
  <2>1. split' = [split EXCEPT !.bit = @ + 1] /\ UNCHANGED <<caps, phase>>
    BY <1>2, <1>5 DEF Grow
  <2> QED BY <1>1, <1>2, <1>5, <2>1 DEF Cut
<1> QED BY <1>3, <1>4, <1>5

LEMMA ShrinkCuts ==
  ASSUME Typed, Shrink
  PROVE  Cut
<1>1. /\ split # Nil /\ split.start < split.end /\ phase # "halted"
      /\ UNCHANGED <<dtbVars, regions, taken, work, pages, tables>>
  BY DEF Shrink, Splitting
<1>2. PICK s \in Nat, e \in Nat, b \in Nat, z \in Nat :
        s = split.start /\ e = split.end /\ b = split.bit /\ z = BlockSize(b) /\ s < e
  BY <1>1, SplitFields DEF Typed
<1>3. CASE Holds(e - s, b)
  <2>1. Emit(b)
    BY <1>2, <1>3 DEF Shrink, Left
  <2>2. CutOff(b) \/ (phase' = "halted" /\ caps' = caps /\ split' = split)
    BY <2>1, EmitCuts
  <2>3. s + z <= e
    BY <1>2, <1>3, BlockHeld
  <2> QED BY <1>1, <1>2, <2>2, <2>3 DEF Cut
<1>4. CASE ~Holds(e - s, b)
  <2>1. split' = [split EXCEPT !.bit = @ - 1] /\ UNCHANGED <<caps, phase>>
    BY <1>2, <1>4 DEF Shrink, Left, Smaller
  <2>2. b # 0
    BY <1>2, <1>4, BlockHeld
  <2> QED BY <1>1, <1>2, <2>1, <2>2 DEF Cut
<1> QED BY <1>3, <1>4

LEMMA CutCapType ==
  ASSUME BootTypes, split # Nil
  PROVE  CutCap \in CapSet
BY SplitFields DEF CutCap, CapSet

LEMMA CutKeepsSplit ==
  ASSUME Typed, Cut
  PROVE  split' \in SplitSet /\ split' # Nil
<1>2. split # Nil
  BY DEF Cut
<1>3. /\ split \in SplitSet /\ split.bit \in Nat /\ split.start \in Nat
      /\ BlockSize(split.bit) \in Nat
  BY <1>2, SplitFields DEF Typed
<1>4. ASSUME NEW b \in Nat
      PROVE  /\ CutSplit(b) \in SplitSet /\ [split EXCEPT !.bit = b] \in SplitSet
             /\ [split EXCEPT !.up = FALSE] \in SplitSet
  <2>1. PICK n \in Nat : n = split.start + BlockSize(split.bit)
    BY <1>3
  <2>2. CutSplit(b) = [split EXCEPT !.start = n, !.bit = b]
    BY <2>1 DEF CutSplit
  <2> QED BY <1>3, <2>2 DEF SplitSet
<1>5. split' \in SplitSet
  <2>1. split' \in {split, CutSplit(split.bit), CutSplit(split.bit + 1), [split EXCEPT !.up = FALSE],
                    [split EXCEPT !.bit = split.bit + 1]}
        \/ (split.bit # 0 /\ split' = [split EXCEPT !.bit = split.bit - 1])
    BY DEF Cut, CutOff
  <2>2. split.bit + 1 \in Nat /\ (split.bit # 0 => split.bit - 1 \in Nat)
    BY <1>3
  <2> QED BY <1>3, <1>4, <2>1, <2>2
<1> QED BY <1>5, NilIsNoSplit DEF SplitIsNotNil

LEMMA CutTyped ==
  ASSUME Typed, Cut
  PROVE  Typed'
<1>1. TokensRead'
  BY DtbStays DEF Typed, Cut
<1>2. split # Nil /\ phase \in {"memory", "device"}
  BY Working DEF Cut
<1>5. split' \in SplitSet
  BY CutKeepsSplit
<1>6. caps' \in Seq(CapSet)
  <2>1. caps' = caps \/ caps' = Append(caps, CutCap)
    BY DEF Cut, CutOff
  <2>2. caps \in Seq(CapSet) /\ CutCap \in CapSet
    BY <1>2, CutCapType DEF Typed, BootTypes
  <2> QED BY <2>1, <2>2, AppendProperties
<1>7. phase' \in {phase, "halted"} /\ UNCHANGED <<regions, taken, work, pages, tables>>
  BY DEF Cut, CutOff
<1>8. BootTypes'
  BY <1>2, <1>5, <1>6, <1>7 DEF Typed, BootTypes
<1>9. Phases'
  BY <1>2, <1>7 DEF Typed, Phases
<1> QED BY <1>1, <1>8, <1>9 DEF Typed

LEMMA SplitEndsTyped ==
  ASSUME Typed, SplitEnds
  PROVE  Typed'
<1>1. TokensRead'
  BY DtbStays DEF Typed, SplitEnds
<1>2. /\ split' = Nil /\ phase \in {"memory", "device", "halted"}
      /\ UNCHANGED <<phase, regions, taken, work, caps, pages, tables>>
  BY Working DEF SplitEnds
<1> QED BY <1>1, <1>2 DEF Typed, BootTypes, Phases

-----------------------------------------------------------------------------
(* The pages.                                                              *)

LEMMA BootPageType ==
  ASSUME BootTypes, NEW n \in Nat \ {0}
  PROVE  BootPage(n).area \in {"payload", "stack"} /\ BootPage(n).offset \in Nat
<1>1. PICK p \in Nat, s \in 0..N, m \in Nat \ {0} : p = pages[1] /\ s = pages[2] /\ m = N
  BY PageCountType, BootAssumption
<1>2. CASE n <= p
  BY <1>1, <1>2 DEF BootPage
<1>3. CASE n > p /\ n <= p + s
  <2>1. (m - s) + (n - p - 1) \in Nat
    BY <1>1, <1>3
  <2>2. BootPage(n) = [area |-> "stack", offset |-> (m - s) + (n - p - 1)]
    BY <1>1, <1>3 DEF BootPage
  <2> QED BY <2>1, <2>2
<1>4. CASE n > p /\ ~(n <= p + s)
  <2>1. n - s - 1 \in Nat
    BY <1>1, <1>4
  <2>2. BootPage(n) = [area |-> "payload", offset |-> n - s - 1]
    BY <1>1, <1>4 DEF BootPage
  <2> QED BY <2>1, <2>2
<1> QED BY <1>1, <1>2, <1>3, <1>4

(* A page of the stack lies in its table; a page behind the first one of   *)
(* the program lies behind another.                                        *)
LEMMA PageBehind ==
  ASSUME BootTypes, NEW n \in Nat \ {0}
  PROVE  \/ BootPage(n).offset < N
         \/ /\ BootPage(n).area = "payload"
            /\ \E k, l \in 1..(n - 1) :
                 /\ BootPage(k) = [area |-> "payload", offset |-> 0]
                 /\ BootPage(l) = [area |-> "payload", offset |-> BootPage(n).offset - 1]
<1>1. PICK p \in Nat, s \in 0..N, m \in Nat \ {0} : p = pages[1] /\ s = pages[2] /\ m = N
  BY PageCountType, BootAssumption
<1>2. CASE n <= p
  <2>1. BootPage(n) = [area |-> "payload", offset |-> n - 1]
    BY <1>1, <1>2 DEF BootPage
  <2>2. CASE n - 1 < m
    BY <1>1, <2>1, <2>2
  <2>3. CASE ~(n - 1 < m)
    <3>1. 1 \in 1..(n - 1) /\ n - 1 \in 1..(n - 1) /\ 1 <= p /\ n - 1 <= p /\ n - 1 - 1 = n - 2
      BY <1>1, <1>2, <2>3
    <3>2. BootPage(1) = [area |-> "payload", offset |-> 0]
      BY <1>1, <3>1 DEF BootPage
    <3>3. BootPage(n - 1) = [area |-> "payload", offset |-> n - 1 - 1]
      BY <1>1, <3>1 DEF BootPage
    <3> QED BY <2>1, <3>1, <3>2, <3>3
  <2> QED BY <2>2, <2>3
<1>3. CASE n > p /\ n <= p + s
  <2>1. (m - s) + (n - p - 1) < m
    BY <1>1, <1>3
  <2>2. BootPage(n) = [area |-> "stack", offset |-> (m - s) + (n - p - 1)]
    BY <1>1, <1>3 DEF BootPage
  <2> QED BY <1>1, <2>1, <2>2
<1>4. CASE n > p /\ ~(n <= p + s)
  <2>1. BootPage(n) = [area |-> "payload", offset |-> n - s - 1]
    BY <1>1, <1>4 DEF BootPage
  <2>2. CASE n - s - 1 < m
    BY <1>1, <2>1, <2>2
  <2>3. CASE ~(n - s - 1 < m)
    <3>1. \E k \in 1..(n - 1) : BootPage(k) = [area |-> "payload", offset |-> 0]
      <4>1. CASE p = 0
        <5>1. PICK k \in 1..(n - 1) : k = s + 1
          BY <1>1, <1>4, <2>3
        <5>2. k > p /\ ~(k <= p + s) /\ k - s - 1 = 0 /\ ~(k <= p)
          BY <1>1, <4>1, <5>1
        <5>3. BootPage(k) = [area |-> "payload", offset |-> k - s - 1]
          BY <1>1, <5>2 DEF BootPage
        <5> QED BY <5>2, <5>3
      <4>2. CASE p # 0
        <5>1. 1 \in 1..(n - 1) /\ 1 <= p
          BY <1>1, <1>4, <4>2, <2>3
        <5>2. BootPage(1) = [area |-> "payload", offset |-> 0]
          BY <1>1, <5>1 DEF BootPage
        <5> QED BY <5>1, <5>2
      <4> QED BY <4>1, <4>2
    <3>2. \E l \in 1..(n - 1) : BootPage(l) = [area |-> "payload", offset |-> n - s - 1 - 1]
      <4>1. CASE n - 1 <= p + s
        <5>1. n - s - 1 = p /\ p >= 1 /\ p \in 1..(n - 1) /\ p <= p
          BY <1>1, <1>4, <2>3, <4>1
        <5>2. BootPage(p) = [area |-> "payload", offset |-> p - 1]
          BY <1>1, <5>1 DEF BootPage
        <5> QED BY <5>1, <5>2
      <4>2. CASE ~(n - 1 <= p + s)
        <5>1. PICK l \in 1..(n - 1) : l = n - 1
          BY <1>1, <1>4, <4>2
        <5>2. l > p /\ ~(l <= p + s) /\ l - s - 1 = n - s - 1 - 1 /\ ~(l <= p)
          BY <1>1, <4>2, <5>1
        <5>3. BootPage(l) = [area |-> "payload", offset |-> l - s - 1]
          BY <1>1, <5>2 DEF BootPage
        <5> QED BY <5>2, <5>3
      <4> QED BY <4>1, <4>2
    <3> QED BY <2>1, <3>1, <3>2
  <2> QED BY <2>2, <2>3
<1> QED BY <1>1, <1>2, <1>3, <1>4

(* Page n is where it belongs.                                             *)
Placed(n) == LET p == BootPage(n) IN p.offset < N /\ tables[p.area][p.offset] = n

PagesPlaced == \A n \in 1..taken : Placed(n)

LEMMA IndexBelow ==
  ASSUME NEW o \in Nat
  PROVE  o % N \in 0..(N - 1) /\ (o < N => o % N = o) /\ (o = N => o % N = 0)
<1>1. PICK m \in Nat \ {0} : m = N
  BY BootAssumption
<1>2. o % m \in 0..(m - 1)
  BY DivMod
<1>3. ASSUME o < m PROVE o % m = o
  <2>1. o \in 0..(m - 1) /\ 0 \in Nat
    BY <1>3
  <2>2. (m * 0 + o) % m = o
    BY <2>1, DivModOf
  <2>3. m * 0 + o = o
    OBVIOUS
  <2> QED BY <2>2, <2>3
<1>4. ASSUME o = m PROVE o % m = 0
  <2>1. 0 \in 0..(m - 1) /\ 1 \in Nat
    OBVIOUS
  <2>2. (m * 1 + 0) % m = 0
    BY <2>1, DivModOf
  <2>3. m * 1 + 0 = o
    BY <1>4
  <2> QED BY <2>2, <2>3
<1> QED BY <1>1, <1>2, <1>3, <1>4

(* The next page fits into its table: were it one behind the last entry,   *)
(* the first entry would be found taken.                                   *)
LEMMA NextPageFits ==
  ASSUME BootTypes, PagesPlaced, Unmapped(BootPage(taken + 1))
  PROVE  /\ BootPage(taken + 1).offset < N
         /\ tables[BootPage(taken + 1).area][BootPage(taken + 1).offset] = Nil
<1>1. PICK n \in Nat \ {0} : n = taken + 1 /\ n - 1 = taken
  BY DEF BootTypes
<1>2. PICK o \in Nat, a \in {"payload", "stack"} :
        o = BootPage(n).offset /\ a = BootPage(n).area
  BY BootPageType
<1>3. tables[a][o % N] = Nil
  BY <1>1, <1>2 DEF Unmapped
<1>4. CASE o < N
  <2>1. o % N = o
    BY <1>4, IndexBelow
  <2> QED BY <1>1, <1>2, <1>3, <1>4, <2>1
<1>5. CASE ~(o < N)
  <2>1. a = "payload"
        /\ \E k, l \in 1..(n - 1) :
             /\ BootPage(k) = [area |-> "payload", offset |-> 0]
             /\ BootPage(l) = [area |-> "payload", offset |-> BootPage(n).offset - 1]
    BY <1>2, <1>5, PageBehind
  <2>2. PICK k, l \in 1..(n - 1) :
             /\ BootPage(k) = [area |-> "payload", offset |-> 0]
             /\ BootPage(l) = [area |-> "payload", offset |-> o - 1]
    BY <1>2, <2>1
  <2>3. k \in 1..taken /\ l \in 1..taken
    BY <1>1
  <2>4. tables["payload"][0] = k /\ o - 1 < N
    BY <2>2, <2>3 DEF PagesPlaced, Placed
  <2>5. N \in Nat
    BY BootAssumption
  <2>6. o = N
    BY <1>5, <2>4, <2>5
  <2>7. o % N = 0
    BY <2>6, IndexBelow
  <2>8. k = Nil
    BY <1>3, <2>1, <2>4, <2>7
  <2>9. k \in Nat
    BY <2>3
  <2> QED BY <2>8, <2>9, BootAssumption
<1> QED BY <1>4, <1>5

LEMMA MapPageTyped ==
  ASSUME Typed, MapPage
  PROVE  Typed'
<1>1. TokensRead'
  BY DtbStays DEF Typed, MapPage
<1>2. /\ phase = "map" /\ taken < PageCount
      /\ UNCHANGED <<regions, work, split, caps, pages>>
  BY DEF MapPage
<1>3. taken \in Nat /\ PageCount \in Nat /\ PageCount' = PageCount
  BY <1>2, PageCountType DEF Typed, BootTypes, PageCount
<1>4. PICK n \in Nat \ {0} : n = taken + 1
  BY <1>3
<1>5. CASE phase' = "halted" /\ UNCHANGED <<taken, tables>>
  BY <1>1, <1>2, <1>5 DEF Typed, BootTypes, Phases
<1>6. CASE /\ tables' = [tables EXCEPT ![BootPage(n).area][BootPage(n).offset % N] = n]
           /\ taken' = n /\ phase' = phase
  <2>1. PICK o \in Nat, a \in {"payload", "stack"} :
          o = BootPage(n).offset /\ a = BootPage(n).area
    BY BootPageType DEF Typed
  <2>2. o % N \in 0..(N - 1)
    BY IndexBelow
  <2>3. tables' \in [{"payload", "stack"} -> [0..(N - 1) -> Nat \cup {Nil}]]
    BY <1>6, <2>1, <2>2 DEF Typed, BootTypes
  <2>4. BootTypes'
    BY <1>2, <1>6, <2>3 DEF Typed, BootTypes
  <2>5. taken' <= PageCount'
    BY <1>2, <1>3, <1>4, <1>6
  <2>6. Phases'
    BY <1>2, <1>6, <2>5 DEF Typed, Phases
  <2> QED BY <1>1, <2>4, <2>6 DEF Typed
<1> QED BY <1>4, <1>5, <1>6 DEF MapPage

LEMMA MapEndsTyped ==
  ASSUME Typed, MapEnds
  PROVE  Typed'
<1>1. TokensRead'
  BY DtbStays DEF Typed, MapEnds
<1>2. /\ phase = "map" /\ phase' = "done" /\ taken = PageCount
      /\ UNCHANGED <<regions, taken, work, split, caps, pages, tables>>
  BY DEF MapEnds
<1>3. BootTypes'
  BY <1>2 DEF Typed, BootTypes
<1>4. PageCount' = PageCount /\ PageCount \in Nat
  BY <1>2, PageCountType DEF Typed, PageCount
<1>5. Phases'
  BY <1>2, <1>4 DEF Typed, Phases
<1> QED BY <1>1, <1>3, <1>5 DEF Typed

LEMMA TypedUnchanged ==
  ASSUME Typed, UNCHANGED bootVars
  PROVE  Typed'
<1>1. TokensRead'
  BY DtbStays DEF Typed, bootVars
<1> QED BY <1>1 DEF Typed, BootTypes, Phases, PageCount, bootVars

LEMMA TypedStays ==
  ASSUME Typed, [BootNext]_bootVars
  PROVE  Typed'
<1>1. ASSUME Grow \/ Shrink PROVE Typed'
  BY <1>1, GrowCuts, ShrinkCuts, CutTyped
<1> QED BY <1>1, WalkTyped, WalkEndsTyped, TakeMemoryTyped, TakeDeviceTyped, CallTyped,
           SplitEndsTyped, MapPageTyped, MapEndsTyped, TypedUnchanged
        DEF BootNext, BootStep, Over

NoTables == tables = [area \in {"payload", "stack"} |-> [i \in 0..(N - 1) |-> Nil]]

LEMMA MappingParts ==
  Mapping <=>
    /\ phase \in {"walk", "memory", "device"} => NoTables
    /\ phase \in {"map", "done"} => Len(caps) + taken <= MaxCaps /\ PagesPlaced
    /\ Len(caps) <= MaxCaps
BY DEF Mapping, NoTables, PagesPlaced, Placed

LEMMA PlacedStays ==
  ASSUME PagesPlaced, UNCHANGED <<taken, pages, tables>>
  PROVE  PagesPlaced'
BY DEF PagesPlaced, Placed, BootPage

(* A step before the pages are mapped that hands out nothing.              *)
LEMMA MappingBefore ==
  ASSUME Mapping, UNCHANGED <<caps, tables>>,
         phase' \in {"walk", "memory", "device"} => phase \in {"walk", "memory", "device"},
         phase' \notin {"map", "done"}
  PROVE  Mapping'
<1>1. NoTables => NoTables'
  BY DEF NoTables
<1> QED BY <1>1 DEF Mapping, NoTables

LEMMA CutMapping ==
  ASSUME Typed, Mapping, Cut
  PROVE  Mapping'
<1>1. phase \in {"memory", "device"} /\ phase' \in {phase, "halted"} /\ tables' = tables
  BY Working DEF Cut, CutOff
<1>2. Len(caps') <= MaxCaps
  <2>1. split # Nil
    BY DEF Cut
  <2>2. caps \in Seq(CapSet) /\ CutCap \in CapSet
    BY <2>1, CutCapType DEF Typed, BootTypes
  <2>3. Len(Append(caps, CutCap)) = Len(caps) + 1 /\ Len(caps) \in Nat /\ MaxCaps \in Nat
    BY <2>2, AppendProperties, LenProperties, BootAssumption
  <2>4. caps' = caps \/ (caps' = Append(caps, CutCap) /\ Len(caps) < MaxCaps)
    BY DEF Cut, CutOff
  <2>5. Len(caps) <= MaxCaps
    BY DEF Mapping
  <2> QED BY <2>3, <2>4, <2>5
<1> QED BY <1>1, <1>2 DEF Mapping

LEMMA TakeDeviceMapping ==
  ASSUME Typed, Mapping, TakeDevice
  PROVE  Mapping'
<1>1. phase = "device" /\ UNCHANGED <<caps, tables>>
  BY DEF TakeDevice, Idle
<1>2. CASE phase' = phase
  BY <1>1, <1>2, MappingBefore
<1>3. CASE phase' = "map" /\ taken' = 0
  <2>1. Len(caps) <= MaxCaps /\ Len(caps) \in Nat
    BY LenProperties DEF Mapping, Typed, BootTypes
  <2> QED BY <1>1, <1>3, <2>1 DEF Mapping
<1> QED BY <1>2, <1>3 DEF TakeDevice

LEMMA MapPageMapping ==
  ASSUME Typed, Mapping, MapPage
  PROVE  Mapping'
<1>1. /\ phase = "map" /\ UNCHANGED <<caps, pages>>
  BY DEF MapPage
<1>2. PagesPlaced /\ Len(caps) + taken <= MaxCaps /\ Len(caps) <= MaxCaps
  BY <1>1 DEF Mapping, PagesPlaced, Placed
<1>3. /\ taken \in Nat /\ Len(caps) \in Nat /\ MaxCaps \in Nat
  BY LenProperties, BootAssumption DEF Typed, BootTypes
<1>4. PICK n \in Nat \ {0} : n = taken + 1
  BY <1>3
<1>5. CASE phase' = "halted"
  BY <1>1, <1>2, <1>5 DEF Mapping
<1>6. CASE /\ Unmapped(BootPage(n)) /\ Len(caps) + taken < MaxCaps
           /\ tables' = [tables EXCEPT ![BootPage(n).area][BootPage(n).offset % N] = n]
           /\ taken' = n /\ phase' = phase
  <2>1. PICK o \in Nat, a \in {"payload", "stack"} :
          o = BootPage(n).offset /\ a = BootPage(n).area
    BY BootPageType DEF Typed
  <2>2. o < N /\ tables[a][o] = Nil /\ o % N = o
    BY <1>2, <1>4, <1>6, <2>1, NextPageFits, IndexBelow DEF Typed
  <2>3. o \in 0..(N - 1)
    BY <2>2, IndexBelow
  <2>4. tables \in [{"payload", "stack"} -> [0..(N - 1) -> Nat \cup {Nil}]]
    BY DEF Typed, BootTypes
  <2>5. tables' = [tables EXCEPT ![a][o] = n]
    BY <1>6, <2>1, <2>2
  <2>6. ASSUME NEW m \in 1..n
        PROVE  BootPage(m).offset < N /\ tables'[BootPage(m).area][BootPage(m).offset] = m
    <3>1. PICK p \in Nat, b \in {"payload", "stack"} :
            p = BootPage(m).offset /\ b = BootPage(m).area
      BY BootPageType DEF Typed
    <3>2. CASE m = n
      BY <2>1, <2>2, <2>3, <2>4, <2>5, <3>2
    <3>3. CASE m # n
      <4>1. m \in 1..taken
        BY <1>3, <1>4, <3>3
      <4>2. p < N /\ tables[b][p] = m
        BY <1>2, <3>1, <4>1 DEF PagesPlaced, Placed
      <4>3. m # Nil
        BY BootAssumption
      <4>4. p \in 0..(N - 1)
        BY <4>2, BootAssumption
      <4>5. tables'[b][p] = m
        BY <2>2, <2>3, <2>4, <2>5, <4>2, <4>3, <4>4
      <4> QED BY <3>1, <4>2, <4>5
    <3> QED BY <3>2, <3>3
  <2>7. BootPage(1)' = BootPage(1) /\ \A m \in 1..n : BootPage(m)' = BootPage(m)
    BY <1>1 DEF BootPage
  <2>8. PagesPlaced'
    BY <1>1, <1>6, <2>6 DEF PagesPlaced, Placed, BootPage
  <2>9. Len(caps') + taken' <= MaxCaps
    BY <1>1, <1>3, <1>4, <1>6
  <2> QED BY <1>1, <1>2, <1>6, <2>8, <2>9 DEF Mapping, PagesPlaced, Placed
<1> QED BY <1>4, <1>5, <1>6 DEF MapPage

LEMMA MappingUnchanged ==
  ASSUME Mapping, UNCHANGED <<caps, taken, pages, tables>>,
         phase' = phase \/ (phase = "map" /\ phase' = "done")
  PROVE  Mapping'
<1>1. NoTables => NoTables'
  BY DEF NoTables
<1>2. PagesPlaced => PagesPlaced'
  BY PlacedStays
<1>3. /\ phase \in {"walk", "memory", "device"} => NoTables
      /\ phase \in {"map", "done"} => Len(caps) + taken <= MaxCaps /\ PagesPlaced
      /\ Len(caps) <= MaxCaps
  BY MappingParts
<1>4. /\ phase' \in {"walk", "memory", "device"} => NoTables'
      /\ phase' \in {"map", "done"} => Len(caps') + taken' <= MaxCaps /\ PagesPlaced'
      /\ Len(caps') <= MaxCaps
  BY <1>1, <1>2, <1>3
<1> QED BY <1>4 DEF Mapping, NoTables, PagesPlaced, Placed

LEMMA MappingStays ==
  ASSUME Typed, Mapping, [BootNext]_bootVars
  PROVE  Mapping'
<1>1. ASSUME Walk \/ WalkEnds \/ TakeMemory PROVE Mapping'
  <2>1. phase \in {"walk", "memory"} /\ UNCHANGED <<caps, tables>>
        /\ phase' \in {"walk", "memory", "device", "halted"}
    BY <1>1 DEF Walk, WalkEnds, TakeMemory, Idle
  <2> QED BY <2>1, MappingBefore
<1>2. ASSUME Call \/ SplitEnds PROVE Mapping'
  <2>1. UNCHANGED <<phase, taken, pages, caps, tables>>
    BY <1>2 DEF Call, SplitEnds
  <2> QED BY <2>1, MappingUnchanged
<1>3. ASSUME Grow \/ Shrink PROVE Mapping'
  BY <1>3, GrowCuts, ShrinkCuts, CutMapping
<1>4. ASSUME MapEnds \/ UNCHANGED bootVars PROVE Mapping'
  <2>1. UNCHANGED <<caps, taken, pages, tables>>
        /\ (phase' = phase \/ (phase = "map" /\ phase' = "done"))
    BY <1>4 DEF MapEnds, bootVars
  <2> QED BY <2>1, MappingUnchanged
<1> QED BY <1>1, <1>2, <1>3, <1>4, TakeDeviceMapping, MapPageMapping
        DEF BootNext, BootStep, Over

-----------------------------------------------------------------------------
(* What is handed out.                                                     *)

(* The reserved regions R, from the one with this index on, do not have x. *)
FreeIn(R, x, index) == \A j \in 1..Len(R) : j >= index => ~In(x, R[j])

(* The call c will hand out x.                                             *)
Comes(R, x, d, c) ==
  c.device = d /\ c.region.start # 0 /\ In(x, c.region) /\ FreeIn(R, x, c.index)

SomeComes(R, x, d, w) == \E i \in 1..Len(w) : Comes(R, x, d, w[i])

LEMMA ToComeIs ==
  ASSUME NEW x, NEW d
  PROVE  /\ ToCome(x, d) <=> SomeComes(regions["reserved"], x, d, work)
         /\ ToCome(x, d)' <=> SomeComes(regions'["reserved"], x, d, work')
BY DEF ToCome, SomeComes, Comes, FreeFrom, FreeIn

LEMMA SomeConcat ==
  ASSUME NEW R, NEW x, NEW d, NEW s \in Seq(CallSet), NEW t \in Seq(CallSet)
  PROVE  SomeComes(R, x, d, s \o t) <=> SomeComes(R, x, d, s) \/ SomeComes(R, x, d, t)
<1>0. Len(s) \in Nat /\ Len(t) \in Nat /\ Len(s \o t) = Len(s) + Len(t)
  BY LenProperties, ConcatProperties
<1>1. \A i \in 1..(Len(s) + Len(t)) : (s \o t)[i] = IF i <= Len(s) THEN s[i] ELSE t[i - Len(s)]
  BY ConcatProperties
<1>2. ASSUME SomeComes(R, x, d, s \o t) PROVE SomeComes(R, x, d, s) \/ SomeComes(R, x, d, t)
  <2>1. PICK i \in 1..(Len(s) + Len(t)) : Comes(R, x, d, (s \o t)[i])
    BY <1>0, <1>2 DEF SomeComes
  <2>2. CASE i <= Len(s)
    <3>1. i \in 1..Len(s) /\ (s \o t)[i] = s[i]
      BY <1>0, <1>1, <2>2
    <3> QED BY <2>1, <3>1 DEF SomeComes
  <2>3. CASE ~(i <= Len(s))
    <3>1. i - Len(s) \in 1..Len(t) /\ (s \o t)[i] = t[i - Len(s)]
      BY <1>0, <1>1, <2>3
    <3> QED BY <2>1, <3>1 DEF SomeComes
  <2> QED BY <2>2, <2>3
<1>3. ASSUME NEW i \in 1..Len(s), Comes(R, x, d, s[i]) PROVE SomeComes(R, x, d, s \o t)
  <2>1. i \in 1..Len(s \o t) /\ (s \o t)[i] = s[i]
    BY <1>0, <1>1
  <2> QED BY <1>3, <2>1 DEF SomeComes
<1>4. ASSUME NEW i \in 1..Len(t), Comes(R, x, d, t[i]) PROVE SomeComes(R, x, d, s \o t)
  <2>1. PICK k \in 1..(Len(s) + Len(t)) : k = Len(s) + i
    BY <1>0
  <2>2. ~(k <= Len(s)) /\ k - Len(s) = i
    BY <1>0, <2>1
  <2>3. k \in 1..Len(s \o t) /\ (s \o t)[k] = t[i]
    BY <1>0, <1>1, <2>2
  <2> QED BY <1>4, <2>3 DEF SomeComes
<1> QED BY <1>2, <1>3, <1>4 DEF SomeComes

LEMMA SomeEmpty ==
  ASSUME NEW R, NEW x, NEW d
  PROVE  ~SomeComes(R, x, d, <<>>)
BY DEF SomeComes

LEMMA SomeSingle ==
  ASSUME NEW R, NEW x, NEW d, NEW c
  PROVE  SomeComes(R, x, d, <<c>>) <=> Comes(R, x, d, c)
<1>1. Len(<<c>>) = 1 /\ <<c>>[1] = c /\ 1..1 = {1}
  OBVIOUS
<1> QED BY <1>1 DEF SomeComes

LEMMA SomeHead ==
  ASSUME NEW R, NEW x, NEW d, NEW w \in Seq(CallSet), w # <<>>
  PROVE  SomeComes(R, x, d, w) <=> Comes(R, x, d, Head(w)) \/ SomeComes(R, x, d, Tail(w))
<1>1. /\ Head(w) \in CallSet /\ Tail(w) \in Seq(CallSet) /\ Head(w) = w[1]
      /\ Len(Tail(w)) = Len(w) - 1 /\ \A i \in 1..Len(Tail(w)) : Tail(w)[i] = w[i + 1]
  BY HeadTailProperties
<1>2. Len(w) \in Nat \ {0}
  BY EmptySeq
<1>3. ASSUME NEW i \in 1..Len(w), Comes(R, x, d, w[i]), i # 1
      PROVE  SomeComes(R, x, d, Tail(w))
  <2>1. i - 1 \in 1..Len(Tail(w)) /\ i - 1 + 1 = i
    BY <1>1, <1>2, <1>3
  <2>2. Tail(w)[i - 1] = w[i]
    BY <1>1, <2>1
  <2> QED BY <1>3, <2>1, <2>2 DEF SomeComes
<1>4. ASSUME NEW i \in 1..Len(Tail(w)), Comes(R, x, d, Tail(w)[i])
      PROVE  SomeComes(R, x, d, w)
  <2>1. i + 1 \in 1..Len(w) /\ Tail(w)[i] = w[i + 1]
    BY <1>1, <1>2
  <2> QED BY <1>4, <2>1 DEF SomeComes
<1>5. 1 \in 1..Len(w)
  BY <1>2
<1> QED BY <1>1, <1>3, <1>4, <1>5 DEF SomeComes

(* A call for a piece hands out what is in the piece.                      *)
LEMMA PieceComes ==
  ASSUME NEW R, NEW x \in Nat, NEW d, NEW r \in RegionSet, NEW device, NEW index
  PROVE  SomeComes(R, x, d, CallsFor(r, device, index))
           <=> device = d /\ r.start # 0 /\ In(x, r) /\ FreeIn(R, x, index)
<1>1. Comes(R, x, d, CallOf(r, device, index))
        <=> device = d /\ r.start # 0 /\ In(x, r) /\ FreeIn(R, x, index)
  BY DEF Comes, CallOf
<1>2. CASE r.start < r.end
  BY <1>1, <1>2, SomeSingle DEF CallsFor
<1>3. CASE ~(r.start < r.end)
  <2>1. ~In(x, r)
    BY <1>3, RegionFields DEF In
  <2>2. CallsFor(r, device, index) = <<>>
    BY <1>3 DEF CallsFor
  <2> QED BY <2>1, <2>2, SomeEmpty
<1> QED BY <1>2, <1>3

InPieces(x, a, b) ==
  \/ SubtractRegion(a, b)[1].start # 0 /\ In(x, SubtractRegion(a, b)[1])
  \/ SubtractRegion(a, b)[2].start # 0 /\ In(x, SubtractRegion(a, b)[2])

LEMMA PiecesCome ==
  ASSUME NEW R, NEW x \in Nat, NEW d, NEW a \in RegionSet, NEW b \in RegionSet,
         NEW device \in BOOLEAN, NEW index \in Nat \ {0}
  PROVE  SomeComes(R, x, d, Calls(SubtractRegion(a, b), device, index))
           <=> device = d /\ InPieces(x, a, b) /\ FreeIn(R, x, index)
<1>1. PICK p, q \in RegionSet : p = SubtractRegion(a, b)[1] /\ q = SubtractRegion(a, b)[2]
  BY PieceTypes
<1>2. Calls(SubtractRegion(a, b), device, index)
        = CallsFor(p, device, index) \o CallsFor(q, device, index)
  BY <1>1, CallsAre
<1>3. CallsFor(p, device, index) \in Seq(CallSet) /\ CallsFor(q, device, index) \in Seq(CallSet)
  BY CallsForType
<1>4. SomeComes(R, x, d, Calls(SubtractRegion(a, b), device, index))
        <=> \/ SomeComes(R, x, d, CallsFor(p, device, index))
            \/ SomeComes(R, x, d, CallsFor(q, device, index))
  BY <1>2, <1>3, SomeConcat
<1>5. /\ SomeComes(R, x, d, CallsFor(p, device, index))
           <=> device = d /\ p.start # 0 /\ In(x, p) /\ FreeIn(R, x, index)
      /\ SomeComes(R, x, d, CallsFor(q, device, index))
           <=> device = d /\ q.start # 0 /\ In(x, q) /\ FreeIn(R, x, index)
  BY PieceComes
<1> QED BY <1>1, <1>4, <1>5 DEF InPieces

(* What is left of a region that does not start at address 0.              *)
LEMMA PiecesOfRegion ==
  ASSUME NEW a \in RegionSet, a.start # 0, NEW b \in RegionSet, b.start <= b.end, NEW x \in Nat
  PROVE  InPieces(x, a, b) <=> In(x, a) /\ ~In(x, b)
<1>1. a.start \in Nat /\ a.end \in Nat /\ b.start \in Nat /\ b.end \in Nat
  BY RegionFields
<1> QED BY <1>1 DEF InPieces, In, SubtractRegion, Region, Nothing

(* What is left of any region: what is connected to address 0 is lost.     *)
LEMMA PiecesAtZero ==
  ASSUME NEW a \in RegionSet, NEW b \in RegionSet, b.start < b.end, NEW x \in Nat
  PROVE  InPieces(x, a, b)
           <=> In(x, a) /\ ~In(x, b) /\ ~(\A y \in 0..x : In(y, a) /\ ~In(y, b))
<1>1. PICK s, e, p, q \in Nat : s = a.start /\ e = a.end /\ p = b.start /\ q = b.end
  BY RegionFields
<1>2. InPieces(x, a, b) => In(x, a) /\ ~In(x, b)
  BY <1>1 DEF InPieces, In, SubtractRegion, Region, Nothing
<1>3. ASSUME InPieces(x, a, b), \A y \in 0..x : In(y, a) /\ ~In(y, b) PROVE FALSE
  <2>1. In(0, a) /\ ~In(0, b)
    BY <1>3
  <2>2. s = 0 /\ p > 0
    BY <1>1, <2>1 DEF In
  <2>3. q <= x /\ x < e
    BY <1>1, <1>3, <2>2 DEF InPieces, In, SubtractRegion, Region, Nothing
  <2>4. p \in 0..x /\ In(p, b)
    BY <1>1, <2>3 DEF In
  <2> QED BY <1>3, <2>4
<1>4. ASSUME In(x, a), ~In(x, b), ~InPieces(x, a, b), NEW y \in 0..x
      PROVE  In(y, a) /\ ~In(y, b)
  <2>1. s = 0 /\ x < p
    BY <1>1, <1>4 DEF InPieces, In, SubtractRegion, Region, Nothing
  <2> QED BY <1>1, <1>4, <2>1 DEF In
<1> QED BY <1>2, <1>3, <1>4

(* x is in the capability c of this kind, or in the part left of s.        *)
InCap(c, x, d) == c.device = d /\ c.base <= x /\ x < c.base + c.size

SomeCap(q, x, d) == \E i \in 1..Len(q) : InCap(q[i], x, d)

InPart(s, x, d) == s # Nil /\ s.device = d /\ In(x, s)

LEMMA CoveredIs ==
  ASSUME NEW q \in Seq(CapSet), NEW x \in Nat, NEW d
  PROVE  (\E i \in 1..Len(q) : q[i].device = d /\ x \in q[i].base..(q[i].base + q[i].size - 1))
           <=> SomeCap(q, x, d)
<1>1. ASSUME NEW i \in 1..Len(q)
      PROVE  x \in q[i].base..(q[i].base + q[i].size - 1)
               <=> q[i].base <= x /\ x < q[i].base + q[i].size
  <2>1. q[i] \in CapSet
    BY ElementOfSeq
  <2>2. q[i].base \in Nat /\ q[i].size \in Nat
    BY <2>1 DEF CapSet
  <2> QED BY <2>2
<1> QED BY <1>1 DEF SomeCap, InCap

LEMMA HandedOutIs ==
  ASSUME BootTypes, NEW x \in Nat, NEW d
  PROVE  HandedOut(x, d)
           <=> \/ SomeCap(caps, x, d)
               \/ SomeComes(regions["reserved"], x, d, work)
               \/ InPart(split, x, d)
<1>1. Covered(x, d) <=> SomeCap(caps, x, d)
  <2>1. caps \in Seq(CapSet)
    BY DEF BootTypes
  <2> QED BY <2>1, CoveredIs DEF Covered
<1> QED BY <1>1, ToComeIs DEF HandedOut, InSplit, InPart

LEMMA HandedOutIsNext ==
  ASSUME BootTypes', NEW x \in Nat, NEW d
  PROVE  HandedOut(x, d)'
           <=> \/ SomeCap(caps', x, d)
               \/ SomeComes(regions'["reserved"], x, d, work')
               \/ InPart(split', x, d)
<1>1. Covered(x, d)' <=> SomeCap(caps', x, d)
  <2>1. caps' \in Seq(CapSet)
    BY DEF BootTypes
  <2>2. Covered(x, d)' <=> \E i \in 1..Len(caps') :
                             caps'[i].device = d
                             /\ x \in caps'[i].base..(caps'[i].base + caps'[i].size - 1)
    BY DEF Covered
  <2> QED BY <2>1, <2>2, CoveredIs
<1> QED BY <1>1, ToComeIs DEF HandedOut, InSplit, InPart

LEMMA SomeCapAppended ==
  ASSUME NEW q \in Seq(CapSet), NEW c \in CapSet, NEW x, NEW d
  PROVE  SomeCap(Append(q, c), x, d) <=> SomeCap(q, x, d) \/ InCap(c, x, d)
<1>1. /\ Len(Append(q, c)) = Len(q) + 1 /\ Append(q, c)[Len(q) + 1] = c
      /\ \A i \in 1..Len(q) : Append(q, c)[i] = q[i]
  BY AppendProperties
<1>2. Len(q) \in Nat
  BY LenProperties
<1>3. \A i \in 1..(Len(q) + 1) : i = Len(q) + 1 \/ i \in 1..Len(q)
  BY <1>2
<1>4. Len(q) + 1 \in 1..(Len(q) + 1) /\ \A i \in 1..Len(q) : i \in 1..(Len(q) + 1)
  BY <1>2
<1> QED BY <1>1, <1>3, <1>4 DEF SomeCap

(* Cutting a block off hands nothing out that was not to be handed out,    *)
(* and loses nothing.                                                      *)
LEMMA CutHands ==
  ASSUME Typed, Typed', Cut, phase' # "halted", NEW x \in Nat, NEW d
  PROVE  HandedOut(x, d)' <=> HandedOut(x, d)
<1>1. split # Nil /\ split \in SplitSet
  BY SplitFields DEF Cut, Typed
<1>2. PICK s \in Nat, e \in Nat, b \in Nat, z \in Nat \ {0} :
        s = split.start /\ e = split.end /\ b = split.bit /\ z = BlockSize(b)
  BY <1>1, SplitFields DEF Typed
<1>3. UNCHANGED <<regions, work>>
  BY DEF Cut
<1>4. (SomeCap(caps', x, d) \/ InPart(split', x, d)) <=> (SomeCap(caps, x, d) \/ InPart(split, x, d))
  <2>1. CASE /\ s + z <= e
             /\ CutOff(split.bit) \/ CutOff(split.bit + 1)
    <3>1. caps' = Append(caps, CutCap)
      BY <2>1 DEF CutOff
    <3>2. PICK k \in Nat : split' = [split EXCEPT !.start = s + z, !.bit = k]
      <4>1. \A k : CutSplit(k) = [split EXCEPT !.start = s + z, !.bit = k]
        BY <1>2 DEF CutSplit
      <4>2. split.bit \in Nat /\ split.bit + 1 \in Nat
        BY <1>2
      <4> QED BY <2>1, <4>1, <4>2 DEF CutOff
    <3>3. split' # Nil /\ split'.start = s + z /\ split'.end = e /\ split'.device = split.device
      <4>1. split' # Nil
        BY CutKeepsSplit
      <4>2. PICK n \in Nat : n = s + z
        OBVIOUS
      <4>3. split' = [split EXCEPT !.start = n, !.bit = k]
        BY <3>2, <4>2
      <4>4. split'.start = n /\ split'.end = split.end /\ split'.device = split.device
        BY <1>1, <4>3 DEF SplitSet
      <4> QED BY <1>2, <4>1, <4>2, <4>4
    <3>4. SomeCap(caps', x, d) <=> SomeCap(caps, x, d) \/ InCap(CutCap, x, d)
      <4>1. caps \in Seq(CapSet) /\ CutCap \in CapSet
        BY <1>1, CutCapType DEF Typed, BootTypes
      <4> QED BY <3>1, <4>1, SomeCapAppended
    <3>5. InCap(CutCap, x, d) <=> split.device = d /\ s <= x /\ x < s + z
      BY <1>2 DEF InCap, CutCap
    <3>6. InPart(split', x, d) <=> split.device = d /\ s + z <= x /\ x < e
      BY <3>3 DEF InPart, In
    <3>7. InPart(split, x, d) <=> split.device = d /\ s <= x /\ x < e
      BY <1>1, <1>2 DEF InPart, In
    <3>8. (s <= x /\ x < e) <=> (s <= x /\ x < s + z) \/ (s + z <= x /\ x < e)
      BY <1>2, <2>1
    <3> QED BY <3>4, <3>5, <3>6, <3>7, <3>8
  <2>2. CASE caps' = caps /\ \/ split' = [split EXCEPT !.up = FALSE]
                             \/ split' = [split EXCEPT !.bit = @ + 1]
                             \/ split' = [split EXCEPT !.bit = @ - 1]
    <3>1. split'.start = s /\ split'.end = e /\ split'.device = split.device
      BY <1>1, <1>2, <2>2 DEF SplitSet
    <3>2. split' # Nil
      BY CutKeepsSplit
    <3> QED BY <1>1, <1>2, <2>2, <3>1, <3>2 DEF InPart, In
  <2> QED BY <1>2, <2>1, <2>2 DEF Cut
<1>5. BootTypes /\ BootTypes'
  BY DEF Typed
<1> QED BY <1>3, <1>4, <1>5, HandedOutIs, HandedOutIsNext

LEMMA SplitEndsHands ==
  ASSUME Typed, Typed', SplitEnds, NEW x \in Nat, NEW d
  PROVE  HandedOut(x, d)' <=> HandedOut(x, d)
<1>1. UNCHANGED <<caps, regions, work>> /\ split' = Nil /\ split # Nil /\ ~(split.start < split.end)
  BY DEF SplitEnds, Splitting
<1>2. split.start \in Nat /\ split.end \in Nat
  BY <1>1, SplitFields DEF Typed
<1>3. ~In(x, split)
  BY <1>1, <1>2 DEF In
<1>4. ~InPart(split, x, d) /\ ~InPart(split', x, d)
  BY <1>1, <1>3 DEF InPart
<1>5. BootTypes /\ BootTypes'
  BY DEF Typed
<1> QED BY <1>1, <1>4, <1>5, HandedOutIs, HandedOutIsNext

LEMMA ReservedType ==
  ASSUME Typed
  PROVE  /\ regions["reserved"] \in Seq(RegionSet)
         /\ Upright => \A j \in 1..Len(regions["reserved"]) :
                         regions["reserved"][j].start <= regions["reserved"][j].end
<1>1. regions["reserved"] \in Seq(RegionSet)
  BY DEF Typed, BootTypes, Kinds
<1> QED BY <1>1 DEF Upright, Elements

LEMMA FreeSplits ==
  ASSUME NEW R \in Seq(RegionSet), NEW x, NEW j \in 1..Len(R)
  PROVE  FreeIn(R, x, j) <=> ~In(x, R[j]) /\ FreeIn(R, x, j + 1)
<1>1. Len(R) \in Nat
  BY LenProperties
<1>2. \A k \in 1..Len(R) : k >= j <=> k = j \/ k >= j + 1
  BY <1>1
<1> QED BY <1>1, <1>2 DEF FreeIn

LEMMA FreeBehind ==
  ASSUME NEW R \in Seq(RegionSet), NEW x, NEW j \in Nat, ~(j <= Len(R))
  PROVE  FreeIn(R, x, j)
<1>1. Len(R) \in Nat
  BY LenProperties
<1> QED BY <1>1 DEF FreeIn

(* A call passes on to other calls, or to the loops, what it is to hand    *)
(* out.                                                                    *)
LEMMA CallHands ==
  ASSUME Typed, Typed', Upright, Call, NEW x \in Nat, NEW d
  PROVE  HandedOut(x, d)' <=> HandedOut(x, d)
<1>1. work # <<>> /\ split = Nil /\ UNCHANGED <<regions, caps>>
  BY DEF Call
<1>2. PICK r \in RegionSet, device \in BOOLEAN, index \in Nat \ {0}, c \in CallSet :
        /\ c = Head(work) /\ r = c.region /\ device = c.device /\ index = c.index
  BY <1>1, WorkType DEF Typed
<1>3. PICK t \in Seq(CallSet) : t = Tail(work)
  BY <1>1, WorkType DEF Typed
<1>4. PICK R \in Seq(RegionSet) : R = regions["reserved"]
  BY ReservedType
<1>5. SomeComes(R, x, d, work) <=> Comes(R, x, d, c) \/ SomeComes(R, x, d, t)
  <2>1. work \in Seq(CallSet)
    BY DEF Typed, BootTypes
  <2> QED BY <1>1, <1>2, <1>3, <2>1, SomeHead
<1>6. Comes(R, x, d, c)
        <=> device = d /\ r.start # 0 /\ In(x, r) /\ FreeIn(R, x, index)
  BY <1>2 DEF Comes
<1>7. ~InPart(split, x, d)
  BY <1>1 DEF InPart
<1>8. (SomeComes(R, x, d, work') \/ InPart(split', x, d))
        <=> Comes(R, x, d, c) \/ SomeComes(R, x, d, t)
  <2>1. CASE r.start >= r.end \/ r.start = 0
    <3>1. work' = t /\ split' = split
      BY <1>2, <1>3, <2>1 DEF Call
    <3>2. ~(r.start # 0 /\ In(x, r))
      BY <2>1, RegionFields DEF In
    <3> QED BY <1>6, <1>7, <3>1, <3>2
  <2>2. CASE ~(r.start >= r.end \/ r.start = 0) /\ index <= Len(R)
    <3>1. index \in 1..Len(R)
      <4>1. Len(R) \in Nat
        BY LenProperties
      <4> QED BY <2>2, <4>1
    <3>2. PICK b \in RegionSet : b = R[index]
      BY <3>1, ElementOfSeq
    <3>3. PICK j \in Nat \ {0} : j = index + 1
      OBVIOUS
    <3>4. PICK w \in Seq(CallSet) : w = Calls(SubtractRegion(r, b), device, j)
      BY CallsType
    <3>5. work' = w \o t /\ split' = split
      BY <1>2, <1>3, <1>4, <2>2, <3>2, <3>3, <3>4 DEF Call
    <3>6. SomeComes(R, x, d, work') <=> SomeComes(R, x, d, w) \/ SomeComes(R, x, d, t)
      BY <3>5, SomeConcat
    <3>7. SomeComes(R, x, d, w) <=> device = d /\ InPieces(x, r, b) /\ FreeIn(R, x, j)
      BY <3>4, PiecesCome
    <3>8. InPieces(x, r, b) <=> In(x, r) /\ ~In(x, b)
      <4>1. b.start <= b.end
        BY <1>4, <3>1, <3>2, ReservedType
      <4> QED BY <2>2, <4>1, PiecesOfRegion
    <3>9. FreeIn(R, x, index) <=> ~In(x, b) /\ FreeIn(R, x, j)
      BY <3>1, <3>2, <3>3, FreeSplits
    <3> QED BY <1>6, <1>7, <2>2, <3>5, <3>6, <3>7, <3>8, <3>9
  <2>3. CASE ~(r.start >= r.end \/ r.start = 0) /\ ~(index <= Len(R))
    <3>1. /\ work' = t
          /\ split' = [start |-> r.start, end |-> r.end, device |-> device, bit |-> FirstBit,
                       up |-> TRUE]
      BY <1>2, <1>3, <1>4, <2>3 DEF Call
    <3>2. FreeIn(R, x, index)
      BY <2>3, FreeBehind
    <3>3. split' # Nil
      <4>1. split' \in SplitSet
        BY <3>1, RegionFields DEF SplitSet, FirstBit
      <4> QED BY <4>1, NilIsNoSplit DEF SplitIsNotNil
    <3>4. split'.start = r.start /\ split'.end = r.end /\ split'.device = device
      BY <3>1
    <3>5. InPart(split', x, d) <=> device = d /\ In(x, r)
      BY <3>3, <3>4 DEF InPart, In
    <3> QED BY <1>6, <2>3, <3>1, <3>2, <3>5
  <2> QED BY <2>1, <2>2, <2>3
<1>9. /\ HandedOut(x, d) <=> SomeCap(caps, x, d) \/ SomeComes(R, x, d, work) \/ InPart(split, x, d)
      /\ HandedOut(x, d)' <=> \/ SomeCap(caps', x, d) \/ SomeComes(R, x, d, work')
                              \/ InPart(split', x, d)
  <2>1. BootTypes /\ BootTypes' /\ R = regions'["reserved"]
    BY <1>1, <1>4 DEF Typed
  <2> QED BY <1>4, <2>1, HandedOutIs, HandedOutIsNext
<1> QED BY <1>1, <1>5, <1>7, <1>8, <1>9

LEMMA MemoryType ==
  ASSUME Typed, NEW kind \in {"memory", "device"}
  PROVE  /\ regions[kind] \in Seq(RegionSet) /\ Len(regions[kind]) \in Nat /\ taken \in Nat
         /\ \A i \in 1..Len(regions[kind]) : regions[kind][i] \in RegionSet
<1>1. regions[kind] \in Seq(RegionSet) /\ taken \in Nat
  BY DEF Typed, BootTypes, Kinds
<1> QED BY <1>1, LenProperties, ElementOfSeq

(* x is in the memory region a, and nothing keeps it back.                 *)
DueIn(x, a) == In(x, a) /\ ~In(x, DtbRegion) /\ ~AtZeroBeforeDtb(x, a)

DtbNotEmpty == DtbRegion.start < DtbRegion.end

LEMMA DtbIsNotEmpty == DtbNotEmpty
<1>1. PICK l \in Nat \ {0} : l = DtbLength
  BY BootAssumption
<1>2. PICK m \in Nat \ {0} : m = RoundUp(l)
  BY RoundUpType
<1>3. DtbStart \in Nat
  BY BootAssumption
<1> QED BY <1>1, <1>2, <1>3 DEF DtbNotEmpty, DtbRegion, Region

(* The calls that are made for a memory region hand out what is due in it. *)
LEMMA TakeMemoryHands ==
  ASSUME Typed, Typed', TakeMemory, taken < Len(regions["memory"]), NEW x \in Nat, NEW d
  PROVE  HandedOut(x, d)'
           <=> \/ HandedOut(x, d)
               \/ d = FALSE /\ DueIn(x, regions["memory"][taken + 1]) /\ Free(x)
<1>1. UNCHANGED <<regions, caps, split>> /\ work = <<>> /\ split = Nil
  BY DEF TakeMemory, Idle
<1>2. PICK a \in RegionSet : a = regions["memory"][taken + 1]
  <2>1. taken + 1 \in 1..Len(regions["memory"])
    BY MemoryType
  <2> QED BY <2>1, MemoryType
<1>3. PICK R \in Seq(RegionSet) : R = regions["reserved"]
  BY ReservedType
<1>4. work' = Calls(SubtractRegion(a, DtbRegion), FALSE, 1)
  BY <1>2 DEF TakeMemory
<1>5. SomeComes(R, x, d, Calls(SubtractRegion(a, DtbRegion), FALSE, 1))
        <=> FALSE = d /\ InPieces(x, a, DtbRegion) /\ FreeIn(R, x, 1)
  <2>1. FALSE \in BOOLEAN /\ 1 \in Nat \ {0}
    OBVIOUS
  <2> QED BY ONLY <2>1, x \in Nat, a \in RegionSet, DtbRegionType, PiecesCome, Zenon
<1>6. InPieces(x, a, DtbRegion) <=> DueIn(x, a)
  <2>1. InPieces(x, a, DtbRegion)
          <=> /\ In(x, a) /\ ~In(x, DtbRegion)
              /\ ~(\A y \in 0..x : In(y, a) /\ ~In(y, DtbRegion))
    BY DtbRegionType, DtbIsNotEmpty, PiecesAtZero DEF DtbNotEmpty
  <2> QED BY <2>1 DEF DueIn, AtZeroBeforeDtb
<1>7. FreeIn(R, x, 1) <=> Free(x)
  <2>1. \A j \in 1..Len(R) : j >= 1
    BY LenProperties
  <2> QED BY <1>3, <2>1 DEF FreeIn, Free, Elements
<1>8. ~SomeComes(R, x, d, work)
  BY <1>1, SomeEmpty
<1>9. /\ HandedOut(x, d) <=> SomeCap(caps, x, d) \/ SomeComes(R, x, d, work) \/ InPart(split, x, d)
      /\ HandedOut(x, d)' <=> \/ SomeCap(caps', x, d) \/ SomeComes(R, x, d, work')
                              \/ InPart(split', x, d)
  <2>1. BootTypes /\ BootTypes' /\ R = regions'["reserved"]
    BY <1>1, <1>3 DEF Typed
  <2> QED BY <1>3, <2>1, HandedOutIs, HandedOutIsNext
<1>10. SomeComes(R, x, d, work') <=> FALSE = d /\ DueIn(x, a) /\ Free(x)
  BY <1>4, <1>5, <1>6, <1>7
<1> QED BY <1>1, <1>2, <1>8, <1>9, <1>10

LEMMA AtZeroIs ==
  ASSUME NEW a \in RegionSet, NEW x \in Nat, In(x, a)
  PROVE  AtZero(x, a) <=> a.start = 0
<1>1. a.start \in Nat /\ a.end \in Nat
  BY RegionFields
<1> QED BY <1>1 DEF AtZero, In

(* The call that is made for a device hands out what is due in it.         *)
LEMMA TakeDeviceHands ==
  ASSUME Typed, Typed', TakeDevice, taken < Len(regions["device"]), NEW x \in Nat, NEW d
  PROVE  HandedOut(x, d)'
           <=> \/ HandedOut(x, d)
               \/ /\ d = TRUE /\ In(x, regions["device"][taken + 1])
                  /\ ~AtZero(x, regions["device"][taken + 1]) /\ Free(x)
<1>1. UNCHANGED <<regions, caps, split>> /\ work = <<>> /\ split = Nil
  BY DEF TakeDevice, Idle
<1>2. PICK a \in RegionSet : a = regions["device"][taken + 1]
  <2>1. taken + 1 \in 1..Len(regions["device"])
    BY MemoryType
  <2> QED BY <2>1, MemoryType
<1>3. PICK R \in Seq(RegionSet) : R = regions["reserved"]
  BY ReservedType
<1>4. work' = <<CallOf(a, TRUE, 1)>>
  BY <1>2 DEF TakeDevice, CallOf
<1>5. SomeComes(R, x, d, work') <=> Comes(R, x, d, CallOf(a, TRUE, 1))
  BY <1>4, SomeSingle
<1>6. Comes(R, x, d, CallOf(a, TRUE, 1))
        <=> TRUE = d /\ a.start # 0 /\ In(x, a) /\ FreeIn(R, x, 1)
  BY DEF Comes, CallOf
<1>7. FreeIn(R, x, 1) <=> Free(x)
  <2>1. \A j \in 1..Len(R) : j >= 1
    BY LenProperties
  <2> QED BY <1>3, <2>1 DEF FreeIn, Free, Elements
<1>8. ~SomeComes(R, x, d, work)
  BY <1>1, SomeEmpty
<1>9. /\ HandedOut(x, d) <=> SomeCap(caps, x, d) \/ SomeComes(R, x, d, work) \/ InPart(split, x, d)
      /\ HandedOut(x, d)' <=> \/ SomeCap(caps', x, d) \/ SomeComes(R, x, d, work')
                              \/ InPart(split', x, d)
  <2>1. BootTypes /\ BootTypes' /\ R = regions'["reserved"]
    BY <1>1, <1>3 DEF Typed
  <2> QED BY <1>3, <2>1, HandedOutIs, HandedOutIsNext
<1>10. In(x, a) => (AtZero(x, a) <=> a.start = 0)
  BY AtZeroIs
<1> QED BY <1>1, <1>2, <1>5, <1>6, <1>7, <1>8, <1>9, <1>10

(* What is due, of the reserved regions R and the regions M or D.          *)
FreeOf(R, x) == \A j \in 1..Len(R) : ~In(x, R[j])

DueM(R, M, x, n) == FreeOf(R, x) /\ \E i \in 1..n : DueIn(x, M[i])

InDevice(x, a) == In(x, a) /\ ~AtZero(x, a)

DueD(R, D, x, n) == FreeOf(R, x) /\ \E i \in 1..n : InDevice(x, D[i])

LEMMA FreeIs ==
  ASSUME NEW x
  PROVE  Free(x) <=> FreeOf(regions["reserved"], x)
BY DEF Free, FreeOf, Elements

LEMMA DueMore ==
  ASSUME NEW R, NEW M, NEW x, NEW n \in Nat
  PROVE  /\ DueM(R, M, x, n + 1) <=> DueM(R, M, x, n) \/ (FreeOf(R, x) /\ DueIn(x, M[n + 1]))
         /\ DueD(R, M, x, n + 1) <=> DueD(R, M, x, n) \/ (FreeOf(R, x) /\ InDevice(x, M[n + 1]))
         /\ ~DueM(R, M, x, 0) /\ ~DueD(R, M, x, 0)
<1>1. \A i : i \in 1..(n + 1) <=> (i \in 1..n \/ i = n + 1)
  OBVIOUS
<1>2. ~\E i : i \in 1..0
  OBVIOUS
<1> QED BY <1>1, <1>2 DEF DueM, DueD

ExactAt(x) ==
  /\ HandedOut(x, FALSE)
       <=> DueM(regions["reserved"], regions["memory"], x, TakenOf("memory"))
  /\ HandedOut(x, TRUE)
       <=> DueD(regions["reserved"], regions["device"], x, TakenOf("device"))

LEMMA DueIs ==
  ASSUME NEW x
  PROVE  /\ DueMemory(x, TakenOf("memory"))
              <=> DueM(regions["reserved"], regions["memory"], x, TakenOf("memory"))
         /\ DueDevice(x, TakenOf("device"))
              <=> DueD(regions["reserved"], regions["device"], x, TakenOf("device"))
<1>1. Free(x) <=> FreeOf(regions["reserved"], x)
  BY FreeIs
<1> QED BY <1>1 DEF DueMemory, DueDevice, DueM, DueD, DueIn, InDevice

AllExact == phase # "halted" => \A x \in 0..(CellBase * CellBase) : ExactAt(x)

LEMMA ExactIs == Exact <=> AllExact
BY DueIs DEF Exact, ExactAt, AllExact

LEMMA ExactIsNext ==
  Exact' <=> (phase' # "halted" => \A x \in 0..(CellBase * CellBase) : ExactAt(x)')
<1>1. Exact' <=> AllExact'
  BY ExactIs, PTL
<1> QED BY <1>1 DEF AllExact

LEMMA AddressType ==
  ASSUME NEW x \in 0..(CellBase * CellBase)
  PROVE  x \in Nat
BY WordType

ExactAtNext(x) ==
  /\ HandedOut(x, FALSE)'
       <=> DueM(regions'["reserved"], regions'["memory"], x, TakenOf("memory")')
  /\ HandedOut(x, TRUE)'
       <=> DueD(regions'["reserved"], regions'["device"], x, TakenOf("device")')

LEMMA ExactAtNextIs ==
  ASSUME NEW x, ExactAtNext(x)
  PROVE  ExactAt(x)'
BY DEF ExactAt, ExactAtNext, DueM, DueD, FreeOf, DueIn, InDevice

(* Nothing is handed out before anything is due.                           *)
LEMMA NothingYet ==
  ASSUME Typed', caps' = <<>>, work' = <<>>, split' = Nil,
         TakenOf("memory")' = 0, TakenOf("device")' = 0
  PROVE  Exact'
<1>1. ASSUME NEW x \in Nat PROVE ExactAt(x)'
  <2>1. \A R, M : ~DueM(R, M, x, 0) /\ ~DueD(R, M, x, 0)
    BY DueMore
  <2>2. ASSUME NEW d PROVE ~HandedOut(x, d)'
    <3>1. ~SomeCap(caps', x, d) /\ ~SomeComes(regions'["reserved"], x, d, work')
          /\ ~InPart(split', x, d)
      BY SomeEmpty DEF SomeCap, InPart
    <3>2. BootTypes'
      BY DEF Typed
    <3> QED BY <3>1, <3>2, HandedOutIsNext
  <2>3. ExactAtNext(x)
    BY <2>1, <2>2 DEF ExactAtNext
  <2> QED BY <2>3, ExactAtNextIs
<1> QED BY <1>1, AddressType, ExactIsNext

(* A step that takes no region and hands out what was to be handed out.    *)
LEMMA ExactSteady ==
  ASSUME UNCHANGED regions, phase # "halted", Exact,
         TakenOf("memory")' = TakenOf("memory"), TakenOf("device")' = TakenOf("device"),
         \A x \in Nat : \A d \in BOOLEAN : HandedOut(x, d)' <=> HandedOut(x, d)
  PROVE  Exact'
<1>1. ASSUME NEW x \in 0..(CellBase * CellBase) PROVE ExactAt(x)'
  <2>1. ExactAt(x)
    BY ExactIs DEF AllExact
  <2>2. (HandedOut(x, FALSE)' <=> HandedOut(x, FALSE)) /\ (HandedOut(x, TRUE)' <=> HandedOut(x, TRUE))
    <3>1. x \in Nat
      BY AddressType
    <3> QED BY <3>1, Zenon
  <2>3. ExactAtNext(x)
    BY <2>1, <2>2 DEF ExactAt, ExactAtNext
  <2> QED BY <2>3, ExactAtNextIs
<1> QED BY <1>1, ExactIsNext

LEMMA UprightStays ==
  ASSUME UNCHANGED regions
  PROVE  Upright' <=> Upright
BY DEF Upright, Elements

LEMMA TakeMemoryExact ==
  ASSUME Typed, Typed', Exact, TakeMemory
  PROVE  Exact'
<1>1. /\ phase = "memory" /\ UNCHANGED <<regions, caps, split>>
  BY DEF TakeMemory, Idle
<1>2. taken \in Nat /\ Len(regions["memory"]) \in Nat /\ taken <= Len(regions["memory"])
  BY <1>1, MemoryType DEF Typed, Phases
<1>3. CASE taken < Len(regions["memory"])
  <2>1. taken' = taken + 1 /\ phase' = "memory"
    BY <1>1, <1>3 DEF TakeMemory
  <2>2. /\ TakenOf("memory") = taken /\ TakenOf("device") = 0
        /\ TakenOf("memory")' = taken + 1 /\ TakenOf("device")' = 0
    BY <1>1, <2>1 DEF TakenOf
  <2>3. ASSUME NEW x \in 0..(CellBase * CellBase) PROVE ExactAt(x)'
    <3>1. ExactAt(x) /\ x \in Nat
      BY <1>1, ExactIs, AddressType DEF AllExact
    <3>2. ASSUME NEW d
          PROVE  HandedOut(x, d)'
                   <=> \/ HandedOut(x, d)
                       \/ d = FALSE /\ DueIn(x, regions["memory"][taken + 1]) /\ Free(x)
      BY <1>3, <3>1, TakeMemoryHands
    <3>3. /\ HandedOut(x, FALSE)' <=> \/ HandedOut(x, FALSE)
                                      \/ DueIn(x, regions["memory"][taken + 1]) /\ Free(x)
          /\ HandedOut(x, TRUE)' <=> HandedOut(x, TRUE)
      BY <3>2, Zenon
    <3>4. DueM(regions["reserved"], regions["memory"], x, taken + 1)
            <=> \/ DueM(regions["reserved"], regions["memory"], x, taken)
                \/ FreeOf(regions["reserved"], x) /\ DueIn(x, regions["memory"][taken + 1])
      BY <1>2, DueMore
    <3>5. Free(x) <=> FreeOf(regions["reserved"], x)
      BY FreeIs
    <3>6. ExactAtNext(x)
      BY <1>1, <2>2, <3>1, <3>3, <3>4, <3>5 DEF ExactAt, ExactAtNext
    <3> QED BY <3>6, ExactAtNextIs
  <2> QED BY <2>3, ExactIsNext
<1>4. CASE ~(taken < Len(regions["memory"]))
  <2>1. taken' = 0 /\ phase' = "device" /\ work' = work
    BY <1>4 DEF TakeMemory
  <2>2. TakenOf("memory")' = TakenOf("memory") /\ TakenOf("device")' = TakenOf("device")
    BY <1>1, <1>2, <1>4, <2>1 DEF TakenOf
  <2>3. \A x \in Nat : \A d \in BOOLEAN : HandedOut(x, d)' <=> HandedOut(x, d)
    BY <1>1, <2>1 DEF HandedOut, Covered, ToCome, InSplit, FreeFrom
  <2> QED BY <1>1, <2>2, <2>3, ExactSteady
<1> QED BY <1>3, <1>4

LEMMA TakeDeviceExact ==
  ASSUME Typed, Typed', Exact, TakeDevice
  PROVE  Exact'
<1>1. /\ phase = "device" /\ UNCHANGED <<regions, caps, split>>
  BY DEF TakeDevice, Idle
<1>2. taken \in Nat /\ Len(regions["device"]) \in Nat /\ taken <= Len(regions["device"])
  BY <1>1, MemoryType DEF Typed, Phases
<1>3. CASE taken < Len(regions["device"])
  <2>1. taken' = taken + 1 /\ phase' = "device"
    BY <1>1, <1>3 DEF TakeDevice
  <2>2. /\ TakenOf("device") = taken /\ TakenOf("device")' = taken + 1
        /\ TakenOf("memory")' = TakenOf("memory")
    BY <1>1, <2>1 DEF TakenOf
  <2>3. ASSUME NEW x \in 0..(CellBase * CellBase) PROVE ExactAt(x)'
    <3>1. ExactAt(x) /\ x \in Nat
      BY <1>1, ExactIs, AddressType DEF AllExact
    <3>2. ASSUME NEW d
          PROVE  HandedOut(x, d)'
                   <=> \/ HandedOut(x, d)
                       \/ d = TRUE /\ InDevice(x, regions["device"][taken + 1]) /\ Free(x)
      <4>1. HandedOut(x, d)'
              <=> \/ HandedOut(x, d)
                  \/ /\ d = TRUE /\ In(x, regions["device"][taken + 1])
                     /\ ~AtZero(x, regions["device"][taken + 1]) /\ Free(x)
        BY <1>3, <3>1, TakeDeviceHands
      <4> QED BY ONLY <4>1, Zenon DEF InDevice
    <3>3. /\ HandedOut(x, TRUE)' <=> \/ HandedOut(x, TRUE)
                                     \/ InDevice(x, regions["device"][taken + 1]) /\ Free(x)
          /\ HandedOut(x, FALSE)' <=> HandedOut(x, FALSE)
      BY <3>2, Zenon
    <3>4. DueD(regions["reserved"], regions["device"], x, taken + 1)
            <=> \/ DueD(regions["reserved"], regions["device"], x, taken)
                \/ FreeOf(regions["reserved"], x) /\ InDevice(x, regions["device"][taken + 1])
      BY <1>2, DueMore
    <3>5. Free(x) <=> FreeOf(regions["reserved"], x)
      BY FreeIs
    <3>6. ExactAtNext(x)
      BY <1>1, <2>2, <3>1, <3>3, <3>4, <3>5 DEF ExactAt, ExactAtNext
    <3> QED BY <3>6, ExactAtNextIs
  <2> QED BY <2>3, ExactIsNext
<1>4. CASE ~(taken < Len(regions["device"]))
  <2>1. taken' = 0 /\ phase' = "map" /\ work' = work
    BY <1>4 DEF TakeDevice
  <2>2. TakenOf("memory")' = TakenOf("memory") /\ TakenOf("device")' = TakenOf("device")
    BY <1>1, <1>2, <1>4, <2>1 DEF TakenOf
  <2>3. \A x \in Nat : \A d \in BOOLEAN : HandedOut(x, d)' <=> HandedOut(x, d)
    BY <1>1, <2>1 DEF HandedOut, Covered, ToCome, InSplit, FreeFrom
  <2> QED BY <1>1, <2>2, <2>3, ExactSteady
<1> QED BY <1>3, <1>4

LEMMA ExactStays ==
  ASSUME Typed, Typed', Upright => Exact, [BootNext]_bootVars
  PROVE  Upright' => Exact'
<1>1. CASE Walk
  <2>1. phase = "walk" /\ UNCHANGED <<taken, work, split, caps>>
    BY <1>1 DEF Walk
  <2>2. phase' \in {"walk", "halted"}
    BY <1>1 DEF Walk
  <2>3. CASE phase' = "halted"
    BY <2>3, ExactIsNext
  <2>4. CASE phase' = "walk"
    <3>1. caps' = <<>> /\ work' = <<>> /\ split' = Nil
      BY <2>1 DEF Typed, Phases
    <3>2. TakenOf("memory")' = 0 /\ TakenOf("device")' = 0
      BY <2>4 DEF TakenOf
    <3> QED BY <3>1, <3>2, NothingYet
  <2> QED BY <2>2, <2>3, <2>4
<1>2. CASE WalkEnds
  <2>1. phase = "walk" /\ UNCHANGED <<taken, work, split, caps>> /\ phase' \in {"memory", "halted"}
    BY <1>2 DEF WalkEnds
  <2>2. CASE phase' = "halted"
    BY <2>2, ExactIsNext
  <2>3. CASE phase' = "memory"
    <3>1. caps' = <<>> /\ work' = <<>> /\ split' = Nil /\ taken' = 0
      BY <2>1 DEF Typed, Phases
    <3>2. TakenOf("memory")' = 0 /\ TakenOf("device")' = 0
      BY <2>3, <3>1 DEF TakenOf
    <3> QED BY <3>1, <3>2, NothingYet
  <2> QED BY <2>1, <2>2, <2>3
<1>3. CASE TakeMemory
  <2>1. UNCHANGED regions
    BY <1>3 DEF TakeMemory
  <2> QED BY <1>3, <2>1, UprightStays, TakeMemoryExact
<1>4. CASE TakeDevice
  <2>1. UNCHANGED regions
    BY <1>4 DEF TakeDevice
  <2> QED BY <1>4, <2>1, UprightStays, TakeDeviceExact
<1>5. CASE Call \/ SplitEnds \/ Cut
  <2>1. UNCHANGED <<regions, taken>> /\ phase' \in {phase, "halted"}
    BY <1>5 DEF Call, SplitEnds, Cut, CutOff
  <2>2. CASE phase' = "halted"
    BY <2>2, ExactIsNext
  <2>3. CASE phase' # "halted"
    <3> SUFFICES ASSUME Upright PROVE Exact'
      BY <2>1, UprightStays
    <3>1. phase' = phase /\ Exact
      BY <2>1, <2>3
    <3>2. TakenOf("memory")' = TakenOf("memory") /\ TakenOf("device")' = TakenOf("device")
      BY <2>1, <3>1 DEF TakenOf
    <3>3. \A x \in Nat : \A d \in BOOLEAN : HandedOut(x, d)' <=> HandedOut(x, d)
      BY <1>5, <2>3, CallHands, SplitEndsHands, CutHands
    <3> QED BY <2>1, <2>3, <3>1, <3>2, <3>3, ExactSteady
  <2> QED BY <2>2, <2>3
<1>6. CASE MapPage \/ MapEnds \/ UNCHANGED bootVars
  <2>1. /\ UNCHANGED <<regions, work, split, caps>>
        /\ \/ phase = "map" /\ phase' \in {"map", "done", "halted"}
           \/ phase' = phase /\ taken' = taken
    BY <1>6 DEF MapPage, MapEnds, bootVars
  <2>2. CASE phase' = "halted"
    BY <2>2, ExactIsNext
  <2>3. CASE phase' # "halted"
    <3> SUFFICES ASSUME Upright PROVE Exact'
      BY <2>1, UprightStays
    <3>1. phase # "halted" /\ Exact
      BY <2>1, <2>3
    <3>2. TakenOf("memory")' = TakenOf("memory") /\ TakenOf("device")' = TakenOf("device")
      BY <2>1, <2>3 DEF TakenOf
    <3>3. \A x \in Nat : \A d \in BOOLEAN : HandedOut(x, d)' <=> HandedOut(x, d)
      BY <2>1 DEF HandedOut, Covered, ToCome, InSplit, FreeFrom
    <3> QED BY <2>1, <3>1, <3>2, <3>3, ExactSteady
  <2> QED BY <2>2, <2>3
<1>7. Grow \/ Shrink => Cut
  BY GrowCuts, ShrinkCuts
<1> QED BY <1>1, <1>2, <1>3, <1>4, <1>5, <1>6, <1>7 DEF BootNext, BootStep, Over

-----------------------------------------------------------------------------
(* Blocks are aligned to their size.                                       *)

Divides(z, s) == \E k \in Nat : s = z * k

LEMMA QuotientBelow ==
  ASSUME NEW z \in Nat \ {0}, NEW s \in Nat
  PROVE  Divides(z, s) <=> \E k \in 0..s : s = z * k
<1>1. ASSUME NEW k \in Nat, s = z * k PROVE k \in 0..s
  <2>1. PICK y \in Nat : z = y + 1
    <3>1. z - 1 \in Nat /\ z = z - 1 + 1
      OBVIOUS
    <3> QED BY ONLY <3>1
  <2>2. s = y * k + k /\ y * k \in Nat
    BY <1>1, <2>1
  <2> QED BY <2>2
<1>2. \A k \in 0..s : k \in Nat
  OBVIOUS
<1> QED BY <1>1, <1>2 DEF Divides

LEMMA DividesNext ==
  ASSUME NEW z \in Nat \ {0}, NEW s \in Nat, Divides(z, s)
  PROVE  Divides(z, s + z)
<1>1. PICK k \in Nat : s = z * k
  BY DEF Divides
<1>2. s + z = z * (k + 1) /\ k + 1 \in Nat
  BY <1>1
<1> QED BY <1>2 DEF Divides

LEMMA QuotientOf ==
  ASSUME NEW z \in Nat \ {0}, NEW k \in Nat
  PROVE  (z * k) \div z = k /\ (z * k) % z = 0
<1>1. 0 \in 0..(z - 1)
  OBVIOUS
<1>2. (z * k + 0) \div z = k /\ (z * k + 0) % z = 0
  BY <1>1, DivModOf
<1>3. z * k + 0 = z * k
  OBVIOUS
<1> QED BY <1>2, <1>3

(* The address is a multiple of twice the size, or becomes one.            *)
LEMMA DividesTwice ==
  ASSUME NEW z \in Nat \ {0}, NEW s \in Nat, Divides(z, s)
  PROVE  /\ (s \div z) % 2 = 1 => Divides(2 * z, s + z)
         /\ (s \div z) % 2 # 1 => Divides(2 * z, s)
<1>1. PICK k \in Nat : s = z * k
  BY DEF Divides
<1>2. s \div z = k
  BY <1>1, QuotientOf
<1>3. PICK j \in Nat, r \in 0..1 : r = k % 2 /\ k = 2 * j + r
  <2>1. k \div 2 \in Nat /\ k % 2 \in 0..(2 - 1) /\ k = 2 * (k \div 2) + (k % 2)
    BY DivMod
  <2> QED BY <2>1
<1>4. CASE r = 1
  <2>1. s + z = (2 * z) * (j + 1) /\ j + 1 \in Nat
    <3>1. k = 2 * j + 1
      BY <1>3, <1>4
    <3> QED BY ONLY <1>1, <3>1, z \in Nat, j \in Nat, k \in Nat
  <2>2. Divides(2 * z, s + z)
    BY <2>1 DEF Divides
  <2> QED BY <1>2, <1>3, <1>4, <2>2
<1>5. CASE r # 1
  <2>1. s = (2 * z) * j
    <3>1. k = 2 * j
      BY <1>3, <1>5
    <3> QED BY ONLY <1>1, <3>1, z \in Nat, j \in Nat, k \in Nat
  <2>2. Divides(2 * z, s)
    BY <2>1 DEF Divides
  <2> QED BY <1>2, <1>3, <1>5, <2>2
<1> QED BY <1>4, <1>5

LEMMA DividesHalf ==
  ASSUME NEW z \in Nat \ {0}, NEW s \in Nat, Divides(2 * z, s)
  PROVE  Divides(z, s)
<1>1. PICK k \in Nat : s = (2 * z) * k
  BY DEF Divides
<1>2. s = z * (2 * k) /\ 2 * k \in Nat
  BY <1>1
<1> QED BY <1>2 DEF Divides

CapAligned(c) == Divides(c.size, c.base)

(* Aligned, of what is left and of the capabilities.                       *)
AlignedPart(s) == s # Nil => Divides(BlockSize(s.bit), s.start)

AllAligned(q) == \A i \in 1..Len(q) : CapAligned(q[i])

LEMMA AlignedIs ==
  ASSUME BootTypes
  PROVE  Aligned <=> AlignedPart(split) /\ AllAligned(caps)
<1>1. split # Nil => (Divides(BlockSize(split.bit), split.start)
                        <=> \E k \in 0..split.start : split.start = BlockSize(split.bit) * k)
  BY SplitFields, QuotientBelow
<1>2. ASSUME NEW i \in 1..Len(caps)
      PROVE  Divides(caps[i].size, caps[i].base)
               <=> \E k \in 0..caps[i].base : caps[i].base = caps[i].size * k
  <2>1. caps[i] \in CapSet
    BY ElementOfSeq DEF BootTypes
  <2>2. caps[i].size \in Nat \ {0} /\ caps[i].base \in Nat
    BY <2>1 DEF CapSet
  <2> QED BY <2>2, QuotientBelow
<1> QED BY <1>1, <1>2 DEF Aligned, AlignedPart, AllAligned, CapAligned

LEMMA AlignedIsNext ==
  ASSUME BootTypes'
  PROVE  Aligned' <=> AlignedPart(split') /\ AllAligned(caps')
<1>1. (BootTypes => (Aligned <=> AlignedPart(split) /\ AllAligned(caps)))'
  <2>1. BootTypes => (Aligned <=> AlignedPart(split) /\ AllAligned(caps))
    BY AlignedIs
  <2> QED BY AlignedIs, PTL
<1> QED BY <1>1 DEF AlignedPart, AllAligned, CapAligned, Divides

LEMMA CutAligned ==
  ASSUME Typed, Typed', Cut, Aligned
  PROVE  Aligned'
<1>1. split # Nil /\ split \in SplitSet /\ BootTypes
  BY SplitFields DEF Cut, Typed
<1>2. PICK s \in Nat, b \in Nat, z \in Nat \ {0} :
        s = split.start /\ b = split.bit /\ z = BlockSize(b)
  BY <1>1, SplitFields
<1>3. Divides(z, s) /\ AllAligned(caps)
  BY <1>1, <1>2, AlignedIs DEF AlignedPart
<1>4. BlockSize(b + 1) = 2 * z
  BY <1>2, BlockSizeType
<1>5. \A k : CutSplit(k).start = s + z /\ CutSplit(k).bit = k
  BY <1>1, <1>2 DEF CutSplit, SplitSet
<1>6. AlignedPart(split')
  <2>1. CASE phase' = "halted" /\ caps' = caps /\ split' = split
    BY <1>2, <1>3, <2>1 DEF AlignedPart
  <2>2. CASE CutOff(split.bit)
    <3>1. split'.start = s + z /\ split'.bit = b
      BY <1>2, <1>5, <2>2 DEF CutOff
    <3>2. Divides(z, s + z)
      BY <1>3, DividesNext
    <3> QED BY <1>2, <3>1, <3>2 DEF AlignedPart
  <2>3. CASE (s \div z) % 2 = 1 /\ CutOff(split.bit + 1)
    <3>1. split'.start = s + z /\ split'.bit = b + 1
      BY <1>2, <1>5, <2>3 DEF CutOff
    <3>2. Divides(2 * z, s + z)
      BY <1>3, <2>3, DividesTwice
    <3> QED BY <1>4, <3>1, <3>2 DEF AlignedPart
  <2>4. CASE split' = [split EXCEPT !.up = FALSE]
    <3>1. split'.start = s /\ split'.bit = b
      BY <1>1, <1>2, <2>4 DEF SplitSet
    <3> QED BY <1>2, <1>3, <3>1 DEF AlignedPart
  <2>5. CASE (s \div z) % 2 # 1 /\ split' = [split EXCEPT !.bit = split.bit + 1]
    <3>1. split'.start = s /\ split'.bit = b + 1
      BY <1>1, <1>2, <2>5 DEF SplitSet
    <3>2. Divides(2 * z, s)
      BY <1>3, <2>5, DividesTwice
    <3> QED BY <1>4, <3>1, <3>2 DEF AlignedPart
  <2>6. CASE split.bit # 0 /\ split' = [split EXCEPT !.bit = split.bit - 1]
    <3>1. PICK c \in Nat : c = b - 1 /\ b = c + 1
      BY <1>2, <2>6
    <3>2. split'.start = s /\ split'.bit = c
      BY <1>1, <1>2, <2>6, <3>1 DEF SplitSet
    <3>3. PICK y \in Nat \ {0} : y = BlockSize(c) /\ z = 2 * y
      BY <1>2, <3>1, BlockSizeType
    <3>4. Divides(y, s)
      BY <1>3, <3>3, DividesHalf
    <3> QED BY <3>2, <3>3, <3>4 DEF AlignedPart
  <2> QED BY <1>2, <2>1, <2>2, <2>3, <2>4, <2>5, <2>6 DEF Cut
<1>7. AllAligned(caps')
  <2>1. CASE caps' = caps
    BY <1>3, <2>1
  <2>2. CASE caps' = Append(caps, CutCap)
    <3>1. caps \in Seq(CapSet) /\ CutCap \in CapSet
      BY <1>1, CutCapType DEF BootTypes
    <3>2. CapAligned(CutCap)
      BY <1>2, <1>3 DEF CapAligned, CutCap
    <3>3. /\ Len(caps') = Len(caps) + 1 /\ caps'[Len(caps) + 1] = CutCap /\ Len(caps) \in Nat
          /\ \A i \in 1..Len(caps) : caps'[i] = caps[i]
      BY <2>2, <3>1, AppendProperties, LenProperties
    <3>4. \A i \in 1..Len(caps') : i = Len(caps) + 1 \/ i \in 1..Len(caps)
      BY <3>3
    <3> QED BY <1>3, <3>2, <3>3, <3>4 DEF AllAligned
  <2> QED BY <2>1, <2>2 DEF Cut, CutOff
<1> QED BY <1>6, <1>7, AlignedIsNext DEF Typed

LEMMA CallAligned ==
  ASSUME Typed, Typed', Call, Aligned
  PROVE  Aligned'
<1>1. caps' = caps /\ BootTypes
  BY DEF Call, Typed
<1>2. split' = Nil \/ (split'.bit = 0 /\ split'.start \in Nat)
  <2>1. split' = Nil \/ split' = [start |-> Head(work).region.start, end |-> Head(work).region.end,
                                  device |-> Head(work).device, bit |-> 0, up |-> TRUE]
    BY DEF Call, FirstBit
  <2>2. Head(work).region.start \in Nat
    <3>1. work # <<>>
      BY DEF Call
    <3> QED BY <1>1, <3>1, WorkType, RegionFields
  <2> QED BY <2>1, <2>2
<1>3. AlignedPart(split')
  <2>1. ASSUME NEW s \in Nat PROVE Divides(1, s)
    <3>1. s = 1 * s
      OBVIOUS
    <3> QED BY <3>1 DEF Divides
  <2> QED BY <1>2, <2>1, BlockSizeType DEF AlignedPart
<1>4. AllAligned(caps')
  BY <1>1, AlignedIs
<1> QED BY <1>3, <1>4, AlignedIsNext DEF Typed

LEMMA AlignedStays ==
  ASSUME Typed, Typed', Aligned, [BootNext]_bootVars
  PROVE  Aligned'
<1>1. ASSUME UNCHANGED caps, split' = split \/ split' = Nil PROVE Aligned'
  <2>1. AlignedPart(split) /\ AllAligned(caps)
    BY AlignedIs DEF Typed
  <2>2. AlignedPart(split') /\ AllAligned(caps')
    BY <1>1, <2>1 DEF AlignedPart
  <2> QED BY <2>2, AlignedIsNext DEF Typed
<1>2. Walk \/ WalkEnds \/ TakeMemory \/ TakeDevice \/ MapPage \/ MapEnds \/ SplitEnds
        \/ UNCHANGED bootVars
        => UNCHANGED caps /\ (split' = split \/ split' = Nil)
  BY DEF Walk, WalkEnds, TakeMemory, TakeDevice, MapPage, MapEnds, SplitEnds, bootVars
<1>3. Grow \/ Shrink => Cut
  BY GrowCuts, ShrinkCuts
<1> QED BY <1>1, <1>2, <1>3, CallAligned, CutAligned DEF BootNext, BootStep, Over

-----------------------------------------------------------------------------
(* No two capabilities share an address.                                   *)

HasBounds(r) == r.start \in Nat /\ r.end \in Nat

Within(a, b) == b.start <= a.start /\ a.end <= b.end

LEMMA ApartSym ==
  ASSUME NEW a, NEW b, Apart(a, b)
  PROVE  Apart(b, a)
BY DEF Apart

LEMMA ApartWithin ==
  ASSUME NEW a, NEW b, NEW r, HasBounds(a), HasBounds(b), HasBounds(r),
         Within(a, b), Apart(b, r)
  PROVE  Apart(a, r) /\ Apart(r, a)
BY DEF Apart, Within, HasBounds

LEMMA BlockBounds ==
  ASSUME NEW c \in CapSet
  PROVE  /\ HasBounds(Block(c))
         /\ Block(c).start = c.base /\ Block(c).end = c.base + c.size
<1>1. c.base \in Nat /\ c.size \in Nat
  BY DEF CapSet
<1>2. Block(c) = [start |-> c.base, end |-> c.base + c.size]
  BY DEF Block, Region
<1> QED BY <1>1, <1>2 DEF HasBounds

AllApart(C, r) == \A i \in 1..Len(C) : Apart(Block(C[i]), r)

WorkApart(W, r) == \A i \in 1..Len(W) : Apart(W[i].region, r)

PartApart(s, r) == s # Nil => Apart(s, r)

(* r is apart from all that was handed out or is to come.                  *)
FromAll(C, W, s, r) == AllApart(C, r) /\ WorkApart(W, r) /\ PartApart(s, r)

CapPairs(C) == \A i, j \in 1..Len(C) : i # j => Apart(Block(C[i]), Block(C[j]))

WorkPairs(W) == \A i, j \in 1..Len(W) : i # j => Apart(W[i].region, W[j].region)

CapsFromWork(C, W) == \A j \in 1..Len(W) : AllApart(C, W[j].region)

FromPart(C, W, s) == s # Nil => AllApart(C, s) /\ WorkApart(W, s)

(* The parts are apart from each other, and from the regions still to come.*)
Sep(C, W, s) == CapPairs(C) /\ WorkPairs(W) /\ CapsFromWork(C, W) /\ FromPart(C, W, s)

RestApart(C, W, s, R, n) == \A j \in 1..Len(R) : j > n => FromAll(C, W, s, R[j])

SepNow ==
  /\ Sep(caps, work, split)
  /\ RestApart(caps, work, split, regions["memory"], TakenOf("memory"))
  /\ RestApart(caps, work, split, regions["device"], TakenOf("device"))

LEMMA SeparateIs == Separate <=> SepNow
<1>1. /\ Sep(caps, work, split)
         <=> /\ \A i, j \in 1..Len(caps) : i # j => Apart(Block(caps[i]), Block(caps[j]))
             /\ \A i, j \in 1..Len(work) : i # j => Apart(work[i].region, work[j].region)
             /\ \A i \in 1..Len(caps), j \in 1..Len(work) : Apart(Block(caps[i]), work[j].region)
             /\ split # Nil =>
                  /\ \A i \in 1..Len(caps) : Apart(Block(caps[i]), split)
                  /\ \A i \in 1..Len(work) : Apart(work[i].region, split)
  BY DEF Sep, CapPairs, WorkPairs, CapsFromWork, FromPart, AllApart, WorkApart
<1>2. ASSUME NEW r PROVE ApartFrom(r) <=> FromAll(caps, work, split, r)
  BY DEF ApartFrom, FromAll, AllApart, WorkApart, PartApart
<1>3. (\A kind \in {"memory", "device"} : \A j \in 1..Len(regions[kind]) :
         j > TakenOf(kind) => ApartFrom(regions[kind][j]))
        <=> /\ RestApart(caps, work, split, regions["memory"], TakenOf("memory"))
            /\ RestApart(caps, work, split, regions["device"], TakenOf("device"))
  BY <1>2 DEF RestApart
<1> QED BY <1>1, <1>3 DEF Separate, SepNow

LEMMA SeparateIsNext ==
  Separate'
    <=> /\ Sep(caps', work', split')
        /\ RestApart(caps', work', split', regions'["memory"], TakenOf("memory")')
        /\ RestApart(caps', work', split', regions'["device"], TakenOf("device")')
<1>1. Separate' <=> SepNow'
  BY SeparateIs, PTL
<1>2. SepNow'
        <=> /\ Sep(caps', work', split')
            /\ RestApart(caps', work', split', regions'["memory"], TakenOf("memory")')
            /\ RestApart(caps', work', split', regions'["device"], TakenOf("device")')
  BY DEF SepNow, Sep, RestApart, CapPairs, WorkPairs, CapsFromWork, FromPart, FromAll, AllApart,
         WorkApart, PartApart
<1> QED BY <1>1, <1>2

-----------------------------------------------------------------------------
(* Calls.                                                                  *)

LEMMA WorkConcat ==
  ASSUME NEW v \in Seq(CallSet), NEW t \in Seq(CallSet)
  PROVE  \A i \in 1..Len(v \o t) :
           \/ i \in 1..Len(v) /\ (v \o t)[i] = v[i]
           \/ i - Len(v) \in 1..Len(t) /\ (v \o t)[i] = t[i - Len(v)] /\ i > Len(v)
<1>0. Len(v) \in Nat /\ Len(t) \in Nat /\ Len(v \o t) = Len(v) + Len(t)
  BY LenProperties, ConcatProperties
<1>1. \A i \in 1..(Len(v) + Len(t)) : (v \o t)[i] = IF i <= Len(v) THEN v[i] ELSE t[i - Len(v)]
  BY ConcatProperties
<1> TAKE i \in 1..Len(v \o t)
<1>2. CASE i <= Len(v)
  BY <1>0, <1>1, <1>2
<1>3. CASE ~(i <= Len(v))
  BY <1>0, <1>1, <1>3
<1> QED BY <1>2, <1>3

LEMMA ConcatApart ==
  ASSUME NEW v \in Seq(CallSet), NEW t \in Seq(CallSet), NEW r,
         WorkApart(v, r), WorkApart(t, r)
  PROVE  WorkApart(v \o t, r)
BY WorkConcat DEF WorkApart

LEMMA ConcatFrom ==
  ASSUME NEW v \in Seq(CallSet), NEW t \in Seq(CallSet), NEW C,
         CapsFromWork(C, v), CapsFromWork(C, t)
  PROVE  CapsFromWork(C, v \o t)
BY WorkConcat DEF CapsFromWork

Crosswise(v, t) == \A j \in 1..Len(t) : WorkApart(v, t[j].region)

LEMMA ConcatPairs ==
  ASSUME NEW v \in Seq(CallSet), NEW t \in Seq(CallSet),
         WorkPairs(v), WorkPairs(t), Crosswise(v, t)
  PROVE  WorkPairs(v \o t)
<1> DEFINE w == v \o t
<1> SUFFICES ASSUME NEW i \in 1..Len(w), NEW j \in 1..Len(w), i # j
             PROVE  Apart(w[i].region, w[j].region)
  BY DEF WorkPairs
<1>0. Len(v) \in Nat
  BY LenProperties
<1>1. \/ i \in 1..Len(v) /\ w[i] = v[i]
      \/ i - Len(v) \in 1..Len(t) /\ w[i] = t[i - Len(v)] /\ i > Len(v)
  BY WorkConcat
<1>2. \/ j \in 1..Len(v) /\ w[j] = v[j]
      \/ j - Len(v) \in 1..Len(t) /\ w[j] = t[j - Len(v)] /\ j > Len(v)
  BY WorkConcat
<1> HIDE DEF w
<1>3. CASE i \in 1..Len(v) /\ w[i] = v[i] /\ j \in 1..Len(v) /\ w[j] = v[j]
  BY <1>3 DEF WorkPairs
<1>4. CASE i \in 1..Len(v) /\ w[i] = v[i] /\ j - Len(v) \in 1..Len(t) /\ w[j] = t[j - Len(v)]
  BY <1>4 DEF Crosswise, WorkApart
<1>5. CASE i - Len(v) \in 1..Len(t) /\ w[i] = t[i - Len(v)] /\ j \in 1..Len(v) /\ w[j] = v[j]
  <2>1. Apart(w[j].region, w[i].region)
    BY <1>5 DEF Crosswise, WorkApart
  <2> QED BY <2>1, ApartSym
<1>6. CASE /\ i - Len(v) \in 1..Len(t) /\ w[i] = t[i - Len(v)] /\ i > Len(v)
           /\ j - Len(v) \in 1..Len(t) /\ w[j] = t[j - Len(v)] /\ j > Len(v)
  <2>1. i \in Int /\ j \in Int
    OBVIOUS
  <2>2. i - Len(v) # j - Len(v)
    BY <1>0, <2>1
  <2> QED BY <1>6, <2>2 DEF WorkPairs
<1> QED BY <1>1, <1>2, <1>3, <1>4, <1>5, <1>6

(* The calls v are for parts of the region a.                              *)
PartsOf(v, a) ==
  WorkPairs(v) /\ \A r : HasBounds(r) /\ Apart(a, r) => WorkApart(v, r)

LEMMA PartsApart ==
  ASSUME NEW v, NEW a, PartsOf(v, a), NEW r, HasBounds(r), Apart(a, r)
  PROVE  WorkApart(v, r)
BY DEF PartsOf

LEMMA OneCallApart ==
  ASSUME NEW p \in RegionSet, NEW a \in RegionSet, Within(p, a) \/ ~(p.start < p.end),
         NEW device, NEW index
  PROVE  PartsOf(CallsFor(p, device, index), a)
<1>1. CASE p.start < p.end
  <2>1. Within(p, a)
    BY <1>1
  <2>2. CallsFor(p, device, index) = <<CallOf(p, device, index)>>
    BY <1>1 DEF CallsFor
  <2>3. /\ Len(<<CallOf(p, device, index)>>) = 1
        /\ <<CallOf(p, device, index)>>[1].region = p /\ 1..1 = {1}
    BY DEF CallOf
  <2>4. WorkPairs(CallsFor(p, device, index))
    BY <2>2, <2>3 DEF WorkPairs
  <2>5. ASSUME NEW r, HasBounds(r), Apart(a, r) PROVE WorkApart(CallsFor(p, device, index), r)
    <3>1. HasBounds(p) /\ HasBounds(a)
      BY RegionFields DEF HasBounds
    <3>2. Apart(p, r)
      BY <2>1, <2>5, <3>1, ApartWithin
    <3> QED BY <2>2, <2>3, <3>2 DEF WorkApart
  <2> QED BY <2>4, <2>5 DEF PartsOf
<1>2. CASE ~(p.start < p.end)
  <2>1. CallsFor(p, device, index) = <<>>
    BY <1>2 DEF CallsFor
  <2>2. WorkPairs(<<>>) /\ \A r : WorkApart(<<>>, r)
    BY DEF WorkPairs, WorkApart
  <2> QED BY <2>1, <2>2 DEF PartsOf
<1> QED BY <1>1, <1>2

LEMMA SubtractedWithin ==
  ASSUME NEW a \in RegionSet, NEW b \in RegionSet, b.start <= b.end,
         NEW p, p = SubtractRegion(a, b)[1], NEW q, q = SubtractRegion(a, b)[2]
  PROVE  /\ Within(p, a) \/ ~(p.start < p.end)
         /\ Within(q, a) \/ ~(q.start < q.end)
         /\ p.start < p.end /\ q.start < q.end => Apart(p, q)
<1>1. a.start \in Nat /\ a.end \in Nat /\ b.start \in Nat /\ b.end \in Nat
  BY RegionFields
<1> QED BY <1>1 DEF SubtractRegion, Within, Apart, Region, Nothing

LEMMA SubtractedParts ==
  ASSUME NEW a \in RegionSet, NEW b \in RegionSet, b.start <= b.end,
         NEW device \in BOOLEAN, NEW index \in Nat \ {0}
  PROVE  PartsOf(Calls(SubtractRegion(a, b), device, index), a)
<1>1. PICK p, q \in RegionSet : p = SubtractRegion(a, b)[1] /\ q = SubtractRegion(a, b)[2]
  BY PieceTypes
<1>2. PICK v, w \in Seq(CallSet) : v = CallsFor(p, device, index) /\ w = CallsFor(q, device, index)
  BY CallsForType
<1>3. Calls(SubtractRegion(a, b), device, index) = v \o w
  BY <1>1, <1>2, CallsAre
<1>4. /\ Within(p, a) \/ ~(p.start < p.end)
      /\ Within(q, a) \/ ~(q.start < q.end)
      /\ p.start < p.end /\ q.start < q.end => Apart(p, q)
  BY <1>1, SubtractedWithin
<1>5. PartsOf(v, a) /\ PartsOf(w, a)
  BY <1>2, <1>4, OneCallApart
<1>6. Crosswise(v, w)
  <2>1. CASE p.start < p.end /\ q.start < q.end
    <3>1. v = <<CallOf(p, device, index)>> /\ w = <<CallOf(q, device, index)>>
      BY <1>2, <2>1 DEF CallsFor
    <3>2. /\ Len(<<CallOf(p, device, index)>>) = 1 /\ Len(<<CallOf(q, device, index)>>) = 1
          /\ <<CallOf(p, device, index)>>[1].region = p /\ <<CallOf(q, device, index)>>[1].region = q
          /\ 1..1 = {1}
      BY DEF CallOf
    <3> QED BY <1>4, <2>1, <3>1, <3>2 DEF Crosswise, WorkApart
  <2>2. CASE ~(p.start < p.end) \/ ~(q.start < q.end)
    <3>1. v = <<>> \/ w = <<>>
      BY <1>2, <2>2 DEF CallsFor
    <3> QED BY <3>1 DEF Crosswise, WorkApart
  <2> QED BY <2>1, <2>2
<1>7. WorkPairs(v \o w)
  BY <1>5, <1>6, ConcatPairs DEF PartsOf
<1>8. ASSUME NEW r, HasBounds(r), Apart(a, r) PROVE WorkApart(v \o w, r)
  <2>1. WorkApart(v, r) /\ WorkApart(w, r)
    BY <1>5, <1>8, PartsApart
  <2> QED BY <2>1, ConcatApart
<1> QED BY <1>3, <1>7, <1>8 DEF PartsOf

-----------------------------------------------------------------------------
(* What stays apart.                                                       *)

(* Whatever is apart from C, W and s is apart from C2, W2 and s2.          *)
Inside(C2, W2, s2, C, W, s) ==
  \A r : HasBounds(r) /\ FromAll(C, W, s, r) => FromAll(C2, W2, s2, r)

LEMMA RestKept ==
  ASSUME NEW C, NEW W, NEW s, NEW C2, NEW W2, NEW s2, Inside(C2, W2, s2, C, W, s),
         NEW R \in Seq(RegionSet), NEW n, RestApart(C, W, s, R, n)
  PROVE  RestApart(C2, W2, s2, R, n)
<1> SUFFICES ASSUME NEW j \in 1..Len(R), j > n PROVE FromAll(C2, W2, s2, R[j])
  BY DEF RestApart
<1>1. FromAll(C, W, s, R[j])
  BY DEF RestApart
<1>2. R[j] \in RegionSet
  BY ElementOfSeq
<1>3. HasBounds(R[j])
  BY <1>2, RegionFields DEF HasBounds
<1> QED BY <1>1, <1>3 DEF Inside

LEMMA SeparateKept ==
  ASSUME Typed, Separate, UNCHANGED <<phase, regions, taken>>,
         Sep(caps', work', split'), Inside(caps', work', split', caps, work, split)
  PROVE  Separate'
<1>1. TakenOf("memory")' = TakenOf("memory") /\ TakenOf("device")' = TakenOf("device")
  BY DEF TakenOf
<1>2. regions["memory"] \in Seq(RegionSet) /\ regions["device"] \in Seq(RegionSet)
  BY DEF Typed, BootTypes, Kinds
<1>3. /\ RestApart(caps, work, split, regions["memory"], TakenOf("memory"))
      /\ RestApart(caps, work, split, regions["device"], TakenOf("device"))
  BY SeparateIs DEF SepNow
<1>4. /\ RestApart(caps', work', split', regions["memory"], TakenOf("memory"))
      /\ RestApart(caps', work', split', regions["device"], TakenOf("device"))
  BY <1>2, <1>3, RestKept
<1> QED BY <1>1, <1>4, SeparateIsNext

(* Once the boot has stopped nothing more is taken.                        *)
LEMMA SeparateHalted ==
  ASSUME Typed', phase' = "halted", Sep(caps', work', split')
  PROVE  Separate'
<1>1. /\ TakenOf("memory")' = Len(regions'["memory"])
      /\ TakenOf("device")' = Len(regions'["device"])
  BY DEF TakenOf
<1>2. Len(regions'["memory"]) \in Nat /\ Len(regions'["device"]) \in Nat
  <2>1. regions'["memory"] \in Seq(RegionSet) /\ regions'["device"] \in Seq(RegionSet)
    BY DEF Typed, BootTypes, Kinds
  <2> QED BY <2>1, LenProperties
<1>3. \A j \in Nat : ~(j > j)
  OBVIOUS
<1>4. /\ RestApart(caps', work', split', regions'["memory"], Len(regions'["memory"]))
      /\ RestApart(caps', work', split', regions'["device"], Len(regions'["device"]))
  BY <1>2 DEF RestApart
<1> QED BY <1>1, <1>4, SeparateIsNext

LEMMA NothingApart ==
  ASSUME Typed', caps' = <<>>, work' = <<>>, split' = Nil
  PROVE  Separate'
<1>1. Sep(<<>>, <<>>, Nil)
  BY DEF Sep, CapPairs, WorkPairs, CapsFromWork, FromPart
<1>2. ASSUME NEW r PROVE FromAll(<<>>, <<>>, Nil, r)
  BY DEF FromAll, AllApart, WorkApart, PartApart
<1>3. \A R, n : RestApart(<<>>, <<>>, Nil, R, n)
  BY <1>2 DEF RestApart
<1> QED BY <1>1, <1>3, SeparateIsNext

-----------------------------------------------------------------------------
(* A call.                                                                 *)

LEMMA HeadWork ==
  ASSUME NEW W \in Seq(CallSet), W # <<>>, NEW r
  PROVE  WorkApart(W, r) <=> Apart(Head(W).region, r) /\ WorkApart(Tail(W), r)
<1>1. /\ Len(W) \in Nat \ {0} /\ Len(Tail(W)) = Len(W) - 1 /\ Head(W) = W[1]
      /\ \A i \in 1..Len(Tail(W)) : Tail(W)[i] = W[i + 1]
  BY HeadTailProperties, LenProperties
<1>2. ASSUME WorkApart(W, r) PROVE Apart(Head(W).region, r) /\ WorkApart(Tail(W), r)
  <2>1. 1 \in 1..Len(W) /\ \A i \in 1..Len(Tail(W)) : i + 1 \in 1..Len(W)
    BY <1>1
  <2> QED BY <1>1, <1>2, <2>1 DEF WorkApart
<1>3. ASSUME Apart(Head(W).region, r), WorkApart(Tail(W), r) PROVE WorkApart(W, r)
  <2> SUFFICES ASSUME NEW i \in 1..Len(W) PROVE Apart(W[i].region, r)
    BY DEF WorkApart
  <2>1. CASE i = 1
    BY <1>1, <1>3, <2>1
  <2>2. CASE i # 1
    <3>1. PICK k \in 1..Len(Tail(W)) : i = k + 1
      <4>1. i - 1 \in 1..Len(Tail(W)) /\ i = (i - 1) + 1
        BY <1>1, <2>2
      <4> QED BY <4>1
    <3> QED BY <1>1, <1>3, <3>1 DEF WorkApart
  <2> QED BY <2>1, <2>2
<1> QED BY <1>2, <1>3

LEMMA HeadPairs ==
  ASSUME NEW W \in Seq(CallSet), W # <<>>, WorkPairs(W)
  PROVE  WorkPairs(Tail(W)) /\ WorkApart(Tail(W), Head(W).region)
<1>1. /\ Len(W) \in Nat \ {0} /\ Len(Tail(W)) = Len(W) - 1 /\ Head(W) = W[1]
      /\ \A i \in 1..Len(Tail(W)) : Tail(W)[i] = W[i + 1]
  BY HeadTailProperties, LenProperties
<1>2. /\ 1 \in 1..Len(W)
      /\ \A i \in 1..Len(Tail(W)) : i + 1 \in 1..Len(W) /\ i + 1 # 1
      /\ \A i, j \in 1..Len(Tail(W)) : i # j => i + 1 # j + 1
  BY <1>1
<1>3. WorkApart(Tail(W), Head(W).region)
  BY <1>1, <1>2 DEF WorkPairs, WorkApart
<1>4. WorkPairs(Tail(W))
  <2> SUFFICES ASSUME NEW i \in 1..Len(Tail(W)), NEW j \in 1..Len(Tail(W)), i # j
               PROVE  Apart(Tail(W)[i].region, Tail(W)[j].region)
    BY DEF WorkPairs
  <2>1. PICK k \in 1..Len(W), l \in 1..Len(W) :
          k # l /\ Tail(W)[i] = W[k] /\ Tail(W)[j] = W[l]
    BY <1>1, <1>2
  <2> QED BY <2>1 DEF WorkPairs
<1> QED BY <1>3, <1>4

LEMMA HeadCaps ==
  ASSUME NEW C, NEW W \in Seq(CallSet), W # <<>>, CapsFromWork(C, W)
  PROVE  CapsFromWork(C, Tail(W)) /\ AllApart(C, Head(W).region)
<1>1. /\ Len(W) \in Nat \ {0} /\ Len(Tail(W)) = Len(W) - 1 /\ Head(W) = W[1]
      /\ \A i \in 1..Len(Tail(W)) : Tail(W)[i] = W[i + 1]
  BY HeadTailProperties, LenProperties
<1>2. 1 \in 1..Len(W) /\ \A i \in 1..Len(Tail(W)) : i + 1 \in 1..Len(W)
  BY <1>1
<1> QED BY <1>1, <1>2 DEF CapsFromWork

LEMMA SingleParts ==
  ASSUME NEW a, NEW device, NEW index
  PROVE  PartsOf(<<CallOf(a, device, index)>>, a)
<1>1. Len(<<CallOf(a, device, index)>>) = 1 /\ <<CallOf(a, device, index)>>[1].region = a /\ 1..1 = {1}
  BY DEF CallOf
<1>2. WorkPairs(<<CallOf(a, device, index)>>)
  BY <1>1 DEF WorkPairs
<1>3. \A r : Apart(a, r) => WorkApart(<<CallOf(a, device, index)>>, r)
  BY <1>1 DEF WorkApart
<1> QED BY <1>2, <1>3 DEF PartsOf

(* Calls for parts of a are apart from what a is apart from.               *)
LEMMA PartsFromCaps ==
  ASSUME NEW C \in Seq(CapSet), NEW v, NEW a \in RegionSet, PartsOf(v, a), AllApart(C, a)
  PROVE  CapsFromWork(C, v)
<1> SUFFICES ASSUME NEW j \in 1..Len(v), NEW i \in 1..Len(C)
             PROVE  Apart(Block(C[i]), v[j].region)
  BY DEF CapsFromWork, AllApart
<1>1. C[i] \in CapSet
  BY ElementOfSeq
<1>2. HasBounds(Block(C[i]))
  BY <1>1, BlockBounds
<1>3. Apart(a, Block(C[i]))
  BY ApartSym DEF AllApart
<1>4. WorkApart(v, Block(C[i]))
  BY <1>2, <1>3, PartsApart
<1>5. Apart(v[j].region, Block(C[i]))
  BY <1>4 DEF WorkApart
<1> QED BY <1>5, ApartSym

LEMMA PartsCrosswise ==
  ASSUME NEW v, NEW a, PartsOf(v, a), NEW t \in Seq(CallSet), WorkApart(t, a)
  PROVE  Crosswise(v, t)
<1> SUFFICES ASSUME NEW j \in 1..Len(t) PROVE WorkApart(v, t[j].region)
  BY DEF Crosswise
<1>1. t[j] \in CallSet
  BY ElementOfSeq
<1>2. t[j].region \in RegionSet
  BY <1>1 DEF CallSet
<1>3. HasBounds(t[j].region)
  BY <1>2, RegionFields DEF HasBounds
<1>4. Apart(a, t[j].region)
  BY ApartSym DEF WorkApart
<1> QED BY <1>3, <1>4, PartsApart

LEMMA CapsType ==
  ASSUME Typed
  PROVE  caps \in Seq(CapSet) /\ work \in Seq(CallSet)
BY DEF Typed, BootTypes

(* The first call is replaced by calls for parts of its region.            *)
LEMMA PartsReplace ==
  ASSUME NEW C \in Seq(CapSet), NEW W \in Seq(CallSet), W # <<>>, Sep(C, W, Nil),
         NEW v \in Seq(CallSet), NEW a \in RegionSet, a = Head(W).region, PartsOf(v, a),
         NEW t \in Seq(CallSet), t = Tail(W)
  PROVE  Sep(C, v \o t, Nil) /\ Inside(C, v \o t, Nil, C, W, Nil)
<1>1. /\ CapPairs(C) /\ WorkPairs(t) /\ WorkApart(t, a)
      /\ CapsFromWork(C, t) /\ AllApart(C, a)
  BY HeadPairs, HeadCaps DEF Sep
<1>2. WorkPairs(v \o t)
  <2>1. WorkPairs(v) /\ Crosswise(v, t)
    BY <1>1, PartsCrosswise DEF PartsOf
  <2> QED BY <1>1, <2>1, ConcatPairs
<1>3. CapsFromWork(C, v \o t)
  BY <1>1, PartsFromCaps, ConcatFrom
<1>4. ASSUME NEW r, HasBounds(r), FromAll(C, W, Nil, r) PROVE FromAll(C, v \o t, Nil, r)
  <2>1. AllApart(C, r) /\ Apart(a, r) /\ WorkApart(t, r)
    BY <1>4, HeadWork DEF FromAll
  <2>2. WorkApart(v \o t, r)
    BY <1>4, <2>1, PartsApart, ConcatApart
  <2> QED BY <2>1, <2>2 DEF FromAll, PartApart
<1> QED BY <1>1, <1>2, <1>3, <1>4 DEF Sep, FromPart, Inside

LEMMA CallSeparate ==
  ASSUME Typed, Separate, Upright, Call
  PROVE  Separate'
<1>1. /\ work # <<>> /\ split = Nil
      /\ UNCHANGED <<phase, regions, taken, caps>>
  BY DEF Call
<1>2. PICK r \in RegionSet, device \in BOOLEAN, index \in Nat \ {0}, t \in Seq(CallSet) :
        /\ r = Head(work).region /\ device = Head(work).device /\ index = Head(work).index
        /\ t = Tail(work)
  BY <1>1, WorkType DEF Typed
<1>3. caps \in Seq(CapSet) /\ work \in Seq(CallSet)
  BY CapsType
<1>4. Sep(caps, work, Nil)
  BY <1>1, SeparateIs DEF SepNow
<1>5. CASE r.start >= r.end \/ r.start = 0
  <2>1. work' = t /\ split' = Nil
    BY <1>1, <1>2, <1>5 DEF Call
  <2>2. WorkPairs(t) /\ CapsFromWork(caps, t) /\ CapPairs(caps)
    BY <1>1, <1>2, <1>3, <1>4, HeadPairs, HeadCaps DEF Sep
  <2>3. Sep(caps, t, Nil)
    BY <2>2 DEF Sep, FromPart
  <2>4. Inside(caps, t, Nil, caps, work, Nil)
    BY <1>1, <1>2, <1>3, HeadWork DEF Inside, FromAll
  <2> QED BY <1>1, <2>1, <2>3, <2>4, SeparateKept
<1>6. CASE /\ ~(r.start >= r.end \/ r.start = 0)
           /\ index <= Len(regions["reserved"])
  <2>1. index \in 1..Len(regions["reserved"]) /\ regions["reserved"] \in Seq(RegionSet)
    <3>1. regions["reserved"] \in Seq(RegionSet)
      BY DEF Typed, BootTypes, Kinds
    <3>2. Len(regions["reserved"]) \in Nat
      BY <3>1, LenProperties
    <3> QED BY <1>6, <3>1, <3>2
  <2>2. PICK b \in RegionSet : b = regions["reserved"][index]
    BY <2>1, ElementOfSeq
  <2>3. b.start <= b.end
    BY <2>1, <2>2 DEF Upright, Elements
  <2>4. PICK j \in Nat \ {0} : j = index + 1
    OBVIOUS
  <2>5. PICK v \in Seq(CallSet) : v = Calls(SubtractRegion(r, b), device, j)
    BY CallsType
  <2>6. work' = v \o t /\ split' = Nil
    BY <1>1, <1>2, <1>6, <2>2, <2>4, <2>5 DEF Call
  <2>7. PartsOf(v, r)
    BY <2>3, <2>5, SubtractedParts
  <2>8. Sep(caps, v \o t, Nil) /\ Inside(caps, v \o t, Nil, caps, work, Nil)
    BY <1>1, <1>2, <1>3, <1>4, <2>7, PartsReplace
  <2> QED BY <1>1, <2>6, <2>8, SeparateKept
<1>7. CASE /\ ~(r.start >= r.end \/ r.start = 0)
           /\ ~(index <= Len(regions["reserved"]))
  <2>1. work' = t /\ split'.start = r.start /\ split'.end = r.end
    BY <1>2, <1>7 DEF Call
  <2>2. \A a : (Apart(a, split') <=> Apart(a, r)) /\ (Apart(split', a) <=> Apart(r, a))
    BY <2>1 DEF Apart
  <2>3. /\ WorkPairs(t) /\ WorkApart(t, r) /\ CapsFromWork(caps, t)
        /\ AllApart(caps, r) /\ CapPairs(caps)
    BY <1>1, <1>2, <1>3, <1>4, HeadPairs, HeadCaps DEF Sep
  <2>4. AllApart(caps, split') /\ WorkApart(t, split')
    BY <2>2, <2>3 DEF AllApart, WorkApart
  <2>5. Sep(caps, t, split')
    BY <2>3, <2>4 DEF Sep, FromPart
  <2>6. ASSUME NEW x, FromAll(caps, work, Nil, x) PROVE FromAll(caps, t, split', x)
    <3>1. AllApart(caps, x) /\ Apart(r, x) /\ WorkApart(t, x)
      BY <1>1, <1>2, <1>3, <2>6, HeadWork DEF FromAll
    <3> QED BY <2>2, <3>1 DEF FromAll, PartApart
  <2>7. Inside(caps, t, split', caps, work, Nil)
    BY <2>6 DEF Inside
  <2> QED BY <1>1, <2>1, <2>5, <2>7, SeparateKept
<1> QED BY <1>5, <1>6, <1>7

-----------------------------------------------------------------------------
(* A block is cut off.                                                     *)

LEMMA AppendedApart ==
  ASSUME NEW C \in Seq(CapSet), NEW c \in CapSet, NEW r
  PROVE  AllApart(Append(C, c), r) <=> AllApart(C, r) /\ Apart(Block(c), r)
<1>1. /\ Len(C) \in Nat /\ Len(Append(C, c)) = Len(C) + 1
      /\ \A i \in 1..Len(C) : Append(C, c)[i] = C[i]
      /\ Append(C, c)[Len(C) + 1] = c
  BY AppendProperties, LenProperties
<1>2. \A i \in 1..(Len(C) + 1) : i \in 1..Len(C) \/ i = Len(C) + 1
  BY <1>1
<1>3. Len(C) + 1 \in 1..(Len(C) + 1) /\ \A i \in 1..Len(C) : i \in 1..(Len(C) + 1)
  BY <1>1
<1> QED BY <1>1, <1>2, <1>3 DEF AllApart

LEMMA AppendedPairs ==
  ASSUME NEW C \in Seq(CapSet), NEW c \in CapSet, CapPairs(C), AllApart(C, Block(c))
  PROVE  CapPairs(Append(C, c))
<1>1. /\ Len(C) \in Nat /\ Len(Append(C, c)) = Len(C) + 1
      /\ \A i \in 1..Len(C) : Append(C, c)[i] = C[i]
      /\ Append(C, c)[Len(C) + 1] = c
  BY AppendProperties, LenProperties
<1>2. \A i \in 1..(Len(C) + 1) : i \in 1..Len(C) \/ i = Len(C) + 1
  BY <1>1
<1> SUFFICES ASSUME NEW i \in 1..(Len(C) + 1), NEW j \in 1..(Len(C) + 1), i # j
             PROVE  Apart(Block(Append(C, c)[i]), Block(Append(C, c)[j]))
  BY <1>1 DEF CapPairs
<1>3. CASE i \in 1..Len(C) /\ j \in 1..Len(C)
  BY <1>1, <1>3 DEF CapPairs
<1>4. CASE i \in 1..Len(C) /\ j = Len(C) + 1
  BY <1>1, <1>4 DEF AllApart
<1>5. CASE i = Len(C) + 1 /\ j \in 1..Len(C)
  <2>1. Apart(Block(C[j]), Block(c))
    BY <1>5 DEF AllApart
  <2> QED BY <1>1, <1>5, <2>1, ApartSym
<1> QED BY <1>2, <1>3, <1>4, <1>5

LEMMA AllWithin ==
  ASSUME NEW C \in Seq(CapSet), NEW a, NEW b, HasBounds(a), HasBounds(b), Within(a, b),
         AllApart(C, b)
  PROVE  AllApart(C, a)
<1> SUFFICES ASSUME NEW i \in 1..Len(C) PROVE Apart(Block(C[i]), a)
  BY DEF AllApart
<1>1. C[i] \in CapSet
  BY ElementOfSeq
<1>2. HasBounds(Block(C[i]))
  BY <1>1, BlockBounds
<1>3. Apart(b, Block(C[i]))
  BY ApartSym DEF AllApart
<1> QED BY <1>2, <1>3, ApartWithin

LEMMA WorkWithin ==
  ASSUME NEW W \in Seq(CallSet), NEW a, NEW b, HasBounds(a), HasBounds(b), Within(a, b),
         WorkApart(W, b)
  PROVE  WorkApart(W, a)
<1> SUFFICES ASSUME NEW i \in 1..Len(W) PROVE Apart(W[i].region, a)
  BY DEF WorkApart
<1>1. W[i] \in CallSet
  BY ElementOfSeq
<1>2. W[i].region \in RegionSet
  BY <1>1 DEF CallSet
<1>3. HasBounds(W[i].region)
  BY <1>2, RegionFields DEF HasBounds
<1>4. Apart(b, W[i].region)
  BY ApartSym DEF WorkApart
<1> QED BY <1>3, <1>4, ApartWithin

(* The block c and the rest s2 of the split s.                             *)
LEMMA BlockCutOff ==
  ASSUME NEW C \in Seq(CapSet), NEW W \in Seq(CallSet), NEW c \in CapSet,
         NEW s, NEW s2, s # Nil, s2 # Nil, HasBounds(s), HasBounds(s2), Sep(C, W, s),
         Within(Block(c), s), Within(s2, s), Apart(Block(c), s2)
  PROVE  Sep(Append(C, c), W, s2) /\ Inside(Append(C, c), W, s2, C, W, s)
<1>1. CapPairs(C) /\ WorkPairs(W) /\ CapsFromWork(C, W) /\ AllApart(C, s) /\ WorkApart(W, s)
  BY DEF Sep, FromPart
<1>2. HasBounds(Block(c))
  BY BlockBounds
<1>3. AllApart(C, Block(c)) /\ AllApart(C, s2)
  BY <1>1, <1>2, AllWithin
<1>4. WorkApart(W, Block(c)) /\ WorkApart(W, s2)
  BY <1>1, <1>2, WorkWithin
<1>5. CapPairs(Append(C, c))
  BY <1>1, <1>3, AppendedPairs
<1>6. CapsFromWork(Append(C, c), W)
  <2> SUFFICES ASSUME NEW j \in 1..Len(W) PROVE AllApart(Append(C, c), W[j].region)
    BY DEF CapsFromWork
  <2>1. AllApart(C, W[j].region)
    BY <1>1 DEF CapsFromWork
  <2>2. Apart(W[j].region, Block(c))
    BY <1>4 DEF WorkApart
  <2> QED BY <2>1, <2>2, ApartSym, AppendedApart
<1>7. FromPart(Append(C, c), W, s2)
  BY <1>3, <1>4, AppendedApart DEF FromPart
<1>8. ASSUME NEW r, HasBounds(r), FromAll(C, W, s, r) PROVE FromAll(Append(C, c), W, s2, r)
  <2>1. AllApart(C, r) /\ WorkApart(W, r) /\ Apart(s, r)
    BY <1>8 DEF FromAll, PartApart
  <2>2. Apart(Block(c), r) /\ Apart(s2, r)
    BY <1>2, <1>8, <2>1, ApartWithin
  <2> QED BY <2>1, <2>2, AppendedApart DEF FromAll, PartApart
<1> QED BY <1>1, <1>5, <1>6, <1>7, <1>8 DEF Sep, Inside

(* The block that is cut off is the front of what is cut up.               *)
LEMMA CutOffParts ==
  ASSUME Typed, split # Nil, split.start + BlockSize(split.bit) <= split.end, NEW bit \in Nat
  PROVE  /\ CutSplit(bit).start = split.start + BlockSize(split.bit)
         /\ CutSplit(bit).end = split.end /\ CutSplit(bit) # Nil
         /\ HasBounds(split) /\ HasBounds(CutSplit(bit))
         /\ Within(Block(CutCap), split) /\ Within(CutSplit(bit), split)
         /\ Apart(Block(CutCap), CutSplit(bit))
<1>1. PICK s \in Nat, e \in Nat, z \in Nat \ {0} :
        s = split.start /\ e = split.end /\ z = BlockSize(split.bit) /\ s + z <= e
  BY SplitFields DEF Typed
<1>2. split \in SplitSet
  BY SplitFields DEF Typed
<1>3. PICK n \in Nat : n = s + z
  BY <1>1
<1>4. CutSplit(bit) = [split EXCEPT !.start = n, !.bit = bit]
  BY <1>1, <1>3 DEF CutSplit
<1>5. CutSplit(bit) \in SplitSet /\ CutSplit(bit).start = n /\ CutSplit(bit).end = e
  BY <1>1, <1>2, <1>4 DEF SplitSet
<1>6. CutSplit(bit) # Nil
  BY <1>5, NilIsNoSplit DEF SplitIsNotNil
<1>7. HasBounds(split) /\ HasBounds(CutSplit(bit))
  BY <1>1, <1>5 DEF HasBounds
<1>8. Block(CutCap).start = s /\ Block(CutCap).end = n
  BY <1>1, <1>3, CutCapType, BlockBounds DEF CutCap, Typed
<1>9. Within(Block(CutCap), split) /\ Within(CutSplit(bit), split)
      /\ Apart(Block(CutCap), CutSplit(bit))
  BY <1>1, <1>3, <1>5, <1>8 DEF Within, Apart
<1> QED BY <1>1, <1>3, <1>5, <1>6, <1>7, <1>9

(* Where a region is cut up is no matter, only how far it reaches.         *)
LEMMA SameReach ==
  ASSUME NEW C, NEW W, NEW s, NEW s2, s # Nil, s2.start = s.start, s2.end = s.end,
         Sep(C, W, s)
  PROVE  Sep(C, W, s2) /\ Inside(C, W, s2, C, W, s)
<1>1. \A a : (Apart(a, s2) <=> Apart(a, s)) /\ (Apart(s2, a) <=> Apart(s, a))
  BY DEF Apart
<1>2. AllApart(C, s) /\ WorkApart(W, s)
  BY DEF Sep, FromPart
<1>3. AllApart(C, s2) /\ WorkApart(W, s2)
  BY <1>1, <1>2 DEF AllApart, WorkApart
<1>4. Inside(C, W, s2, C, W, s)
  BY <1>1 DEF Inside, FromAll, PartApart
<1> QED BY <1>3, <1>4 DEF Sep, FromPart

LEMMA CutSeparate ==
  ASSUME Typed, Typed', Separate, Cut
  PROVE  Separate'
<1>1. split # Nil /\ UNCHANGED <<regions, taken, work>>
  BY DEF Cut
<1>2. Sep(caps, work, split) /\ caps \in Seq(CapSet) /\ work \in Seq(CallSet)
  BY SeparateIs, CapsType DEF SepNow
<1>3. CASE phase' = "halted" /\ caps' = caps /\ split' = split
  BY <1>1, <1>2, <1>3, SeparateHalted
<1>4. ASSUME NEW bit \in Nat, split.start + BlockSize(split.bit) <= split.end, CutOff(bit)
      PROVE  Separate'
  <2>1. phase' = phase /\ caps' = Append(caps, CutCap) /\ split' = CutSplit(bit)
    BY <1>4 DEF CutOff
  <2>2. CutCap \in CapSet
    BY <1>1, CutCapType DEF Typed
  <2>3. /\ CutSplit(bit) # Nil /\ HasBounds(split) /\ HasBounds(CutSplit(bit))
        /\ Within(Block(CutCap), split) /\ Within(CutSplit(bit), split)
        /\ Apart(Block(CutCap), CutSplit(bit))
    BY <1>1, <1>4, CutOffParts
  <2>4. /\ Sep(Append(caps, CutCap), work, CutSplit(bit))
        /\ Inside(Append(caps, CutCap), work, CutSplit(bit), caps, work, split)
    BY <1>1, <1>2, <2>2, <2>3, BlockCutOff
  <2> QED BY <1>1, <2>1, <2>4, SeparateKept
<1>5. CASE /\ phase' = phase /\ caps' = caps
           /\ \/ split' = [split EXCEPT !.up = FALSE]
              \/ split' = [split EXCEPT !.bit = @ + 1]
              \/ split' = [split EXCEPT !.bit = @ - 1]
  <2>1. split \in SplitSet
    BY <1>1, SplitFields DEF Typed
  <2>2. split'.start = split.start /\ split'.end = split.end
    BY <1>5, <2>1 DEF SplitSet
  <2>3. Sep(caps, work, split') /\ Inside(caps, work, split', caps, work, split)
    BY <1>1, <1>2, <2>2, SameReach
  <2> QED BY <1>1, <1>5, <2>3, SeparateKept
<1>6. split.bit \in Nat
  BY <1>1, SplitFields DEF Typed
<1>7. PICK up \in Nat : up = split.bit + 1
  BY <1>6
<1> QED BY <1>3, <1>4, <1>5, <1>6, <1>7 DEF Cut

LEMMA SplitEndsSeparate ==
  ASSUME Typed, Separate, SplitEnds
  PROVE  Separate'
<1>1. /\ split' = Nil /\ split # Nil
      /\ UNCHANGED <<phase, regions, taken, work, caps>>
  BY DEF SplitEnds
<1>2. Sep(caps, work, split)
  BY SeparateIs DEF SepNow
<1>3. Sep(caps, work, Nil) /\ Inside(caps, work, Nil, caps, work, split)
  BY <1>2 DEF Sep, FromPart, Inside, FromAll, PartApart
<1> QED BY <1>1, <1>3, SeparateKept

-----------------------------------------------------------------------------
(* A region is taken.                                                      *)

(* Every region of M is apart from every other and from those of D.        *)
PairsOf(R) == \A i, j \in 1..Len(R) : i # j => Apart(R[i], R[j])

AcrossFrom(M, D) == \A i \in 1..Len(M), j \in 1..Len(D) : Apart(M[i], D[j])

LEMMA RegionsAcross ==
  ASSUME Typed, RegionsApart
  PROVE  /\ PairsOf(regions["memory"]) /\ PairsOf(regions["device"])
         /\ AcrossFrom(regions["memory"], regions["device"])
<1>1. PICK M, D \in Seq(RegionSet) : M = regions["memory"] /\ D = regions["device"]
  BY DEF Typed, BootTypes, Kinds
<1>2. \A i, j \in 1..Len(M \o D) : i # j => Apart((M \o D)[i], (M \o D)[j])
  BY <1>1 DEF RegionsApart
<1>3. Len(M) \in Nat /\ Len(D) \in Nat /\ Len(M \o D) = Len(M) + Len(D)
  BY LenProperties, ConcatProperties
<1>4. \A i \in 1..(Len(M) + Len(D)) : (M \o D)[i] = IF i <= Len(M) THEN M[i] ELSE D[i - Len(M)]
  BY ConcatProperties
<1>5. ASSUME NEW i \in 1..Len(M) PROVE i \in 1..Len(M \o D) /\ (M \o D)[i] = M[i]
  BY <1>3, <1>4
<1>6. ASSUME NEW i \in 1..Len(D)
      PROVE  i + Len(M) \in 1..Len(M \o D) /\ (M \o D)[i + Len(M)] = D[i]
  <2>1. i + Len(M) \in 1..(Len(M) + Len(D)) /\ ~(i + Len(M) <= Len(M)) /\ (i + Len(M)) - Len(M) = i
    BY <1>3
  <2> QED BY <1>3, <1>4, <2>1
<1>7. PairsOf(M)
  BY <1>2, <1>5 DEF PairsOf
<1>8. PairsOf(D)
  <2> SUFFICES ASSUME NEW i \in 1..Len(D), NEW j \in 1..Len(D), i # j PROVE Apart(D[i], D[j])
    BY DEF PairsOf
  <2>1. i + Len(M) # j + Len(M)
    BY <1>3
  <2> QED BY <1>2, <1>6, <2>1
<1>9. AcrossFrom(M, D)
  <2> SUFFICES ASSUME NEW i \in 1..Len(M), NEW j \in 1..Len(D) PROVE Apart(M[i], D[j])
    BY DEF AcrossFrom
  <2>1. i # j + Len(M)
    BY <1>3
  <2> QED BY <1>2, <1>5, <1>6, <2>1
<1> QED BY <1>1, <1>7, <1>8, <1>9

(* The calls v are for parts of a region a that is apart from the rest.    *)
LEMMA RestTaken ==
  ASSUME NEW C, NEW v, NEW a, PartsOf(v, a), NEW R \in Seq(RegionSet), NEW n, NEW m,
         RestApart(C, <<>>, Nil, R, n),
         \A j \in 1..Len(R) : j > m => j > n /\ Apart(a, R[j])
  PROVE  RestApart(C, v, Nil, R, m)
<1> SUFFICES ASSUME NEW j \in 1..Len(R), j > m PROVE FromAll(C, v, Nil, R[j])
  BY DEF RestApart
<1>1. FromAll(C, <<>>, Nil, R[j]) /\ Apart(a, R[j])
  BY DEF RestApart
<1>2. R[j] \in RegionSet
  BY ElementOfSeq
<1>3. HasBounds(R[j])
  BY <1>2, RegionFields DEF HasBounds
<1>4. WorkApart(v, R[j])
  BY <1>1, <1>3, PartsApart
<1> QED BY <1>1, <1>4 DEF FromAll

LEMMA TakenSep ==
  ASSUME NEW C \in Seq(CapSet), NEW v, NEW a \in RegionSet, PartsOf(v, a),
         Sep(C, <<>>, Nil), FromAll(C, <<>>, Nil, a)
  PROVE  Sep(C, v, Nil)
<1>1. CapPairs(C) /\ AllApart(C, a) /\ WorkPairs(v)
  BY DEF Sep, FromAll, PartsOf
<1>2. CapsFromWork(C, v)
  BY <1>1, PartsFromCaps
<1> QED BY <1>1, <1>2 DEF Sep, FromPart

LEMMA TakeMemorySeparate ==
  ASSUME Typed, Separate, RegionsApart, TakeMemory
  PROVE  Separate'
<1>1. /\ phase = "memory" /\ work = <<>> /\ split = Nil /\ UNCHANGED <<regions, caps, split>>
  BY DEF TakeMemory, Idle
<1>2. /\ regions["memory"] \in Seq(RegionSet) /\ regions["device"] \in Seq(RegionSet)
      /\ taken \in Nat /\ caps \in Seq(CapSet)
  BY DEF Typed, BootTypes, Kinds
<1>3. Len(regions["memory"]) \in Nat /\ taken <= Len(regions["memory"])
  BY <1>1, <1>2, LenProperties DEF Typed, Phases
<1>4. TakenOf("memory") = taken /\ TakenOf("device") = 0
  BY <1>1 DEF TakenOf
<1>5. /\ Sep(caps, <<>>, Nil)
      /\ RestApart(caps, <<>>, Nil, regions["memory"], taken)
      /\ RestApart(caps, <<>>, Nil, regions["device"], 0)
  BY <1>1, <1>4, SeparateIs DEF SepNow
<1>6. CASE taken < Len(regions["memory"])
  <2>1. PICK n \in 1..Len(regions["memory"]) : n = taken + 1
    BY <1>2, <1>3, <1>6
  <2>2. PICK a \in RegionSet : a = regions["memory"][n]
    BY <1>2, ElementOfSeq
  <2>3. PICK v : v = Calls(SubtractRegion(a, DtbRegion), FALSE, 1)
    OBVIOUS
  <2>4. taken' = n /\ phase' = "memory" /\ work' = v
    BY <1>1, <1>6, <2>1, <2>2, <2>3 DEF TakeMemory
  <2>5. PartsOf(v, a)
    <3>1. 1 \in Nat \ {0} /\ FALSE \in BOOLEAN
      OBVIOUS
    <3>2. DtbRegion \in RegionSet
      BY DtbRegionType
    <3>3. DtbRegion.start <= DtbRegion.end
      BY <3>2, DtbIsNotEmpty, RegionFields DEF DtbNotEmpty
    <3>4. PartsOf(Calls(SubtractRegion(a, DtbRegion), FALSE, 1), a)
      BY <3>1, <3>2, <3>3, SubtractedParts, Zenon
    <3> QED BY <2>3, <3>4
  <2>6. n > taken
    BY <1>2, <2>1
  <2>7. FromAll(caps, <<>>, Nil, a)
    BY <1>5, <2>2, <2>6 DEF RestApart
  <2>8. Sep(caps, v, Nil)
    BY <1>2, <1>5, <2>5, <2>7, TakenSep
  <2>9. RestApart(caps, v, Nil, regions["memory"], n)
    <3>1. \A j \in 1..Len(regions["memory"]) : j > n => j > taken /\ Apart(a, regions["memory"][j])
      <4> TAKE j \in 1..Len(regions["memory"])
      <4> HAVE j > n
      <4>1. j > taken /\ j # n
        BY <1>2, <2>1
      <4> QED BY <2>2, <4>1, RegionsAcross DEF PairsOf
    <3> QED BY <1>2, <1>5, <2>5, <3>1, RestTaken
  <2>10. RestApart(caps, v, Nil, regions["device"], 0)
    <3>1. \A j \in 1..Len(regions["device"]) : j > 0 => j > 0 /\ Apart(a, regions["device"][j])
      BY <2>2, RegionsAcross DEF AcrossFrom
    <3> QED BY <1>2, <1>5, <2>5, <3>1, RestTaken
  <2>11. TakenOf("memory")' = n /\ TakenOf("device")' = 0
    BY <2>4 DEF TakenOf
  <2> QED BY <1>1, <2>4, <2>8, <2>9, <2>10, <2>11, SeparateIsNext
<1>7. CASE ~(taken < Len(regions["memory"]))
  <2>1. taken' = 0 /\ phase' = "device" /\ work' = work
    BY <1>7 DEF TakeMemory
  <2>2. TakenOf("memory")' = taken /\ TakenOf("device")' = 0
    BY <1>1, <1>2, <1>3, <1>7, <2>1 DEF TakenOf
  <2> QED BY <1>1, <1>5, <2>1, <2>2, SeparateIsNext
<1> QED BY <1>6, <1>7

LEMMA TakeDeviceSeparate ==
  ASSUME Typed, Separate, RegionsApart, TakeDevice
  PROVE  Separate'
<1>1. /\ phase = "device" /\ work = <<>> /\ split = Nil /\ UNCHANGED <<regions, caps, split>>
  BY DEF TakeDevice, Idle
<1>2. /\ regions["memory"] \in Seq(RegionSet) /\ regions["device"] \in Seq(RegionSet)
      /\ taken \in Nat /\ caps \in Seq(CapSet)
  BY DEF Typed, BootTypes, Kinds
<1>3. /\ Len(regions["memory"]) \in Nat /\ Len(regions["device"]) \in Nat
      /\ taken <= Len(regions["device"])
  BY <1>1, <1>2, LenProperties DEF Typed, Phases
<1>4. TakenOf("memory") = Len(regions["memory"]) /\ TakenOf("device") = taken
  BY <1>1 DEF TakenOf
<1>5. /\ Sep(caps, <<>>, Nil)
      /\ RestApart(caps, <<>>, Nil, regions["memory"], Len(regions["memory"]))
      /\ RestApart(caps, <<>>, Nil, regions["device"], taken)
  BY <1>1, <1>4, SeparateIs DEF SepNow
<1>6. CASE taken < Len(regions["device"])
  <2>1. PICK n \in 1..Len(regions["device"]) : n = taken + 1
    BY <1>2, <1>3, <1>6
  <2>2. PICK a \in RegionSet : a = regions["device"][n]
    BY <1>2, ElementOfSeq
  <2>3. PICK v : v = <<CallOf(a, TRUE, 1)>>
    OBVIOUS
  <2>4. taken' = n /\ phase' = "device" /\ work' = v
    BY <1>1, <1>6, <2>1, <2>2, <2>3 DEF TakeDevice, CallOf
  <2>5. PartsOf(v, a)
    BY <2>3, SingleParts
  <2>6. n > taken
    BY <1>2, <2>1
  <2>7. FromAll(caps, <<>>, Nil, a)
    BY <1>5, <2>2, <2>6 DEF RestApart
  <2>8. Sep(caps, v, Nil)
    BY <1>2, <1>5, <2>5, <2>7, TakenSep
  <2>9. RestApart(caps, v, Nil, regions["device"], n)
    <3>1. \A j \in 1..Len(regions["device"]) : j > n => j > taken /\ Apart(a, regions["device"][j])
      <4> TAKE j \in 1..Len(regions["device"])
      <4> HAVE j > n
      <4>1. j > taken /\ j # n
        BY <1>2, <2>1
      <4> QED BY <2>2, <4>1, RegionsAcross DEF PairsOf
    <3> QED BY <1>2, <1>5, <2>5, <3>1, RestTaken
  <2>10. RestApart(caps, v, Nil, regions["memory"], Len(regions["memory"]))
    <3>1. \A j \in 1..Len(regions["memory"]) : ~(j > Len(regions["memory"]))
      BY <1>3
    <3> QED BY <3>1 DEF RestApart
  <2>11. TakenOf("memory")' = Len(regions["memory"]) /\ TakenOf("device")' = n
    BY <1>1, <2>4 DEF TakenOf
  <2> QED BY <1>1, <2>4, <2>8, <2>9, <2>10, <2>11, SeparateIsNext
<1>7. CASE ~(taken < Len(regions["device"]))
  <2>1. taken' = 0 /\ phase' = "map" /\ work' = work
    BY <1>7 DEF TakeDevice
  <2>2. TakenOf("memory")' = Len(regions["memory"]) /\ TakenOf("device")' = taken
    BY <1>1, <1>2, <1>3, <1>7, <2>1 DEF TakenOf
  <2> QED BY <1>1, <1>5, <2>1, <2>2, SeparateIsNext
<1> QED BY <1>6, <1>7

(* The pages are mapped: nothing more is handed out.                       *)
LEMMA SeparateMapped ==
  ASSUME Separate, UNCHANGED <<regions, work, split, caps>>,
         \/ phase = "map" /\ phase' \in {"map", "done", "halted"}
         \/ phase' = phase /\ taken' = taken
  PROVE  Separate'
<1>1. TakenOf("memory")' = TakenOf("memory") /\ TakenOf("device")' = TakenOf("device")
  BY DEF TakenOf
<1>2. SepNow
  BY SeparateIs
<1> QED BY <1>1, <1>2, SeparateIsNext DEF SepNow

Separated == Upright /\ RegionsApart => phase = "walk" \/ Separate

LEMMA SeparateStays ==
  ASSUME Typed, Typed', Separated, [BootNext]_bootVars
  PROVE  Separated'
<1>1. CASE Walk \/ WalkEnds
  <2>1. phase = "walk" /\ UNCHANGED <<work, split, caps>>
    BY <1>1 DEF Walk, WalkEnds
  <2>2. caps' = <<>> /\ work' = <<>> /\ split' = Nil
    BY <2>1 DEF Typed, Phases
  <2> QED BY <2>2, NothingApart DEF Separated
<1>2. CASE TakeMemory \/ TakeDevice \/ Call \/ Cut \/ SplitEnds
           \/ MapPage \/ MapEnds \/ UNCHANGED bootVars
  <2>1. UNCHANGED regions
    BY <1>2 DEF TakeMemory, TakeDevice, Call, Cut, SplitEnds, MapPage, MapEnds, bootVars
  <2>2. (Upright' <=> Upright) /\ (RegionsApart' <=> RegionsApart)
    BY <2>1, UprightStays DEF RegionsApart
  <2>3. CASE phase = "walk"
    <3>1. work = <<>> /\ split = Nil /\ caps = <<>>
      BY <2>3 DEF Typed, Phases
    <3>2. UNCHANGED bootVars
      BY <1>2, <2>3, <3>1 DEF TakeMemory, TakeDevice, Idle, Call, Cut, SplitEnds, MapPage, MapEnds
    <3> QED BY <2>3, <3>2 DEF Separated, bootVars
  <2>4. CASE phase # "walk"
    <3> SUFFICES ASSUME Upright, RegionsApart PROVE Separate'
      BY <2>2 DEF Separated
    <3>1. Separate
      BY <2>4 DEF Separated
    <3>2. ASSUME MapPage \/ MapEnds \/ UNCHANGED bootVars PROVE Separate'
      <4>1. /\ UNCHANGED <<regions, work, split, caps>>
            /\ \/ phase = "map" /\ phase' \in {"map", "done", "halted"}
               \/ phase' = phase /\ taken' = taken
        BY <3>2 DEF MapPage, MapEnds, bootVars
      <4> QED BY <3>1, <4>1, SeparateMapped
    <3> QED BY <1>2, <3>1, <3>2, TakeMemorySeparate, TakeDeviceSeparate, CallSeparate,
               CutSeparate, SplitEndsSeparate
  <2> QED BY <2>3, <2>4
<1>3. Grow \/ Shrink => Cut
  BY GrowCuts, ShrinkCuts
<1> QED BY <1>1, <1>2, <1>3 DEF BootNext, BootStep, Over

-----------------------------------------------------------------------------
(* The invariant.                                                          *)

LEMMA InvariantParts ==
  BootInvariant <=>
    Typed /\ (Upright => Exact) /\ Aligned /\ Separated /\ Mapping
BY DEF BootInvariant, Typed, Separated

LEMMA InvariantAtFirst ==
  ASSUME BootInit
  PROVE  BootInvariant
<1>1. Typed
  BY TypedAtFirst
<1>2. /\ phase = "walk" /\ caps = <<>> /\ work = <<>> /\ split = Nil
      /\ tables = [area \in {"payload", "stack"} |-> [i \in 0..(N - 1) |-> Nil]]
  BY DEF BootInit
<1>3. Exact
  <2>1. TakenOf("memory") = 0 /\ TakenOf("device") = 0
    BY <1>2 DEF TakenOf
  <2>2. ASSUME NEW x \in Nat, NEW d PROVE ~HandedOut(x, d)
    <3>1. ~SomeCap(caps, x, d) /\ ~SomeComes(regions["reserved"], x, d, work)
          /\ ~InPart(split, x, d)
      BY <1>2, SomeEmpty DEF SomeCap, InPart
    <3>2. BootTypes
      BY <1>1 DEF Typed
    <3> QED BY <3>1, <3>2, HandedOutIs
  <2>3. ASSUME NEW x \in Nat PROVE ExactAt(x)
    <3>1. \A R, M : ~DueM(R, M, x, 0) /\ ~DueD(R, M, x, 0)
      BY DueMore
    <3> QED BY <2>1, <2>2, <3>1 DEF ExactAt
  <2> QED BY <2>3, ExactIs, AddressType DEF AllExact
<1>4. Aligned
  BY <1>2 DEF Aligned
<1>5. Separated
  BY <1>2 DEF Separated
<1>6. Mapping
  <2>1. Len(caps) = 0 /\ MaxCaps \in Nat
    BY <1>2, BootAssumption
  <2> QED BY <1>2, <2>1 DEF Mapping
<1> QED BY <1>1, <1>3, <1>4, <1>5, <1>6, InvariantParts

LEMMA InvariantStays ==
  ASSUME BootInvariant, [BootNext]_bootVars
  PROVE  BootInvariant'
<1>1. Typed /\ (Upright => Exact) /\ Aligned /\ Separated /\ Mapping
  BY InvariantParts
<1>2. Typed'
  BY <1>1, TypedStays
<1>3. (Upright' => Exact') /\ Aligned' /\ Separated' /\ Mapping'
  BY <1>1, <1>2, ExactStays, AlignedStays, SeparateStays, MappingStays
<1>4. (BootInvariant <=> Typed /\ (Upright => Exact) /\ Aligned /\ Separated /\ Mapping)'
  BY InvariantParts, PTL
<1> QED BY <1>2, <1>3, <1>4

(* At every step of the boot, for every device tree, every word and page   *)
(* size and every limit on the number of regions and capabilities, the     *)
(* parts of the invariant hold (setup_memory_capabilities, map_root_task). *)
THEOREM BootInvariantHolds == BootSpec => []BootInvariant
<1>1. BootInit => BootInvariant
  BY InvariantAtFirst
<1>2. BootInvariant /\ [BootNext]_bootVars => BootInvariant'
  BY InvariantStays
<1> QED BY <1>1, <1>2, PTL DEF BootSpec

(* No fixed-size table of the boot overflows: the regions of a kind stay   *)
(* within CONFIG_MAX_*_REGIONS, and the capabilities, those of the mapped  *)
(* pages included, within the free slots of the root task (push_*_region,  *)
(* insert_cap).                                                            *)
THEOREM BootTypesHold == BootSpec => []BootTypeOK
<1>1. BootInvariant => BootTypeOK
  <2> SUFFICES ASSUME BootInvariant PROVE BootTypeOK
    OBVIOUS
  <2>1. Typed /\ Mapping
    BY InvariantParts
  <2>2. split # Nil => split.bit \in Nat /\ split.start \in Nat /\ split.end \in Nat
    BY <2>1, SplitFields DEF Typed
  <2>3. Len(caps) + (IF phase = "done" THEN PageCount ELSE 0) <= MaxCaps
    <3>1. Len(caps) \in Nat
      BY <2>1, LenProperties DEF Typed, BootTypes
    <3>2. Len(caps) <= MaxCaps /\ (phase = "done" => Len(caps) + taken <= MaxCaps)
      BY <2>1 DEF Mapping
    <3>3. phase = "done" => taken = PageCount
      BY <2>1 DEF Typed, Phases
    <3> QED BY <3>1, <3>2, <3>3
  <2> QED BY <2>1, <2>2, <2>3 DEF BootTypeOK, Typed, BootTypes
<1> QED BY <1>1, BootInvariantHolds, PTL

(* Once the root task runs its program, its stack and the device tree are  *)
(* mapped page by page, each page where it belongs, whatever their sizes   *)
(* are: no page has replaced another one (map_root_task,                   *)
(* setup_arch_root_boot_info).                                             *)
THEOREM PagesAreMapped == BootSpec => []PagesMapped
<1>1. BootInvariant => PagesMapped
  <2> SUFFICES ASSUME BootInvariant, phase = "done", NEW n \in 1..PageCount
               PROVE  LET p == BootPage(n) IN p.offset < N /\ tables[p.area][p.offset] = n
    BY DEF PagesMapped
  <2>1. taken = PageCount /\ PagesPlaced
    BY InvariantParts, MappingParts DEF Typed, Phases
  <2> QED BY <2>1 DEF PagesPlaced, Placed
<1> QED BY <1>1, BootInvariantHolds, PTL

(* The root task gets exactly the memory that is there and not taken: for  *)
(* every device tree, however its regions overlap, nest or repeat, as long *)
(* as no reserved region ends in front of its start                        *)
(* (insert_memory_region_caps, subtract_region).                           *)
THEOREM CapsAreExact == BootSpec => [](Upright => CapsExact)
<1>1. BootInvariant => (Upright => CapsExact)
  <2> SUFFICES ASSUME BootInvariant, Upright, phase = "done",
                      NEW x \in 0..(CellBase * CellBase)
               PROVE  /\ Covered(x, FALSE) <=>
                           /\ Free(x) /\ ~In(x, DtbRegion)
                           /\ \E r \in Elements(regions["memory"]) :
                                In(x, r) /\ ~AtZeroBeforeDtb(x, r)
                      /\ Covered(x, TRUE) <=>
                           Free(x) /\ \E r \in Elements(regions["device"]) :
                                        In(x, r) /\ ~AtZero(x, r)
    BY DEF CapsExact
  <2>1. Exact /\ work = <<>> /\ split = Nil
    BY InvariantParts DEF Typed, Phases
  <2>2. TakenOf("memory") = Len(regions["memory"]) /\ TakenOf("device") = Len(regions["device"])
    BY DEF TakenOf
  <2>3. \A d : ~ToCome(x, d) /\ ~InSplit(x, d)
    BY <2>1 DEF ToCome, InSplit
  <2>4. \A d : HandedOut(x, d) <=> Covered(x, d)
    BY <2>3 DEF HandedOut
  <2>5. /\ HandedOut(x, FALSE) <=> DueMemory(x, Len(regions["memory"]))
        /\ HandedOut(x, TRUE) <=> DueDevice(x, Len(regions["device"]))
    BY <2>1, <2>2 DEF Exact
  <2>6. /\ DueMemory(x, Len(regions["memory"])) <=>
             /\ Free(x) /\ ~In(x, DtbRegion)
             /\ \E r \in Elements(regions["memory"]) : In(x, r) /\ ~AtZeroBeforeDtb(x, r)
        /\ DueDevice(x, Len(regions["device"])) <=>
             Free(x) /\ \E r \in Elements(regions["device"]) : In(x, r) /\ ~AtZero(x, r)
    BY DEF DueMemory, DueDevice, Elements
  <2> QED BY <2>4, <2>5, <2>6
<1> QED BY <1>1, BootInvariantHolds, PTL

(* Every capability is a block aligned to its size, whatever the tree is.  *)
LEMMA CapsAreAligned ==
  ASSUME BootInvariant
  PROVE  \A i \in 1..Len(caps) : caps[i].base % caps[i].size = 0
<1>1. Typed /\ Aligned
  BY InvariantParts
<1>2. AllAligned(caps) /\ caps \in Seq(CapSet)
  BY <1>1, AlignedIs, CapsType DEF Typed
<1> TAKE i \in 1..Len(caps)
<1>3. caps[i] \in CapSet
  BY <1>2, ElementOfSeq
<1>4. PICK z \in Nat \ {0} : z = caps[i].size
  BY <1>3 DEF CapSet
<1>5. PICK k \in Nat : caps[i].base = z * k
  BY <1>2, <1>4 DEF AllAligned, CapAligned, Divides
<1> QED BY <1>4, <1>5, QuotientOf

(* Every capability is a block aligned to its own size, and no memory is   *)
(* handed out twice if no two regions of the tree overlap: at every step   *)
(* of the loops of insert_memory_region_caps, for regions of any size and  *)
(* address.                                                                *)
THEOREM CapsFitTogether == BootSpec => [](Upright => CapsFit)
<1>1. BootInvariant => (Upright => CapsFit)
  <2> SUFFICES ASSUME BootInvariant, Upright PROVE CapsFit
    OBVIOUS
  <2>1. \A i \in 1..Len(caps) : caps[i].base % caps[i].size = 0
    BY CapsAreAligned
  <2>2. ASSUME RegionsApart, NEW i \in 1..Len(caps), NEW j \in 1..Len(caps), i # j
        PROVE  Apart(Block(caps[i]), Block(caps[j]))
    <3>1. phase # "walk"
      <4>1. SUFFICES ASSUME phase = "walk" PROVE FALSE
        OBVIOUS
      <4>2. caps = <<>>
        BY <4>1, InvariantParts DEF Typed, Phases
      <4>3. ~\E k : k \in 1..0
        OBVIOUS
      <4> QED BY <4>2, <4>3
    <3>2. Separate
      BY <2>2, <3>1, InvariantParts DEF Separated
    <3> QED BY <2>2, <3>2 DEF Separate
  <2> QED BY <2>1, <2>2 DEF CapsFit, Block
<1> QED BY <1>1, BootInvariantHolds, PTL
=============================================================================
