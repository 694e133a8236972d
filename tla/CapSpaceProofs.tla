--------------------------- MODULE CapSpaceProofs ---------------------------
(***************************************************************************)
(* Proofs about CapSpace.tla.                                              *)
(***************************************************************************)
EXTENDS CapSpaceInvariant, Iteration, FiniteSetTheorems, SequenceTheorems

-----------------------------------------------------------------------------
(* Constants.                                                              *)

LEMMA NilApart == Nil \notin Slots /\ Nil \notin Tasks /\ Nil \notin Spaces
BY CapAssumption

LEMMA SlotsFinite == IsFiniteSet(Slots) /\ Cardinality(Slots) \in Nat
<1>1. SlotsPerSpace - 1 \in Int
  BY CapAssumption
<1>2. IsFiniteSet(0..SlotsPerSpace - 1)
  BY <1>1, FS_Interval
<1>3. IsFiniteSet(Spaces)
  BY CapAssumption
<1>4. IsFiniteSet(Slots)
  BY <1>2, <1>3, FS_Product DEF Slots
<1> QED BY <1>4, FS_CardinalityType

-----------------------------------------------------------------------------
(* Links as functions: what the list operations of cap_slot_t do to them.  *)

LinkFns == [Slots -> Slots \cup {Nil}]

Inverses(next, prev) ==
  \A s \in Slots :
    /\ next[s] # Nil => prev[next[s]] = s
    /\ prev[s] # Nil => next[prev[s]] = s

(* No set of slots is closed under next.                                   *)
Acyclic(next) == \A C \in SUBSET Slots : C # {} => \E s \in C : next[s] \notin C

(* erase_this                                                              *)
LEMMA Unlink ==
  ASSUME NEW next \in LinkFns, NEW prev \in LinkFns, NEW s \in Slots,
         Inverses(next, prev), Acyclic(next),
         NEW n1, n1 = [u \in Slots |-> IF u = s THEN Nil
                                       ELSE IF u = prev[s] THEN next[s] ELSE next[u]],
         NEW p1, p1 = [u \in Slots |-> IF u = s THEN Nil
                                       ELSE IF u = next[s] THEN prev[s] ELSE prev[u]]
  PROVE  n1 \in LinkFns /\ p1 \in LinkFns /\ Inverses(n1, p1) /\ Acyclic(n1)
<1>1. n1 \in LinkFns /\ p1 \in LinkFns
  BY DEF LinkFns
<1>2. Inverses(n1, p1)
  BY NilApart DEF LinkFns, Inverses
<1>3. Acyclic(n1)
  <2> SUFFICES ASSUME NEW C \in SUBSET Slots, C # {}, \A u \in C : n1[u] \in C PROVE FALSE
    BY DEF Acyclic
  <2>1. s \notin C
    BY NilApart
  <2>2. CASE prev[s] \in C
    <3>1. \A u \in C \cup {s} : next[u] \in C \cup {s}
      BY <2>1, <2>2, NilApart DEF Inverses, LinkFns
    <3>2. C \cup {s} \in SUBSET Slots /\ C \cup {s} # {}
      OBVIOUS
    <3> QED BY <3>1, <3>2 DEF Acyclic
  <2>3. CASE prev[s] \notin C
    <3>1. \A u \in C : next[u] \in C
      BY <2>1, <2>3
    <3> QED BY <3>1 DEF Acyclic
  <2> QED BY <2>2, <2>3
<1> QED BY <1>1, <1>2, <1>3

(* insert_before                                                           *)
LEMMA LinkBefore ==
  ASSUME NEW next \in LinkFns, NEW prev \in LinkFns, NEW this \in Slots, NEW s \in Slots,
         this # s, next[s] = Nil, prev[s] = Nil,
         Inverses(next, prev), Acyclic(next),
         NEW n1, n1 = [u \in Slots |-> IF u = s THEN this
                                       ELSE IF u = prev[this] THEN s ELSE next[u]],
         NEW p1, p1 = [u \in Slots |-> IF u = s THEN prev[this]
                                       ELSE IF u = this THEN s ELSE prev[u]]
  PROVE  n1 \in LinkFns /\ p1 \in LinkFns /\ Inverses(n1, p1) /\ Acyclic(n1)
<1>1. n1 \in LinkFns /\ p1 \in LinkFns
  BY DEF LinkFns
<1>2. Inverses(n1, p1)
  BY NilApart DEF LinkFns, Inverses
<1>3. Acyclic(n1)
  <2> SUFFICES ASSUME NEW C \in SUBSET Slots, C # {}, \A u \in C : n1[u] \in C PROVE FALSE
    BY DEF Acyclic
  <2>1. \A u \in C \ {s} : next[u] \in C \ {s}
    BY NilApart DEF LinkFns, Inverses
  <2>2. C \ {s} # {}
    BY NilApart
  <2>3. C \ {s} \in SUBSET Slots
    OBVIOUS
  <2> QED BY <2>1, <2>2, <2>3 DEF Acyclic
<1> QED BY <1>1, <1>2, <1>3

(* insert_after of a single slot                                           *)
LEMMA LinkAfter ==
  ASSUME NEW next \in LinkFns, NEW prev \in LinkFns, NEW this \in Slots, NEW s \in Slots,
         this # s, next[s] = Nil, prev[s] = Nil,
         Inverses(next, prev), Acyclic(next),
         NEW n1, n1 = [u \in Slots |-> IF u = this THEN s
                                       ELSE IF u = s /\ next[this] # Nil THEN next[this]
                                       ELSE next[u]],
         NEW p1, p1 = [u \in Slots |-> IF u = s THEN this
                                       ELSE IF u = next[this] THEN s ELSE prev[u]]
  PROVE  n1 \in LinkFns /\ p1 \in LinkFns /\ Inverses(n1, p1) /\ Acyclic(n1)
<1>1. n1 \in LinkFns /\ p1 \in LinkFns
  BY DEF LinkFns
<1>2. Inverses(n1, p1)
  BY NilApart DEF LinkFns, Inverses
<1>3. Acyclic(n1)
  <2> SUFFICES ASSUME NEW C \in SUBSET Slots, C # {}, \A u \in C : n1[u] \in C PROVE FALSE
    BY DEF Acyclic
  <2>1. \A u \in C \ {s} : next[u] \in C \ {s}
    BY NilApart DEF LinkFns, Inverses
  <2>2. C \ {s} # {}
    BY NilApart DEF Inverses, LinkFns
  <2>3. C \ {s} \in SUBSET Slots
    OBVIOUS
  <2> QED BY <2>1, <2>2, <2>3 DEF Acyclic
<1> QED BY <1>1, <1>2, <1>3

(* replace                                                                 *)
LEMMA Exchange ==
  ASSUME NEW next \in LinkFns, NEW prev \in LinkFns, NEW this \in Slots, NEW s \in Slots,
         this # s, next[this] = Nil, prev[this] = Nil,
         Inverses(next, prev), Acyclic(next),
         NEW n1, n1 = [u \in Slots |-> IF u = s THEN Nil ELSE IF u = this THEN next[s]
                                       ELSE IF u = prev[s] THEN this ELSE next[u]],
         NEW p1, p1 = [u \in Slots |-> IF u = s THEN Nil ELSE IF u = this THEN prev[s]
                                       ELSE IF u = next[s] THEN this ELSE prev[u]]
  PROVE  n1 \in LinkFns /\ p1 \in LinkFns /\ Inverses(n1, p1) /\ Acyclic(n1)
<1>1. n1 \in LinkFns /\ p1 \in LinkFns
  BY DEF LinkFns
<1>2. Inverses(n1, p1)
  <2>1. next[s] # s /\ prev[s] # s
    <3>1. {s} \in SUBSET Slots /\ {s} # {}
      OBVIOUS
    <3>2. next[s] # s
      BY <3>1 DEF Acyclic
    <3> QED BY <3>2, NilApart DEF Inverses
  <2> QED BY <2>1, NilApart DEF LinkFns, Inverses
<1>3. Acyclic(n1)
  <2> SUFFICES ASSUME NEW C \in SUBSET Slots, C # {}, \A u \in C : n1[u] \in C PROVE FALSE
    BY DEF Acyclic
  <2> DEFINE D == {u \in Slots : IF u = s THEN this \in C ELSE u \in C \ {this}}
  <2>1. s \notin C
    BY NilApart
  <2>2. \A u \in D : next[u] \in D
    BY <2>1, NilApart DEF LinkFns, Inverses
  <2>3. D # {}
    BY <2>1
  <2>4. D \in SUBSET Slots
    OBVIOUS
  <2> HIDE DEF D
  <2> QED BY <2>2, <2>3, <2>4 DEF Acyclic
<1> QED BY <1>1, <1>2, <1>3

-----------------------------------------------------------------------------
(* Walks along a list.                                                     *)

(* A sequence of slots each of which is followed by the next one.          *)
IsPath(next, c) ==
  /\ c \in Seq(Slots) /\ c # <<>>
  /\ \A i \in 1..(Len(c) - 1) : next[c[i]] = c[i + 1]

(* No slot is twice on a path.                                             *)
LEMMA PathInjective ==
  ASSUME NEW next \in LinkFns, Acyclic(next), NEW c, IsPath(next, c),
         NEW i \in 1..Len(c), NEW j \in 1..Len(c), c[i] = c[j]
  PROVE  i = j
<1>1. ASSUME NEW a \in 1..Len(c), NEW b \in 1..Len(c), a < b, c[a] = c[b] PROVE FALSE
  <2> DEFINE C == {c[k] : k \in a..(b - 1)}
  <2>0. Len(c) \in Nat /\ c \in [1..Len(c) -> Slots]
    BY DEF IsPath
  <2>1. C \in SUBSET Slots /\ C # {}
    BY <1>1, <2>0
  <2>2. ASSUME NEW u \in C PROVE next[u] \in C
    <3>1. PICK k \in a..(b - 1) : u = c[k]
      OBVIOUS
    <3>2. k \in 1..(Len(c) - 1) /\ next[u] = c[k + 1]
      BY <2>0, <3>1 DEF IsPath
    <3>3. CASE k = b - 1
      <4>1. next[u] = c[a] /\ a \in a..(b - 1)
        BY <1>1, <2>0, <3>2, <3>3
      <4> QED BY <4>1
    <3>4. CASE k # b - 1
      <4>1. k + 1 \in a..(b - 1)
        BY <2>0, <3>1, <3>4
      <4> QED BY <3>2, <4>1
    <3> QED BY <3>3, <3>4
  <2> HIDE DEF C
  <2> QED BY <2>1, <2>2 DEF Acyclic
<1>2. i \in Nat /\ j \in Nat
  BY DEF IsPath
<1> QED BY <1>1, <1>2

(* A path has no more slots than there are.                                *)
LEMMA PathBounded ==
  ASSUME NEW next \in LinkFns, Acyclic(next), NEW c, IsPath(next, c)
  PROVE  Len(c) <= Cardinality(Slots)
<1>0. Len(c) \in Nat /\ c \in [1..Len(c) -> Slots]
  BY DEF IsPath
<1>1. IsFiniteSet(1..Len(c)) /\ Cardinality(1..Len(c)) = Len(c)
  <2>1. IsFiniteSet(1..Len(c)) /\ Cardinality(1..Len(c)) = IF 1 > Len(c) THEN 0 ELSE Len(c) - 1 + 1
    <3>1. 1 \in Int /\ Len(c) \in Int
      BY <1>0
    <3> QED BY ONLY <3>1, FS_Interval
  <2> QED BY <1>0, <2>1
<1>2. SUFFICES ASSUME Cardinality(Slots) < Len(c) PROVE FALSE
  BY <1>0, SlotsFinite
<1>3. \E x, y \in 1..Len(c) : x # y /\ c[x] = c[y]
  BY <1>0, <1>1, <1>2, SlotsFinite, FS_PigeonHole
<1> QED BY <1>3, PathInjective

(* The walk of Chain, as a function of the links.                          *)
Follow(next, q) == IF next[Last(q)] = Nil THEN q ELSE Append(q, next[Last(q)])

LEMMA FollowPath ==
  ASSUME NEW next \in LinkFns, NEW q, IsPath(next, q)
  PROVE  /\ IsPath(next, Follow(next, q))
         /\ Follow(next, q)[1] = q[1]
         /\ next[Last(q)] = Nil => Follow(next, q) = q
         /\ next[Last(q)] # Nil => Len(Follow(next, q)) = Len(q) + 1
<1>0. Len(q) \in Nat \ {0} /\ q \in [1..Len(q) -> Slots] /\ q \in Seq(Slots)
  <2>1. q \in Seq(Slots) /\ q # <<>>
    BY DEF IsPath
  <2> QED BY <2>1, EmptySeq, LenProperties
<1>1. Last(q) = q[Len(q)] /\ Last(q) \in Slots
  BY <1>0 DEF Last
<1>2. CASE next[Last(q)] = Nil
  BY <1>2 DEF Follow
<1>3. CASE next[Last(q)] # Nil
  <2> DEFINE n == next[Last(q)]
             r == Append(q, n)
  <2>1. n \in Slots /\ Follow(next, q) = r
    BY <1>1, <1>3 DEF LinkFns, Follow
  <2>2. /\ r \in Seq(Slots) /\ Len(r) = Len(q) + 1 /\ r[Len(q) + 1] = n
        /\ \A i \in 1..Len(q) : r[i] = q[i]
    BY <1>0, <2>1, AppendProperties
  <2> HIDE DEF n, r
  <2>3. r # <<>>
    BY <1>0, <2>2
  <2>4. \A i \in 1..Len(q) : next[r[i]] = r[i + 1]
    <3> TAKE i \in 1..Len(q)
    <3>1. r[i] = q[i]
      BY <2>2
    <3>2. CASE i = Len(q)
      BY <1>1, <2>2, <3>1, <3>2 DEF n
    <3>3. CASE i # Len(q)
      <4>1. i \in 1..(Len(q) - 1) /\ i + 1 \in 1..Len(q)
        <5>1. Len(q) \in Nat
          BY <1>0
        <5> QED BY <3>3, <5>1
      <4>2. next[q[i]] = q[i + 1]
        BY <4>1 DEF IsPath
      <4>3. r[i + 1] = q[i + 1]
        BY <2>2, <4>1
      <4> QED BY <3>1, <4>2, <4>3
    <3> QED BY <3>2, <3>3
  <2>5. r[1] = q[1] /\ Len(r) - 1 = Len(q)
    BY <1>0, <2>2
  <2> QED BY <1>3, <2>1, <2>2, <2>3, <2>4, <2>5 DEF IsPath
<1> QED BY <1>2, <1>3

IsWalk(f, next, b, m) ==
  f = [n \in 0..m |-> IF n = 0 THEN b ELSE Follow(next, f[n - 1])]

(* The recursion of Chain is well-defined.                                 *)
LEMMA WalkExists ==
  ASSUME NEW next, NEW b, NEW m \in Nat
  PROVE  \E f : IsWalk(f, next, b, m)
<1> DEFINE Walk(k, f) == f = [n \in 0..k |-> IF n = 0 THEN b ELSE Follow(next, f[n - 1])]
           bad == {k \in Nat : ~\E f : Walk(k, f)}
<1>0. SUFFICES bad = {}
  BY DEF IsWalk
<1> SUFFICES ASSUME bad # {} PROVE FALSE
  OBVIOUS
<1>1. bad \in SUBSET Nat
  OBVIOUS
<1>2. PICK k \in bad : \A j \in bad : k <= j
  BY <1>1, LeastOf
<1>3. k # 0
  <2>1. Walk(0, [n \in 0..0 |-> b])
    OBVIOUS
  <2> QED BY <1>2, <2>1
<1>4. k - 1 \in Nat /\ k - 1 \notin bad /\ k \in Nat
  <2> HIDE DEF bad
  <2> QED BY <1>1, <1>2, <1>3
<1>5. PICK f : Walk(k - 1, f)
  BY <1>4
<1> DEFINE g == [n \in 0..k |-> IF n = k THEN Follow(next, f[k - 1]) ELSE f[n]]
<1>6. \A n \in 0..k : g[n] = IF n = 0 THEN b ELSE Follow(next, g[n - 1])
  <2> TAKE n \in 0..k
  <2>1. CASE n = 0
    BY <1>3, <1>4, <1>5, <2>1
  <2>2. CASE n = k
    BY <1>3, <1>4, <2>2
  <2>3. CASE n # 0 /\ n # k
    <3>1. n \in 0..(k - 1) /\ n - 1 \in 0..k /\ n - 1 # k
      BY <1>4, <2>3
    <3>2. g[n] = f[n] /\ g[n - 1] = f[n - 1]
      BY <2>3, <3>1
    <3>3. f[n] = Follow(next, f[n - 1])
      BY <1>5, <2>3, <3>1
    <3> QED BY <2>3, <3>2, <3>3
  <2> QED BY <2>1, <2>2, <2>3
<1>7. Walk(k, g)
  <2> DEFINE r == [n \in 0..k |-> IF n = 0 THEN b ELSE Follow(next, g[n - 1])]
  <2>1. DOMAIN g = 0..k /\ DOMAIN r = 0..k /\ \A n \in 0..k : r[n] = g[n]
    BY <1>6
  <2> QED BY <1>6
<1> QED BY <1>2, <1>7

(* Chain is a path from s, to the tail of its list or too long.            *)
LEMMA ChainWalks ==
  ASSUME NEW h, h.next \in LinkFns, NEW s \in Slots
  PROVE  /\ IsPath(h.next, Chain(h, s))
         /\ Chain(h, s)[1] = s
         /\ \/ Len(Chain(h, s)) = Cardinality(Slots) + 1
            \/ h.next[Last(Chain(h, s))] = Nil
<1> DEFINE most == Cardinality(Slots)
           next == h.next
<1>0. most \in Nat
  BY SlotsFinite
<1>1. PICK w : /\ w = [n \in 0..most |-> IF n = 0 THEN <<s>> ELSE Follow(next, w[n - 1])]
               /\ Chain(h, s) = w[most]
  <2>1. \E f : f = [n \in 0..most |-> IF n = 0 THEN <<s>> ELSE Follow(next, f[n - 1])]
    <3>1. \E f : IsWalk(f, next, <<s>>, most)
      BY <1>0, WalkExists
    <3> QED BY <3>1 DEF IsWalk
  <2>2. \E f : f = [n \in 0..most |-> IF n = 0 THEN <<s>>
                                      ELSE LET q == f[n - 1]
                                           IN  IF h.next[Last(q)] = Nil THEN q
                                               ELSE Append(q, h.next[Last(q)])]
    BY <2>1 DEF Follow
  <2> QED BY <2>2 DEF Chain, Follow
<1> DEFINE Good(n) == /\ IsPath(next, w[n]) /\ w[n][1] = s
                      /\ Len(w[n]) = n + 1 \/ next[Last(w[n])] = Nil
           bad == {n \in 0..most : ~Good(n)}
<1>2. bad = {}
  <2> SUFFICES ASSUME bad # {} PROVE FALSE
    OBVIOUS
  <2>1. bad \in SUBSET Nat
    BY <1>0
  <2>2. PICK n \in bad : \A j \in bad : n <= j
    BY <2>1, LeastOf
  <2>3. n \in 0..most /\ n \in Nat
    BY <1>0, <2>2
  <2>4. CASE n = 0
    <3>1. w[0] = <<s>>
      BY <1>0, <1>1
    <3>2. <<s>> \in Seq(Slots) /\ Len(<<s>>) = 1 /\ <<s>>[1] = s
      OBVIOUS
    <3>3. IsPath(next, <<s>>)
      BY <3>2 DEF IsPath
    <3> QED BY <2>2, <2>4, <3>1, <3>2, <3>3
  <2>5. CASE n # 0
    <3>1. n - 1 \in 0..most /\ n - 1 \notin bad
      <4> HIDE DEF bad
      <4> QED BY <1>0, <2>2, <2>3, <2>5
    <3>2. Good(n - 1)
      BY <3>1
    <3>3. w[n] = Follow(next, w[n - 1])
      BY <1>1, <2>3, <2>5
    <3>4. /\ IsPath(next, w[n]) /\ w[n][1] = s
          /\ next[Last(w[n - 1])] = Nil => w[n] = w[n - 1]
          /\ next[Last(w[n - 1])] # Nil => Len(w[n]) = Len(w[n - 1]) + 1
      <4>1. PICK v, u : v = w[n - 1] /\ u = w[n] /\ u = Follow(next, v)
        BY <3>3
      <4> HIDE DEF next, bad
      <4>2. next \in LinkFns
        BY DEF next
      <4>3. IsPath(next, v) /\ v[1] = s
        BY <3>2, <4>1
      <4>4. /\ IsPath(next, u) /\ u[1] = v[1]
            /\ next[Last(v)] = Nil => u = v
            /\ next[Last(v)] # Nil => Len(u) = Len(v) + 1
        BY ONLY <4>1, <4>2, <4>3, FollowPath
      <4> QED BY ONLY <4>1, <4>3, <4>4
    <3>5. Len(w[n]) = n + 1 \/ next[Last(w[n])] = Nil
      BY <2>3, <2>5, <3>2, <3>4
    <3> QED BY <2>2, <3>4, <3>5
  <2> QED BY <2>4, <2>5
<1>3. Good(most)
  BY <1>0, <1>2
<1> QED BY <1>1, <1>3

(* Chain is the path from s to the tail of its list.                       *)
LEMMA ChainPath ==
  ASSUME NEW h, h.next \in LinkFns, Acyclic(h.next), NEW s \in Slots
  PROVE  /\ IsPath(h.next, Chain(h, s))
         /\ Chain(h, s)[1] = s
         /\ h.next[Last(Chain(h, s))] = Nil
<1>1. IsPath(h.next, Chain(h, s))
  BY ChainWalks
<1>2. Len(Chain(h, s)) <= Cardinality(Slots)
  BY <1>1, PathBounded
<1>3. Len(Chain(h, s)) # Cardinality(Slots) + 1
  BY <1>2, SlotsFinite
<1> QED BY <1>3, ChainWalks

(* The same, slot by slot.                                                 *)
IsChain(next, s, c) ==
  /\ c \in Seq(Slots) /\ Len(c) \in Nat /\ Len(c) > 0
  /\ \A i \in 1..Len(c) : c[i] \in Slots
  /\ c[1] = s
  /\ \A i \in 1..(Len(c) - 1) : next[c[i]] = c[i + 1]
  /\ next[c[Len(c)]] = Nil
  /\ \A i, j \in 1..Len(c) : c[i] = c[j] => i = j

LEMMA ChainFacts ==
  ASSUME NEW h, h.next \in LinkFns, Acyclic(h.next), NEW s \in Slots
  PROVE  IsChain(h.next, s, Chain(h, s))
<1>0. PICK c : c = Chain(h, s)
  OBVIOUS
<1>1. IsPath(h.next, c) /\ c[1] = s /\ h.next[Last(c)] = Nil
  BY <1>0, ChainPath
<1>2. c \in Seq(Slots) /\ c # <<>>
  BY <1>1 DEF IsPath
<1>3. Len(c) \in Nat /\ Len(c) > 0 /\ c \in [1..Len(c) -> Slots]
  BY <1>2, EmptySeq, LenProperties
<1>4. \A i \in 1..(Len(c) - 1) : h.next[c[i]] = c[i + 1]
  BY <1>1 DEF IsPath
<1>5. \A i, j \in 1..Len(c) : c[i] = c[j] => i = j
  BY <1>1, PathInjective
<1> QED BY <1>0, <1>1, <1>2, <1>3, <1>4, <1>5 DEF Last, IsChain

(* A slot without a successor is the tail of its list.                     *)
LEMMA TailOfTail ==
  ASSUME NEW h, h.next \in LinkFns, Acyclic(h.next), NEW s \in Slots, h.next[s] = Nil
  PROVE  Last(Chain(h, s)) = s
<1>1. PICK c : c = Chain(h, s)
  OBVIOUS
<1>2. IsChain(h.next, s, c)
  BY <1>1, ChainFacts
<1>3. PICK n \in Nat : n = Len(c) /\ n > 0
  BY <1>2 DEF IsChain
<1>4. n = 1
  <2> SUFFICES ASSUME n # 1 PROVE FALSE
    OBVIOUS
  <2>1. 1 \in 1..(Len(c) - 1) /\ 2 \in 1..Len(c)
    BY <1>3
  <2>2. h.next[c[1]] = c[1 + 1] /\ c[2] \in Slots /\ c[1] = s
    BY <1>2, <2>1 DEF IsChain
  <2> QED BY <2>2, NilApart
<1> QED BY <1>1, <1>2, <1>3, <1>4 DEF Last, IsChain

(* Every walk ends just when no set of slots is closed under next.         *)
LEMMA EndsIsAcyclic ==
  ASSUME NEW h, h.next \in LinkFns
  PROVE  Ends(h) <=> Acyclic(h.next)
<1>1. ASSUME Acyclic(h.next) PROVE Ends(h)
  BY <1>1, ChainPath DEF Ends, IsTail
<1>2. ASSUME Ends(h), NEW C \in SUBSET Slots, C # {}, \A u \in C : h.next[u] \in C
      PROVE  FALSE
  <2>1. PICK s \in C : TRUE
    BY <1>2
  <2>2. PICK c : c = Chain(h, s)
    OBVIOUS
  <2>3. IsPath(h.next, c) /\ c[1] = s /\ s \in Slots
    BY <2>2, ChainWalks
  <2>4. h.next[Last(c)] = Nil
    BY <1>2, <2>2, <2>3 DEF Ends, IsTail
  <2>5. c \in Seq(Slots) /\ c # <<>> /\ \A i \in 1..(Len(c) - 1) : h.next[c[i]] = c[i + 1]
    BY <2>3 DEF IsPath
  <2>6. Len(c) \in Nat /\ Len(c) > 0
    BY <2>5, EmptySeq, LenProperties
  <2> DEFINE bad == {i \in 1..Len(c) : c[i] \notin C}
  <2>7. bad = {}
    <3> SUFFICES ASSUME bad # {} PROVE FALSE
      OBVIOUS
    <3>1. bad \in SUBSET Nat
      BY <2>6
    <3>2. PICK i \in bad : \A j \in bad : i <= j
      BY <3>1, LeastOf
    <3>3. i # 1 /\ i \in 1..Len(c) /\ c[i] \notin C
      BY <2>1, <2>3, <3>2
    <3>4. i - 1 \in 1..(Len(c) - 1) /\ i - 1 \in 1..Len(c) /\ i - 1 + 1 = i /\ ~(i <= i - 1)
      BY <2>6, <3>3
    <3>5. i - 1 \notin bad
      <4> HIDE DEF bad
      <4> QED BY <3>2, <3>4
    <3>6. c[i - 1] \in C
      BY <3>4, <3>5
    <3>7. h.next[c[i - 1]] = c[i]
      BY <2>5, <3>4
    <3> QED BY <1>2, <3>3, <3>6, <3>7
  <2>8. Last(c) \in C
    BY <2>6, <2>7 DEF Last
  <2> QED BY <1>2, <2>4, <2>8, NilApart
<1> QED BY <1>1, <1>2 DEF Acyclic

(* Neither is a set of slots closed under prev.                            *)
LEMMA Rooted ==
  ASSUME NEW next \in LinkFns, NEW prev \in LinkFns, Inverses(next, prev), Acyclic(next),
         NEW C \in SUBSET Slots, C # {}
  PROVE  \E s \in C : prev[s] \notin C
<1> SUFFICES ASSUME \A s \in C : prev[s] \in C PROVE FALSE
  OBVIOUS
<1> DEFINE f == [s \in C |-> prev[s]]
<1>1. f \in Injection(C, C)
  BY NilApart DEF Inverses, Injection, IsInjective
<1>2. IsFiniteSet(C)
  BY SlotsFinite, FS_Subset
<1>3. f \in Surjection(C, C)
  BY <1>1, <1>2, FS_Injection
<1>4. \A u \in C : \E s \in C : f[s] = u
  BY <1>3 DEF Surjection
<1>5. \A u \in C : next[u] \in C
  BY <1>4, NilApart DEF Inverses
<1> QED BY <1>5 DEF Acyclic

-----------------------------------------------------------------------------
(* Heaps, field by field.                                                  *)

SameTasks(x, h) ==
  /\ x.owner = h.owner /\ x.spaces = h.spaces /\ x.state = h.state /\ x.ext = h.ext
  /\ x.canceled = h.canceled /\ x.stuck = h.stuck /\ x.nextId = h.nextId

(* The heap x is h but for its slots and free lists.                       *)
Updated(x, h, cap, next, prev, free, count) ==
  /\ x \in HeapType /\ SameTasks(x, h)
  /\ x.cap = cap /\ x.next = next /\ x.prev = prev /\ x.free = free /\ x.count = count

LEMMA RequireFields ==
  ASSUME NEW h \in HeapType, NEW ok \in BOOLEAN, NEW why \in Halts, NEW x, x = Require(h, ok, why)
  PROVE  /\ Updated(x, h, h.cap, h.next, h.prev, h.free, h.count)
         /\ x.halt = IF h.halt = NoFault /\ ~ok THEN why ELSE h.halt
<1>1. CASE h.halt = NoFault /\ ~ok
  <2>1. x = [h EXCEPT !.halt = why]
    BY <1>1 DEF Require
  <2> QED BY <1>1, <2>1 DEF Updated, SameTasks, HeapType
<1>2. CASE ~(h.halt = NoFault /\ ~ok)
  BY <1>2 DEF Require, Updated, SameTasks, HeapType
<1> QED BY <1>1, <1>2

LEMMA LockFields ==
  ASSUME NEW h \in HeapType, NEW t, NEW x, x = Lock(h, t)
  PROVE  /\ Updated(x, h, h.cap, h.next, h.prev, h.free, h.count)
         /\ x.halt \in {h.halt, Hang}
<1>1. CASE h.halt = NoFault /\ t \in h.stuck
  <2>1. x = [h EXCEPT !.halt = Hang]
    BY <1>1 DEF Require, Lock
  <2>2. Hang \in Halts
    BY DEF Halts
  <2> QED BY <2>1, <2>2 DEF Updated, SameTasks, HeapType
<1>2. CASE ~(h.halt = NoFault /\ t \in h.stuck)
  BY <1>2 DEF Require, Lock, Updated, SameTasks, HeapType
<1> QED BY <1>1, <1>2

ErasedNext(h, s) ==
  [u \in Slots |-> IF u = s THEN Nil ELSE IF u = h.prev[s] THEN h.next[s] ELSE h.next[u]]
ErasedPrev(h, s) ==
  [u \in Slots |-> IF u = s THEN Nil ELSE IF u = h.next[s] THEN h.prev[s] ELSE h.prev[u]]

LEMMA EraseFields ==
  ASSUME NEW h \in HeapType, NEW s \in Slots, NEW x, x = EraseThis(h, s)
  PROVE  /\ Updated(x, h, h.cap, ErasedNext(h, s), ErasedPrev(h, s), h.free, h.count)
         /\ x.halt \in {h.halt, Hang}
<1>1. PICK y : y = Lock(h, OwnerOf(h, s))
  OBVIOUS
<1>2. Updated(y, h, h.cap, h.next, h.prev, h.free, h.count) /\ y.halt \in {h.halt, Hang}
  BY <1>1, LockFields
<1>3. h.next \in LinkFns /\ h.prev \in LinkFns
  BY DEF HeapType, LinkFns
<1>4. ErasedNext(h, s) \in LinkFns /\ ErasedPrev(h, s) \in LinkFns
  BY <1>3 DEF LinkFns, ErasedNext, ErasedPrev
<1>5. x = [y EXCEPT !.next = ErasedNext(h, s), !.prev = ErasedPrev(h, s)]
  BY <1>1, <1>2 DEF EraseThis, ErasedNext, ErasedPrev, Updated
<1>6. y \in HeapType
  BY <1>2 DEF Updated
<1>7. x \in HeapType
  BY <1>4, <1>5, <1>6 DEF HeapType, LinkFns
<1>8. /\ x.next = ErasedNext(h, s) /\ x.prev = ErasedPrev(h, s) /\ x.halt = y.halt
      /\ x.cap = y.cap /\ x.free = y.free /\ x.count = y.count /\ SameTasks(x, y)
  BY <1>5, <1>6 DEF HeapType, SameTasks
<1> QED BY <1>2, <1>7, <1>8 DEF Updated, SameTasks

LEMMA HeapLinks ==
  ASSUME NEW h \in HeapType
  PROVE  h.next \in LinkFns /\ h.prev \in LinkFns
BY DEF HeapType, LinkFns

BeforeNext(next, prev, this, s) ==
  [u \in Slots |-> IF u = s THEN this ELSE IF u = prev[this] THEN s ELSE next[u]]
BeforePrev(next, prev, this, s) ==
  [u \in Slots |-> IF u = s THEN prev[this] ELSE IF u = this THEN s ELSE prev[u]]

LEMMA InsertBeforeFields ==
  ASSUME NEW h \in HeapType, NEW this \in Slots, NEW s \in Slots, IsIsolated(h, s),
         NEW x, x = InsertBefore(h, this, s)
  PROVE  /\ Updated(x, h, h.cap, BeforeNext(h.next, h.prev, this, s),
                    BeforePrev(h.next, h.prev, this, s), h.free, h.count)
         /\ x.halt \in {h.halt, Hang}
<1>1. PICK y : y = Lock(h, OwnerOf(h, s))
  OBVIOUS
<1>2. Updated(y, h, h.cap, h.next, h.prev, h.free, h.count) /\ y.halt \in {h.halt, Hang}
  BY <1>1, LockFields
<1>3. h.next \in LinkFns /\ h.prev \in LinkFns
  BY HeapLinks
<1> DEFINE n1 == BeforeNext(h.next, h.prev, this, s)
           p1 == BeforePrev(h.next, h.prev, this, s)
<1>4. n1 \in LinkFns /\ p1 \in LinkFns
  BY <1>3 DEF LinkFns, BeforeNext, BeforePrev
<1>5. x = [y EXCEPT !.next = n1, !.prev = p1]
  BY <1>1, <1>2 DEF InsertBefore, Require, BeforeNext, BeforePrev, Updated
<1>6. y \in HeapType
  BY <1>2 DEF Updated
<1> HIDE DEF n1, p1
<1>7. x \in HeapType
  BY <1>4, <1>5, <1>6 DEF HeapType, LinkFns
<1>8. /\ x.next = n1 /\ x.prev = p1 /\ x.halt = y.halt
      /\ x.cap = y.cap /\ x.free = y.free /\ x.count = y.count /\ SameTasks(x, y)
  BY <1>5, <1>6 DEF HeapType, SameTasks
<1> QED BY <1>2, <1>7, <1>8 DEF Updated, SameTasks, n1, p1

AfterNext(next, this, s) ==
  [u \in Slots |-> IF u = this THEN s
                   ELSE IF u = s /\ next[this] # Nil THEN next[this] ELSE next[u]]
AfterPrev(next, prev, this, s) ==
  [u \in Slots |-> IF u = s THEN this ELSE IF u = next[this] THEN s ELSE prev[u]]

LEMMA InsertAfterFields ==
  ASSUME NEW h \in HeapType, Acyclic(h.next), NEW this \in Slots, NEW s \in Slots,
         IsIsolated(h, s), NEW x, x = InsertAfter(h, this, s)
  PROVE  /\ Updated(x, h, h.cap, AfterNext(h.next, this, s),
                    AfterPrev(h.next, h.prev, this, s), h.free, h.count)
         /\ x.halt \in {h.halt, Hang}
<1>1. PICK y : y = Lock(h, OwnerOf(h, s))
  OBVIOUS
<1>2. Updated(y, h, h.cap, h.next, h.prev, h.free, h.count) /\ y.halt \in {h.halt, Hang}
  BY <1>1, LockFields
<1>3. h.next \in LinkFns /\ h.prev \in LinkFns
  BY HeapLinks
<1> DEFINE n1 == AfterNext(h.next, this, s)
           p1 == AfterPrev(h.next, h.prev, this, s)
<1>4. n1 \in LinkFns /\ p1 \in LinkFns
  BY <1>3 DEF LinkFns, AfterNext, AfterPrev
<1>9. Last(Chain(h, s)) = s
  BY <1>3, TailOfTail DEF IsIsolated, IsTail
<1>10. Require(h, IsHead(h, s), "insert_after: head") = h
  BY DEF IsIsolated, Require
<1>5. x = [y EXCEPT !.next = n1, !.prev = p1]
  <2> DEFINE tail == Last(Chain(h, s))
             n2 == [u \in Slots |-> IF u = this THEN s
                                    ELSE IF u = tail /\ h.next[this] # Nil THEN h.next[this]
                                    ELSE y.next[u]]
             p2 == [u \in Slots |-> IF u = s THEN this
                                    ELSE IF u = h.next[this] THEN tail ELSE y.prev[u]]
  <2>1. x = [y EXCEPT !.next = n2, !.prev = p2]
    BY <1>1, <1>10 DEF InsertAfter
  <2>2. n2 = n1 /\ p2 = p1
    BY <1>2, <1>9 DEF AfterNext, AfterPrev, Updated
  <2> HIDE DEF n1, p1, n2, p2
  <2> QED BY <2>1, <2>2
<1>6. y \in HeapType
  BY <1>2 DEF Updated
<1> HIDE DEF n1, p1
<1>7. x \in HeapType
  BY <1>4, <1>5, <1>6 DEF HeapType, LinkFns
<1>8. /\ x.next = n1 /\ x.prev = p1 /\ x.halt = y.halt
      /\ x.cap = y.cap /\ x.free = y.free /\ x.count = y.count /\ SameTasks(x, y)
  BY <1>5, <1>6 DEF HeapType, SameTasks
<1> QED BY <1>2, <1>7, <1>8 DEF Updated, SameTasks, n1, p1

ReplacedNext(next, prev, this, s) ==
  [u \in Slots |-> IF u = s THEN Nil ELSE IF u = this THEN next[s]
                   ELSE IF u = prev[s] THEN this ELSE next[u]]
ReplacedPrev(next, prev, this, s) ==
  [u \in Slots |-> IF u = s THEN Nil ELSE IF u = this THEN prev[s]
                   ELSE IF u = next[s] THEN this ELSE prev[u]]

LEMMA ReplaceFields ==
  ASSUME NEW h \in HeapType, NEW this \in Slots, NEW s \in Slots, IsIsolated(h, this),
         NEW x, x = Replace(h, this, s)
  PROVE  /\ Updated(x, h, h.cap, ReplacedNext(h.next, h.prev, this, s),
                    ReplacedPrev(h.next, h.prev, this, s), h.free, h.count)
         /\ x.halt \in {h.halt, Hang}
<1>1. PICK y : y = Lock(h, OwnerOf(h, s))
  OBVIOUS
<1>2. Updated(y, h, h.cap, h.next, h.prev, h.free, h.count) /\ y.halt \in {h.halt, Hang}
  BY <1>1, LockFields
<1>3. h.next \in LinkFns /\ h.prev \in LinkFns
  BY HeapLinks
<1> DEFINE n1 == ReplacedNext(h.next, h.prev, this, s)
           p1 == ReplacedPrev(h.next, h.prev, this, s)
<1>4. n1 \in LinkFns /\ p1 \in LinkFns
  BY <1>3 DEF LinkFns, ReplacedNext, ReplacedPrev
<1>5. x = [y EXCEPT !.next = n1, !.prev = p1]
  BY <1>1, <1>2 DEF Replace, Require, ReplacedNext, ReplacedPrev, Updated
<1>6. y \in HeapType
  BY <1>2 DEF Updated
<1> HIDE DEF n1, p1
<1>7. x \in HeapType
  BY <1>4, <1>5, <1>6 DEF HeapType, LinkFns
<1>8. /\ x.next = n1 /\ x.prev = p1 /\ x.halt = y.halt
      /\ x.cap = y.cap /\ x.free = y.free /\ x.count = y.count /\ SameTasks(x, y)
  BY <1>5, <1>6 DEF HeapType, SameTasks
<1> QED BY <1>2, <1>7, <1>8 DEF Updated, SameTasks, n1, p1

LEMMA PopFields ==
  ASSUME NEW h \in HeapType, NEW t \in Tasks, h.free[t] \in Slots, NEW x, x = PopFreeSlots(h, t)
  PROVE  LET s == h.free[t]
         IN  /\ Updated(x, h, h.cap, ErasedNext(h, s), ErasedPrev(h, s),
                        [h.free EXCEPT ![t] = IF h.next[s] # Nil THEN h.next[s] ELSE h.prev[s]],
                        [h.count EXCEPT ![t] = @ - 1])
             /\ x.halt \in {h.halt, Hang}
<1> DEFINE s == h.free[t]
           f1 == [h.free EXCEPT ![t] = IF h.next[s] # Nil THEN h.next[s] ELSE h.prev[s]]
           c1 == [h.count EXCEPT ![t] = @ - 1]
<1>1. PICK y : y = Lock(h, t)
  OBVIOUS
<1>2. Updated(y, h, h.cap, h.next, h.prev, h.free, h.count) /\ y.halt \in {h.halt, Hang}
  BY <1>1, LockFields
<1>3. PICK z : z = EraseThis(y, s)
  OBVIOUS
<1>4. y \in HeapType
  BY <1>2 DEF Updated
<1>5. /\ Updated(z, y, y.cap, ErasedNext(y, s), ErasedPrev(y, s), y.free, y.count)
      /\ z.halt \in {y.halt, Hang}
  BY <1>3, <1>4, EraseFields
<1>6. ErasedNext(y, s) = ErasedNext(h, s) /\ ErasedPrev(y, s) = ErasedPrev(h, s)
  BY <1>2 DEF Updated, ErasedNext, ErasedPrev
<1>7. z \in HeapType /\ z.free = h.free /\ z.count = h.count /\ z.cap = h.cap
      /\ z.next = ErasedNext(h, s) /\ z.prev = ErasedPrev(h, s) /\ SameTasks(z, h)
      /\ z.halt \in {h.halt, Hang}
  BY <1>2, <1>5, <1>6 DEF Updated, SameTasks
<1>8. x = [z EXCEPT !.free = f1, !.count = c1]
  BY <1>1, <1>3, <1>7 DEF PopFreeSlots, HeapType
<1>9. f1 \in [Tasks -> Slots \cup {Nil}] /\ c1 \in [Tasks -> Int]
  BY HeapLinks DEF HeapType, LinkFns
<1> HIDE DEF f1, c1, s
<1>10. x \in HeapType
  BY <1>7, <1>8, <1>9 DEF HeapType
<1>11. /\ x.next = z.next /\ x.prev = z.prev /\ x.halt = z.halt
       /\ x.cap = z.cap /\ x.free = f1 /\ x.count = c1 /\ SameTasks(x, z)
  BY <1>7, <1>8 DEF HeapType, SameTasks
<1> QED BY <1>7, <1>10, <1>11 DEF Updated, SameTasks, f1, c1, s

(* The links once s is erased and put in front of f, which may be Nil.     *)
PushedNext(h, s, f) ==
  IF f = Nil THEN ErasedNext(h, s) ELSE BeforeNext(ErasedNext(h, s), ErasedPrev(h, s), f, s)
PushedPrev(h, s, f) ==
  IF f = Nil THEN ErasedPrev(h, s) ELSE BeforePrev(ErasedNext(h, s), ErasedPrev(h, s), f, s)

LEMMA NullCapType == NullCap \in CapSet /\ ZombieCap \in CapSet
  /\ IsEmpty(NullCap) /\ ~IsEmpty(ZombieCap) /\ IsZombie(ZombieCap) /\ ~IsZombie(NullCap)
BY DEF NullCap, ZombieCap, MakeCap, CapSet, CapType, IsEmpty, IsZombie

LEMMA PushFields ==
  ASSUME NEW h \in HeapType, NEW t \in Tasks, NEW s \in Slots, OwnerOf(h, s) = t,
         NEW x, x = PushFreeSlots(h, t, s)
  PROVE  /\ Updated(x, h, [h.cap EXCEPT ![s] = NullCap],
                    PushedNext(h, s, h.free[t]), PushedPrev(h, s, h.free[t]),
                    [h.free EXCEPT ![t] = s], [h.count EXCEPT ![t] = @ + 1])
         /\ x.halt \in {h.halt, Hang}
<1> DEFINE f == h.free[t]
           k1 == [h.cap EXCEPT ![s] = NullCap]
           f1 == [h.free EXCEPT ![t] = s]
           c1 == [h.count EXCEPT ![t] = @ + 1]
<1>1. PICK y : y = Lock(h, t)
  OBVIOUS
<1>2. Updated(y, h, h.cap, h.next, h.prev, h.free, h.count) /\ y.halt \in {h.halt, Hang}
  BY <1>1, LockFields
<1>3. PICK z : z = EraseThis(y, s)
  OBVIOUS
<1>4. y \in HeapType
  BY <1>2 DEF Updated
<1>5. /\ Updated(z, y, y.cap, ErasedNext(y, s), ErasedPrev(y, s), y.free, y.count)
      /\ z.halt \in {y.halt, Hang}
  BY <1>3, <1>4, EraseFields
<1>6. ErasedNext(y, s) = ErasedNext(h, s) /\ ErasedPrev(y, s) = ErasedPrev(h, s)
  BY <1>2 DEF Updated, ErasedNext, ErasedPrev
<1>7. z \in HeapType /\ z.free = h.free /\ z.count = h.count /\ z.cap = h.cap
      /\ z.next = ErasedNext(h, s) /\ z.prev = ErasedPrev(h, s) /\ SameTasks(z, h)
      /\ z.halt \in {h.halt, Hang}
  BY <1>2, <1>5, <1>6 DEF Updated, SameTasks
<1>8. PICK e : e = [z EXCEPT !.cap = k1]
  OBVIOUS
<1>9. k1 \in [Slots -> CapSet] /\ f1 \in [Tasks -> Slots \cup {Nil}] /\ c1 \in [Tasks -> Int]
      /\ f \in Slots \cup {Nil}
  BY NullCapType DEF HeapType
<1>10. e \in HeapType /\ e.free = h.free /\ e.count = h.count /\ e.cap = k1
       /\ e.next = ErasedNext(h, s) /\ e.prev = ErasedPrev(h, s) /\ SameTasks(e, h)
       /\ e.halt \in {h.halt, Hang}
  <2> HIDE DEF k1, f1, c1, f
  <2>1. e \in HeapType
    BY <1>7, <1>8, <1>9 DEF HeapType
  <2>2. /\ e.free = z.free /\ e.count = z.count /\ e.cap = k1 /\ e.next = z.next
        /\ e.prev = z.prev /\ e.halt = z.halt /\ SameTasks(e, z)
    BY <1>7, <1>8 DEF HeapType, SameTasks
  <2> QED BY <1>7, <2>1, <2>2 DEF SameTasks
<1>11. PICK l : l = IF f = Nil THEN e ELSE InsertBefore(e, f, s)
  OBVIOUS
<1>12. IsIsolated(e, s)
  BY <1>10 DEF IsIsolated, IsHead, IsTail, ErasedNext, ErasedPrev
<1>13. /\ Updated(l, h, k1, PushedNext(h, s, f), PushedPrev(h, s, f), h.free, h.count)
       /\ l.halt \in {h.halt, Hang}
  <2> HIDE DEF k1, f1, c1, f
  <2>1. CASE f = Nil
    BY <1>10, <1>11, <2>1 DEF Updated, PushedNext, PushedPrev
  <2>2. CASE f # Nil
    <3>1. f \in Slots /\ l = InsertBefore(e, f, s)
      BY <1>9, <1>11, <2>2
    <3>2. /\ Updated(l, e, e.cap, BeforeNext(e.next, e.prev, f, s),
                     BeforePrev(e.next, e.prev, f, s), e.free, e.count)
          /\ l.halt \in {e.halt, Hang}
      BY <1>10, <1>12, <3>1, InsertBeforeFields
    <3> QED BY <1>10, <2>2, <3>2 DEF Updated, SameTasks, PushedNext, PushedPrev
  <2> QED BY <2>1, <2>2
<1>14. x = [l EXCEPT !.free = f1, !.count = c1]
  <2>1. Require(h, OwnerOf(h, s) = t, "push_free_slots: owner") = h
    BY DEF Require
  <2>2. e = [z EXCEPT !.cap[s] = NullCap]
    BY <1>7, <1>8 DEF HeapType
  <2>3. x = [l EXCEPT !.free[t] = s, !.count[t] = @ + 1]
    BY <1>1, <1>3, <1>11, <2>1, <2>2 DEF PushFreeSlots
  <2>4. l.free = h.free /\ l.count = h.count
    BY <1>13 DEF Updated
  <2> QED BY <2>3, <2>4
<1> HIDE DEF f1, c1, f, k1
<1>15. l \in HeapType
  BY <1>13 DEF Updated
<1>16. x \in HeapType
  BY <1>9, <1>14, <1>15 DEF HeapType
<1>17. /\ x.next = l.next /\ x.prev = l.prev /\ x.halt = l.halt
       /\ x.cap = l.cap /\ x.free = f1 /\ x.count = c1 /\ SameTasks(x, l)
  BY <1>14, <1>15 DEF HeapType, SameTasks
<1> QED BY <1>13, <1>16, <1>17 DEF Updated, SameTasks, f1, c1, f, k1

-----------------------------------------------------------------------------
(* What every function of the code keeps, with a set K of slots that are   *)
(* in no list.                                                             *)

Sound(h, K) ==
  /\ h \in HeapType /\ h.halt \notin Failures /\ ObjectsNamed(h)
  /\ Inverses(h.next, h.prev) /\ Acyclic(h.next) /\ Unmixed(h)
  /\ KeptBack(h, K) /\ FreeHeads(h, K) /\ NoOtherHead(h, K) /\ Counted(h, K)

LEMMA FaultsApart ==
  /\ {NoFault, Hang, SelfKill} \cap Failures = {}
  /\ NoFault # SelfKill /\ NoFault # Hang /\ Hang # SelfKill
BY DEF NoFault, Hang, SelfKill, Failures

(* Only the slots, the free lists and the owners of spaces count.          *)
LEMMA SoundSame ==
  ASSUME NEW h, NEW K, Sound(h, K), NEW x \in HeapType, x.halt \notin Failures,
         x.cap = h.cap, x.next = h.next, x.prev = h.prev, x.free = h.free, x.count = h.count,
         x.owner = h.owner
  PROVE  Sound(x, K)
BY DEF Sound, ObjectsNamed, Unmixed, KeptBack, FreeHeads, NoOtherHead, Counted, EmptySlots,
       OwnerOf, IsHead, IsTail, IsIsolated, IsUnused

LEMMA LockSound ==
  ASSUME NEW h, NEW K, Sound(h, K), NEW t, NEW x, x = Lock(h, t)
  PROVE  Sound(x, K) /\ Updated(x, h, h.cap, h.next, h.prev, h.free, h.count)
<1>1. /\ Updated(x, h, h.cap, h.next, h.prev, h.free, h.count)
      /\ x.halt \in {h.halt, Hang}
  BY LockFields DEF Sound
<1>2. x.halt \notin Failures
  BY <1>1, FaultsApart DEF Sound
<1> QED BY <1>1, <1>2, SoundSame DEF Updated, SameTasks

(* A slot that holds a capability is owned by a task.                      *)
LEMMA OwnedSlot ==
  ASSUME NEW h, NEW K, Sound(h, K), NEW s \in Slots, ~IsEmpty(h.cap[s])
  PROVE  s \notin K /\ OwnerOf(h, s) \in Tasks
BY DEF Sound, KeptBack, NoOtherHead, IsUnused

LEMMA EraseSound ==
  ASSUME NEW h, NEW K, Sound(h, K), NEW s \in Slots, ~IsEmpty(h.cap[s]),
         NEW x, x = EraseThis(h, s)
  PROVE  /\ Sound(x, K)
         /\ Updated(x, h, h.cap, ErasedNext(h, s), ErasedPrev(h, s), h.free, h.count)
<1>1. /\ Updated(x, h, h.cap, ErasedNext(h, s), ErasedPrev(h, s), h.free, h.count)
      /\ x.halt \in {h.halt, Hang}
  BY EraseFields DEF Sound
<1>2. x.halt \notin Failures
  BY <1>1, FaultsApart DEF Sound
<1>3. h.next \in LinkFns /\ h.prev \in LinkFns
  BY HeapLinks DEF Sound
<1>4. Inverses(x.next, x.prev) /\ Acyclic(x.next)
  BY <1>1, <1>3, Unlink DEF Sound, Updated, ErasedNext, ErasedPrev
<1>5. \A u \in Slots : /\ x.next[u] = IF u = s THEN Nil ELSE IF u = h.prev[s] THEN h.next[s] ELSE h.next[u]
                       /\ x.prev[u] = IF u = s THEN Nil ELSE IF u = h.next[s] THEN h.prev[s] ELSE h.prev[u]
  BY <1>1 DEF Updated, ErasedNext, ErasedPrev
<1>6. x.cap = h.cap /\ x.free = h.free /\ x.count = h.count /\ x.owner = h.owner /\ x \in HeapType
  BY <1>1 DEF Updated, SameTasks
<1>7. \A u \in Slots : OwnerOf(x, u) = OwnerOf(h, u)
  BY <1>6 DEF OwnerOf
<1>8. Unmixed(x)
  BY <1>3, <1>5, <1>6, <1>7, NilApart DEF Sound, Unmixed, Inverses, LinkFns
<1>9. ASSUME NEW u \in Slots, IsEmpty(h.cap[u])
      PROVE  x.next[u] = h.next[u] /\ x.prev[u] = h.prev[u]
  BY <1>3, <1>5, <1>9, NilApart DEF Sound, Unmixed, Inverses, LinkFns
<1>10. KeptBack(x, K)
  BY <1>6, <1>9 DEF Sound, KeptBack, IsUnused, IsIsolated, IsHead, IsTail
<1>11. FreeHeads(x, K)
  <2>1. \A t \in Tasks : h.free[t] \in Slots \cup {Nil}
    BY DEF Sound, HeapType
  <2> QED BY <1>6, <1>7, <1>9, <2>1 DEF Sound, FreeHeads, IsHead
<1>12. NoOtherHead(x, K)
  BY <1>6, <1>7, <1>9 DEF Sound, NoOtherHead, IsHead
<1>13. Counted(x, K)
  <2>1. \A t \in Tasks : EmptySlots(x, t, K) = EmptySlots(h, t, K)
    BY <1>6, <1>7 DEF EmptySlots
  <2> QED BY <1>6, <2>1 DEF Sound, Counted
<1>14. ObjectsNamed(x)
  BY <1>6 DEF Sound, ObjectsNamed
<1> QED BY <1>1, <1>2, <1>4, <1>6, <1>8, <1>10, <1>11, <1>12, <1>13, <1>14 DEF Sound

(* The set of free slots that is counted is finite.                        *)
LEMMA EmptyFinite ==
  ASSUME NEW h, NEW t, NEW K
  PROVE  IsFiniteSet(EmptySlots(h, t, K)) /\ Cardinality(EmptySlots(h, t, K)) \in Nat
<1>1. EmptySlots(h, t, K) \in SUBSET Slots
  BY DEF EmptySlots
<1>2. IsFiniteSet(EmptySlots(h, t, K))
  BY <1>1, SlotsFinite, FS_Subset
<1> QED BY <1>2, FS_CardinalityType

(* The slots of x and h other than s agree, but for the link past s.       *)
Without(x, h, s) ==
  /\ SameTasks(x, h) /\ x.cap = [h.cap EXCEPT ![s] = NullCap]
  /\ \A u \in Slots \ {s} : ~IsEmpty(h.cap[u]) =>
       x.next[u] = IF u = h.prev[s] THEN h.next[s] ELSE h.next[u]

(* push_free_slots, of a slot with a capability or of a new one.           *)
LEMMA PushSound ==
  ASSUME NEW h, NEW K, Sound(h, K), NEW t \in Tasks, NEW s \in Slots, OwnerOf(h, s) = t,
         ~IsEmpty(h.cap[s]) \/ s \in K,
         NEW x, x = PushFreeSlots(h, t, s)
  PROVE  Sound(x, K \ {s}) /\ Without(x, h, s)
<1>1. /\ Updated(x, h, [h.cap EXCEPT ![s] = NullCap],
                 PushedNext(h, s, h.free[t]), PushedPrev(h, s, h.free[t]),
                 [h.free EXCEPT ![t] = s], [h.count EXCEPT ![t] = @ + 1])
      /\ x.halt \in {h.halt, Hang}
  BY PushFields DEF Sound
<1>2. x.halt \notin Failures
  BY <1>1, FaultsApart DEF Sound
<1>3. h.next \in LinkFns /\ h.prev \in LinkFns /\ h \in HeapType
  BY HeapLinks DEF Sound
<1> DEFINE f == h.free[t]
           n1 == ErasedNext(h, s)
           p1 == ErasedPrev(h, s)
<1>4. n1 \in LinkFns /\ p1 \in LinkFns /\ Inverses(n1, p1) /\ Acyclic(n1)
  BY <1>3, Unlink DEF Sound, ErasedNext, ErasedPrev
<1>5. \A u \in Slots : /\ n1[u] = IF u = s THEN Nil ELSE IF u = h.prev[s] THEN h.next[s] ELSE h.next[u]
                       /\ p1[u] = IF u = s THEN Nil ELSE IF u = h.next[s] THEN h.prev[s] ELSE h.prev[u]
  BY DEF ErasedNext, ErasedPrev
<1> HIDE DEF n1, p1, f
<1>6. f # Nil => /\ f \in Slots \ K /\ f # s /\ IsEmpty(h.cap[f]) /\ h.prev[f] = Nil
                 /\ OwnerOf(h, f) = t
  BY <1>3 DEF Sound, FreeHeads, IsHead, HeapType, f
<1>7. \A u \in Slots \ {s} : IsEmpty(h.cap[u]) => n1[u] = h.next[u] /\ p1[u] = h.prev[u]
  BY <1>3, <1>5, NilApart
     DEF Sound, Unmixed, Inverses, LinkFns, KeptBack, IsUnused, IsIsolated, IsHead, IsTail
<1>8. f # Nil => p1[f] = Nil
  BY <1>6, <1>7
<1>9. \A u \in Slots : /\ x.next[u] = IF u = s THEN f ELSE n1[u]
                       /\ x.prev[u] = IF u = s THEN Nil ELSE IF u = f THEN s ELSE p1[u]
  <2>1. x.next = PushedNext(h, s, f) /\ x.prev = PushedPrev(h, s, f)
    BY <1>1 DEF Updated, f
  <2>2. CASE f = Nil
    <3>1. x.next = n1 /\ x.prev = p1
      BY <2>1, <2>2 DEF PushedNext, PushedPrev, n1, p1
    <3>2. n1[s] = Nil /\ p1[s] = Nil
      BY <1>5
    <3> QED BY <2>2, <3>1, <3>2, NilApart
  <2>3. CASE f # Nil
    <3>1. x.next = BeforeNext(n1, p1, f, s) /\ x.prev = BeforePrev(n1, p1, f, s)
      BY <2>1, <2>3 DEF PushedNext, PushedPrev, n1, p1
    <3> QED BY <1>6, <1>8, <2>3, <3>1, NilApart DEF BeforeNext, BeforePrev
  <2> QED BY <2>2, <2>3
<1>10. Inverses(x.next, x.prev) /\ Acyclic(x.next)
  <2>1. CASE f = Nil
    <3>1. x.next = n1 /\ x.prev = p1
      BY <1>1, <2>1 DEF Updated, PushedNext, PushedPrev, n1, p1, f
    <3> QED BY <1>4, <3>1
  <2>2. CASE f # Nil
    <3>1. x.next = BeforeNext(n1, p1, f, s) /\ x.prev = BeforePrev(n1, p1, f, s)
      BY <1>1, <2>2 DEF Updated, PushedNext, PushedPrev, n1, p1, f
    <3>2. n1[s] = Nil /\ p1[s] = Nil
      BY <1>5
    <3> QED BY <1>4, <1>6, <2>2, <3>1, <3>2, LinkBefore DEF BeforeNext, BeforePrev
  <2> QED BY <2>1, <2>2
<1>11. /\ x.cap = [h.cap EXCEPT ![s] = NullCap] /\ x.free = [h.free EXCEPT ![t] = s]
       /\ x.count = [h.count EXCEPT ![t] = @ + 1] /\ SameTasks(x, h) /\ x.owner = h.owner
       /\ x \in HeapType
  BY <1>1 DEF Updated, SameTasks
<1>12. \A u \in Slots : OwnerOf(x, u) = OwnerOf(h, u)
  BY <1>11 DEF OwnerOf
<1>13. \A u \in Slots : IsEmpty(x.cap[u]) <=> u = s \/ IsEmpty(h.cap[u])
  BY <1>3, <1>11, NullCapType DEF HeapType
<1>14. \A u \in Slots \ {s} : ~IsEmpty(h.cap[u]) /\ n1[u] \in Slots => ~IsEmpty(x.cap[n1[u]])
  BY <1>3, <1>4, <1>5, <1>13, NilApart
     DEF Sound, Unmixed, Inverses, LinkFns, KeptBack, IsUnused, IsIsolated, IsHead, IsTail
<1>15. Unmixed(x)
  <2> SUFFICES ASSUME NEW u \in Slots, x.next[u] # Nil
               PROVE  /\ IsEmpty(x.cap[u]) <=> IsEmpty(x.cap[x.next[u]])
                      /\ IsEmpty(x.cap[u]) => OwnerOf(x, u) = OwnerOf(x, x.next[u])
    BY DEF Unmixed
  <2>1. CASE u = s
    BY <1>6, <1>9, <1>12, <1>13, <2>1
  <2>2. CASE u # s /\ IsEmpty(h.cap[u])
    <3>1. x.next[u] = h.next[u] /\ h.next[u] \in Slots
      BY <1>3, <1>7, <1>9, <2>2 DEF LinkFns
    <3> QED BY <1>12, <1>13, <2>2, <3>1 DEF Sound, Unmixed
  <2>3. CASE u # s /\ ~IsEmpty(h.cap[u])
    <3>1. x.next[u] = n1[u] /\ n1[u] \in Slots
      BY <1>4, <1>9, <2>3 DEF LinkFns
    <3> QED BY <1>13, <1>14, <2>3, <3>1
  <2> QED BY <2>1, <2>2, <2>3
<1>16. KeptBack(x, K \ {s})
  <2> SUFFICES ASSUME NEW u \in K \ {s} PROVE IsUnused(x, u)
    BY DEF Sound, KeptBack
  <2>1. u \in Slots \ {s} /\ IsEmpty(h.cap[u]) /\ h.next[u] = Nil /\ h.prev[u] = Nil
    BY DEF Sound, KeptBack, IsUnused, IsIsolated, IsHead, IsTail
  <2>2. u # f
    BY <1>6, <2>1, NilApart
  <2> QED BY <1>7, <1>9, <1>13, <2>1, <2>2 DEF IsUnused, IsIsolated, IsHead, IsTail
<1>17. FreeHeads(x, K \ {s})
  <2> SUFFICES ASSUME NEW v \in Tasks, x.free[v] # Nil
               PROVE  /\ x.free[v] \notin K \ {s} /\ IsEmpty(x.cap[x.free[v]])
                      /\ x.prev[x.free[v]] = Nil /\ OwnerOf(x, x.free[v]) = v
    BY DEF FreeHeads, IsHead
  <2>1. CASE v = t
    <3>1. x.free[v] = s
      BY <1>3, <1>11, <2>1 DEF HeapType
    <3> QED BY <1>9, <1>12, <1>13, <2>1, <3>1
  <2>2. CASE v # t
    <3>1. x.free[v] = h.free[v] /\ h.free[v] \in Slots
      BY <1>3, <1>11, <2>2 DEF HeapType
    <3>2. /\ h.free[v] \notin K /\ IsEmpty(h.cap[h.free[v]]) /\ h.prev[h.free[v]] = Nil
          /\ OwnerOf(h, h.free[v]) = v
      BY <3>1, NilApart DEF Sound, FreeHeads, IsHead
    <3>3. h.free[v] # s /\ h.free[v] # f
      BY <1>6, <2>2, <3>1, <3>2, NilApart
    <3> QED BY <1>7, <1>9, <1>12, <1>13, <3>1, <3>2, <3>3
  <2> QED BY <2>1, <2>2
<1>18. NoOtherHead(x, K \ {s})
  <2> SUFFICES ASSUME NEW u \in Slots \ (K \ {s})
               PROVE  /\ OwnerOf(x, u) \in Tasks
                      /\ IsEmpty(x.cap[u]) /\ x.prev[u] = Nil => x.free[OwnerOf(x, u)] = u
    BY DEF NoOtherHead, IsHead
  <2>1. CASE u = s
    BY <1>3, <1>11, <1>12, <2>1 DEF HeapType
  <2>2. CASE u # s
    <3>1. u \notin K /\ OwnerOf(h, u) \in Tasks
      BY <2>2 DEF Sound, NoOtherHead
    <3>2. ASSUME IsEmpty(x.cap[u]), x.prev[u] = Nil PROVE x.free[OwnerOf(x, u)] = u
      <4>1. IsEmpty(h.cap[u]) /\ u # f /\ h.prev[u] = Nil
        BY <1>7, <1>9, <1>13, <2>2, <3>2, NilApart
      <4>2. h.free[OwnerOf(h, u)] = u
        BY <3>1, <4>1 DEF Sound, NoOtherHead, IsHead
      <4>3. OwnerOf(h, u) # t
        BY <4>1, <4>2 DEF f
      <4> QED BY <1>3, <1>11, <1>12, <3>1, <4>2, <4>3 DEF HeapType
    <3> QED BY <1>12, <3>1, <3>2
  <2> QED BY <2>1, <2>2
<1>19. Counted(x, K \ {s})
  <2> SUFFICES ASSUME NEW v \in Tasks
               PROVE  x.count[v] = Cardinality(EmptySlots(x, v, K \ {s}))
    BY DEF Counted
  <2>1. h.count[v] = Cardinality(EmptySlots(h, v, K)) /\ h.count[v] \in Int
    BY <1>3 DEF Sound, Counted, HeapType
  <2>2. CASE v = t
    <3>1. EmptySlots(x, v, K \ {s}) = EmptySlots(h, v, K) \cup {s} /\ s \notin EmptySlots(h, v, K)
      BY <1>12, <1>13, <2>2 DEF EmptySlots
    <3>2. Cardinality(EmptySlots(h, v, K) \cup {s}) = Cardinality(EmptySlots(h, v, K)) + 1
      BY <3>1, EmptyFinite, FS_AddElement
    <3>3. x.count[v] = h.count[v] + 1
      BY <1>3, <1>11, <2>2 DEF HeapType
    <3> QED BY <2>1, <3>1, <3>2, <3>3
  <2>3. CASE v # t
    <3>1. EmptySlots(x, v, K \ {s}) = EmptySlots(h, v, K)
      BY <1>12, <1>13, <2>3 DEF EmptySlots
    <3>2. x.count[v] = h.count[v]
      BY <1>3, <1>11, <2>3 DEF HeapType
    <3> QED BY <2>1, <3>1, <3>2
  <2> QED BY <2>2, <2>3
<1>20. ObjectsNamed(x)
  BY <1>3, <1>11 DEF Sound, ObjectsNamed, HeapType, NullCap, MakeCap
<1>21. \A u \in Slots \ {s} : ~IsEmpty(h.cap[u]) =>
         x.next[u] = IF u = h.prev[s] THEN h.next[s] ELSE h.next[u]
  BY <1>5, <1>9
<1>22. Without(x, h, s)
  BY <1>11, <1>21 DEF Without
<1> QED BY <1>2, <1>10, <1>11, <1>15, <1>16, <1>17, <1>18, <1>19, <1>20, <1>22 DEF Sound

(* pop_free_slots takes the head off the free list.                        *)
LEMMA PopSound ==
  ASSUME NEW h, NEW K, Sound(h, K), NEW t \in Tasks, h.free[t] # Nil,
         NEW x, x = PopFreeSlots(h, t)
  PROVE  /\ Sound(x, K \cup {h.free[t]}) /\ SameTasks(x, h)
         /\ h.free[t] \in Slots \ K /\ IsEmpty(h.cap[h.free[t]]) /\ OwnerOf(h, h.free[t]) = t
         /\ x.cap = h.cap
         /\ \A u \in Slots : ~IsEmpty(h.cap[u]) =>
              x.next[u] = h.next[u] /\ x.prev[u] = h.prev[u]
<1> DEFINE s == h.free[t]
<1>1. h.next \in LinkFns /\ h.prev \in LinkFns /\ h \in HeapType
  BY HeapLinks DEF Sound
<1>2. /\ s \in Slots \ K /\ IsEmpty(h.cap[s]) /\ h.prev[s] = Nil /\ OwnerOf(h, s) = t
  BY <1>1 DEF Sound, FreeHeads, IsHead, HeapType
<1>3. /\ Updated(x, h, h.cap, ErasedNext(h, s), ErasedPrev(h, s),
                 [h.free EXCEPT ![t] = IF h.next[s] # Nil THEN h.next[s] ELSE h.prev[s]],
                 [h.count EXCEPT ![t] = @ - 1])
      /\ x.halt \in {h.halt, Hang}
  BY <1>1, <1>2, PopFields
<1> HIDE DEF s
<1>4. x.halt \notin Failures
  BY <1>3, FaultsApart DEF Sound
<1>5. Inverses(x.next, x.prev) /\ Acyclic(x.next)
  BY <1>1, <1>2, <1>3, Unlink DEF Sound, Updated, ErasedNext, ErasedPrev
<1>6. \A u \in Slots : /\ x.next[u] = IF u = s THEN Nil ELSE h.next[u]
                       /\ x.prev[u] = IF u = s THEN Nil ELSE IF u = h.next[s] THEN Nil ELSE h.prev[u]
  BY <1>2, <1>3, NilApart DEF Updated, ErasedNext, ErasedPrev
<1>7. /\ x.cap = h.cap /\ x.owner = h.owner /\ x \in HeapType /\ SameTasks(x, h)
      /\ x.free = [h.free EXCEPT ![t] = h.next[s]] /\ x.count = [h.count EXCEPT ![t] = @ - 1]
  BY <1>2, <1>3 DEF Updated, SameTasks
<1>8. \A u \in Slots : OwnerOf(x, u) = OwnerOf(h, u)
  BY <1>7 DEF OwnerOf
<1>9. \A u \in Slots : ~IsEmpty(h.cap[u]) => x.next[u] = h.next[u] /\ x.prev[u] = h.prev[u]
  BY <1>1, <1>2, <1>6, NilApart DEF Sound, Unmixed, LinkFns
<1>10. Unmixed(x)
  BY <1>1, <1>6, <1>7, <1>8 DEF Sound, Unmixed, LinkFns
<1>11. KeptBack(x, K \cup {s})
  <2>1. IsUnused(x, s)
    BY <1>2, <1>6, <1>7 DEF IsUnused, IsIsolated, IsHead, IsTail
  <2>2. ASSUME NEW u \in K PROVE IsUnused(x, u)
    <3>1. u \in Slots /\ IsEmpty(h.cap[u]) /\ h.next[u] = Nil /\ h.prev[u] = Nil
      BY DEF Sound, KeptBack, IsUnused, IsIsolated, IsHead, IsTail
    <3> QED BY <1>6, <1>7, <3>1 DEF IsUnused, IsIsolated, IsHead, IsTail
  <2> QED BY <1>2, <2>1, <2>2 DEF Sound, KeptBack
<1>12. h.next[s] # Nil => /\ h.next[s] \in Slots /\ h.next[s] \notin K /\ h.next[s] # s
                          /\ h.prev[h.next[s]] = s
                          /\ IsEmpty(h.cap[h.next[s]]) /\ OwnerOf(h, h.next[s]) = t
  <2> SUFFICES ASSUME h.next[s] # Nil
               PROVE  /\ h.next[s] \in Slots /\ h.next[s] \notin K /\ h.next[s] # s
                      /\ h.prev[h.next[s]] = s
                      /\ IsEmpty(h.cap[h.next[s]]) /\ OwnerOf(h, h.next[s]) = t
    OBVIOUS
  <2>1. h.next[s] \in Slots
    BY <1>1, <1>2 DEF LinkFns
  <2>2. h.prev[h.next[s]] = s
    BY <1>2 DEF Sound, Inverses
  <2>3. h.next[s] # s
    BY <1>2, <2>2, NilApart
  <2>4. h.next[s] \notin K
    BY <1>2, <2>2, NilApart DEF Sound, KeptBack, IsUnused, IsIsolated, IsHead
  <2> QED BY <1>2, <2>1, <2>2, <2>3, <2>4 DEF Sound, Unmixed
<1>13. FreeHeads(x, K \cup {s})
  <2> SUFFICES ASSUME NEW v \in Tasks, x.free[v] # Nil
               PROVE  /\ x.free[v] \notin K \cup {s} /\ IsEmpty(x.cap[x.free[v]])
                      /\ x.prev[x.free[v]] = Nil /\ OwnerOf(x, x.free[v]) = v
    BY DEF FreeHeads, IsHead
  <2>1. CASE v = t
    <3>1. x.free[v] = h.next[s]
      BY <1>1, <1>7, <2>1 DEF HeapType
    <3> QED BY <1>6, <1>7, <1>8, <1>12, <2>1, <3>1
  <2>2. CASE v # t
    <3>1. x.free[v] = h.free[v]
      BY <1>1, <1>7, <2>2 DEF HeapType
    <3>2. h.free[v] \in Slots
      BY <1>1, <3>1 DEF HeapType
    <3>3. /\ h.free[v] \notin K /\ IsEmpty(h.cap[h.free[v]]) /\ h.prev[h.free[v]] = Nil
          /\ OwnerOf(h, h.free[v]) = v
      BY <3>1 DEF Sound, FreeHeads, IsHead
    <3> QED BY <1>2, <1>6, <1>7, <1>8, <2>2, <3>1, <3>2, <3>3
  <2> QED BY <2>1, <2>2
<1>14. NoOtherHead(x, K \cup {s})
  <2> SUFFICES ASSUME NEW u \in Slots \ (K \cup {s})
               PROVE  /\ OwnerOf(x, u) \in Tasks
                      /\ IsEmpty(x.cap[u]) /\ x.prev[u] = Nil => x.free[OwnerOf(x, u)] = u
    BY DEF NoOtherHead, IsHead
  <2>1. /\ OwnerOf(h, u) \in Tasks
        /\ IsEmpty(h.cap[u]) /\ h.prev[u] = Nil => h.free[OwnerOf(h, u)] = u
    BY DEF Sound, NoOtherHead, IsHead
  <2>2. ASSUME IsEmpty(x.cap[u]), x.prev[u] = Nil PROVE x.free[OwnerOf(x, u)] = u
    <3>1. CASE u = h.next[s]
      <4>1. OwnerOf(x, u) = t
        BY <1>8, <1>12, <3>1, NilApart
      <4> QED BY <1>1, <1>7, <3>1, <4>1 DEF HeapType
    <3>2. CASE u # h.next[s]
      <4>1. h.free[OwnerOf(h, u)] = u
        BY <1>6, <1>7, <2>1, <2>2, <3>2
      <4>2. OwnerOf(h, u) # t
        BY <4>1 DEF s
      <4> QED BY <1>1, <1>7, <1>8, <2>1, <4>1, <4>2 DEF HeapType
    <3> QED BY <3>1, <3>2
  <2> QED BY <1>8, <2>1, <2>2
<1>15. Counted(x, K \cup {s})
  <2> SUFFICES ASSUME NEW v \in Tasks
               PROVE  x.count[v] = Cardinality(EmptySlots(x, v, K \cup {s}))
    BY DEF Counted
  <2>1. h.count[v] = Cardinality(EmptySlots(h, v, K))
    BY DEF Sound, Counted
  <2>2. CASE v = t
    <3>1. EmptySlots(x, v, K \cup {s}) = EmptySlots(h, v, K) \ {s} /\ s \in EmptySlots(h, v, K)
      BY <1>2, <1>7, <1>8, <2>2 DEF EmptySlots
    <3>2. Cardinality(EmptySlots(h, v, K) \ {s}) = Cardinality(EmptySlots(h, v, K)) - 1
      BY <3>1, EmptyFinite, FS_RemoveElement
    <3>3. x.count[v] = h.count[v] - 1
      BY <1>1, <1>7, <2>2 DEF HeapType
    <3> QED BY <2>1, <3>1, <3>2, <3>3
  <2>3. CASE v # t
    <3>1. EmptySlots(x, v, K \cup {s}) = EmptySlots(h, v, K)
      BY <1>2, <1>7, <1>8, <2>3 DEF EmptySlots
    <3>2. x.count[v] = h.count[v]
      BY <1>1, <1>7, <2>3 DEF HeapType
    <3> QED BY <2>1, <3>1, <3>2
  <2> QED BY <2>2, <2>3
<1>16. ObjectsNamed(x)
  BY <1>7 DEF Sound, ObjectsNamed
<1> QED BY <1>2, <1>4, <1>5, <1>7, <1>9, <1>10, <1>11, <1>13, <1>14, <1>15, <1>16 DEF Sound, s

(* A capability that may be put into a slot.                               *)
Valid(c) ==
  /\ c \in CapSet /\ ~IsEmpty(c)
  /\ c.type = "task" => c.obj \in Tasks
  /\ c.type = "cap_space" => c.obj \in Spaces

LEMMA HeldValid ==
  ASSUME NEW h, NEW K, Sound(h, K), NEW s \in Slots, ~IsEmpty(h.cap[s])
  PROVE  Valid(h.cap[s])
BY DEF Sound, ObjectsNamed, HeapType, Valid

LEMMA PutFields ==
  ASSUME NEW h \in HeapType, NEW s \in Slots, NEW c \in CapSet,
         NEW x, x = [h EXCEPT !.cap[s] = c]
  PROVE  Updated(x, h, [h.cap EXCEPT ![s] = c], h.next, h.prev, h.free, h.count) /\ x.halt = h.halt
<1> DEFINE k1 == [h.cap EXCEPT ![s] = c]
<1>1. x = [h EXCEPT !.cap = k1] /\ k1 \in [Slots -> CapSet]
  BY DEF HeapType
<1> HIDE DEF k1
<1>2. x \in HeapType
  BY <1>1 DEF HeapType
<1>3. /\ x.cap = k1 /\ x.next = h.next /\ x.prev = h.prev /\ x.free = h.free
      /\ x.count = h.count /\ x.halt = h.halt /\ SameTasks(x, h)
  BY <1>1 DEF HeapType, SameTasks
<1> QED BY <1>2, <1>3 DEF Updated, k1

(* A capability is put into a slot that was taken off the free list.       *)
LEMMA FillSound ==
  ASSUME NEW h, NEW K, Sound(h, K), NEW s \in K, OwnerOf(h, s) \in Tasks,
         NEW c, Valid(c), NEW x, x = [h EXCEPT !.cap[s] = c]
  PROVE  /\ Sound(x, K \ {s}) /\ IsIsolated(x, s)
         /\ Updated(x, h, [h.cap EXCEPT ![s] = c], h.next, h.prev, h.free, h.count)
<1>1. s \in Slots /\ IsEmpty(h.cap[s]) /\ h.next[s] = Nil /\ h.prev[s] = Nil
  BY DEF Sound, KeptBack, IsUnused, IsIsolated, IsHead, IsTail
<1>2. /\ Updated(x, h, [h.cap EXCEPT ![s] = c], h.next, h.prev, h.free, h.count)
      /\ x.halt = h.halt
  BY <1>1, PutFields DEF Sound, Valid
<1>3. h.next \in LinkFns /\ h.prev \in LinkFns /\ h \in HeapType
  BY HeapLinks DEF Sound
<1>4. /\ x.cap = [h.cap EXCEPT ![s] = c] /\ x.next = h.next /\ x.prev = h.prev
      /\ x.free = h.free /\ x.count = h.count /\ x.owner = h.owner /\ x \in HeapType
  BY <1>2 DEF Updated, SameTasks
<1>5. \A u \in Slots : OwnerOf(x, u) = OwnerOf(h, u)
  BY <1>4 DEF OwnerOf
<1>6. \A u \in Slots : x.cap[u] = IF u = s THEN c ELSE h.cap[u]
  BY <1>3, <1>4 DEF HeapType
<1>7. ~IsEmpty(c)
  BY DEF Valid
<1>8. Unmixed(x)
  <2>1. \A u \in Slots : h.next[u] # s
    BY <1>1, NilApart DEF Sound, Inverses
  <2> QED BY <1>1, <1>3, <1>4, <1>5, <1>6, <2>1 DEF Sound, Unmixed, LinkFns
<1>9. KeptBack(x, K \ {s})
  BY <1>4, <1>6 DEF Sound, KeptBack, IsUnused, IsIsolated, IsHead, IsTail
<1>10. FreeHeads(x, K \ {s})
  <2>1. \A t \in Tasks : h.free[t] \in Slots \cup {Nil}
    BY <1>3 DEF HeapType
  <2> QED BY <1>4, <1>5, <1>6, <2>1 DEF Sound, FreeHeads, IsHead
<1>11. NoOtherHead(x, K \ {s})
  <2> SUFFICES ASSUME NEW u \in Slots \ (K \ {s})
               PROVE  /\ OwnerOf(x, u) \in Tasks
                      /\ IsEmpty(x.cap[u]) /\ IsHead(x, u) => x.free[OwnerOf(x, u)] = u
    BY DEF NoOtherHead
  <2>1. CASE u = s
    BY <1>5, <1>6, <1>7, <2>1
  <2>2. CASE u # s
    BY <1>4, <1>5, <1>6, <2>2 DEF Sound, NoOtherHead, IsHead
  <2> QED BY <2>1, <2>2
<1>12. Counted(x, K \ {s})
  <2>1. \A t \in Tasks : EmptySlots(x, t, K \ {s}) = EmptySlots(h, t, K)
    BY <1>1, <1>5, <1>6, <1>7 DEF EmptySlots
  <2> QED BY <1>4, <2>1 DEF Sound, Counted
<1>13. ObjectsNamed(x)
  BY <1>6 DEF Sound, ObjectsNamed, Valid
<1>14. IsIsolated(x, s)
  BY <1>1, <1>4 DEF IsIsolated, IsHead, IsTail
<1> QED BY <1>2, <1>4, <1>8, <1>9, <1>10, <1>11, <1>12, <1>13, <1>14 DEF Sound

(* A capability is changed, or makes room for another one.                 *)
LEMMA ChangeSound ==
  ASSUME NEW h, NEW K, Sound(h, K), NEW s \in Slots, ~IsEmpty(h.cap[s]),
         NEW c, Valid(c), NEW x, x = [h EXCEPT !.cap[s] = c]
  PROVE  /\ Sound(x, K)
         /\ Updated(x, h, [h.cap EXCEPT ![s] = c], h.next, h.prev, h.free, h.count)
<1>1. /\ Updated(x, h, [h.cap EXCEPT ![s] = c], h.next, h.prev, h.free, h.count)
      /\ x.halt = h.halt
  BY PutFields DEF Sound, Valid
<1>2. h.next \in LinkFns /\ h \in HeapType
  BY HeapLinks DEF Sound
<1>3. /\ x.cap = [h.cap EXCEPT ![s] = c] /\ x.next = h.next /\ x.prev = h.prev
      /\ x.free = h.free /\ x.count = h.count /\ x.owner = h.owner /\ x \in HeapType
  BY <1>1 DEF Updated, SameTasks
<1>4. \A u \in Slots : OwnerOf(x, u) = OwnerOf(h, u)
  BY <1>3 DEF OwnerOf
<1>5. \A u \in Slots : x.cap[u] = IF u = s THEN c ELSE h.cap[u]
  BY <1>2, <1>3 DEF HeapType
<1>6. \A u \in Slots : IsEmpty(x.cap[u]) <=> IsEmpty(h.cap[u])
  BY <1>5 DEF Valid
<1>7. Unmixed(x)
  BY <1>2, <1>3, <1>4, <1>6 DEF Sound, Unmixed, LinkFns
<1>8. KeptBack(x, K)
  BY <1>3, <1>6 DEF Sound, KeptBack, IsUnused, IsIsolated, IsHead, IsTail
<1>9. FreeHeads(x, K)
  <2>1. \A t \in Tasks : h.free[t] \in Slots \cup {Nil}
    BY <1>2 DEF HeapType
  <2> QED BY <1>3, <1>4, <1>6, <2>1 DEF Sound, FreeHeads, IsHead
<1>10. NoOtherHead(x, K)
  BY <1>3, <1>4, <1>6 DEF Sound, NoOtherHead, IsHead
<1>11. Counted(x, K)
  <2>1. \A t \in Tasks : EmptySlots(x, t, K) = EmptySlots(h, t, K)
    BY <1>4, <1>6 DEF EmptySlots
  <2> QED BY <1>3, <2>1 DEF Sound, Counted
<1>12. ObjectsNamed(x)
  BY <1>5 DEF Sound, ObjectsNamed, Valid
<1> QED BY <1>1, <1>3, <1>7, <1>8, <1>9, <1>10, <1>11, <1>12 DEF Sound

(* insert_cap                                                              *)
LEMMA InsertCapSound ==
  ASSUME NEW h, NEW K, Sound(h, K), NEW t \in Tasks, h.free[t] # Nil, NEW c, Valid(c),
         NEW x, x = InsertCap(h, t, c)
  PROVE  /\ Sound(x, K) /\ SameTasks(x, h)
         /\ h.free[t] \in Slots \ K /\ IsEmpty(h.cap[h.free[t]]) /\ OwnerOf(h, h.free[t]) = t
         /\ IsIsolated(x, h.free[t])
         /\ x.cap = [h.cap EXCEPT ![h.free[t]] = c]
         /\ \A u \in Slots : ~IsEmpty(h.cap[u]) =>
              x.next[u] = h.next[u] /\ x.prev[u] = h.prev[u]
<1>1. PICK y : y = PopFreeSlots(h, t)
  OBVIOUS
<1>2. PICK f : f = h.free[t]
  OBVIOUS
<1>3. /\ Sound(y, K \cup {f}) /\ SameTasks(y, h)
      /\ f \in Slots \ K /\ IsEmpty(h.cap[f]) /\ OwnerOf(h, f) = t
      /\ y.cap = h.cap
      /\ \A u \in Slots : ~IsEmpty(h.cap[u]) => y.next[u] = h.next[u] /\ y.prev[u] = h.prev[u]
  BY <1>1, <1>2, PopSound
<1>4. x = [y EXCEPT !.cap[f] = c]
  BY <1>1, <1>2 DEF InsertCap
<1>5. OwnerOf(y, f) \in Tasks
  BY <1>3 DEF SameTasks, OwnerOf
<1>6. f \in K \cup {f} /\ (K \cup {f}) \ {f} = K
  BY <1>3
<1>7. /\ Sound(x, (K \cup {f}) \ {f}) /\ IsIsolated(x, f)
      /\ Updated(x, y, [y.cap EXCEPT ![f] = c], y.next, y.prev, y.free, y.count)
  BY <1>3, <1>4, <1>5, <1>6, FillSound
<1> QED BY <1>2, <1>3, <1>6, <1>7 DEF Updated, SameTasks

(* insert_after of a slot that holds a capability and is in no list        *)
LEMMA AfterSound ==
  ASSUME NEW h, NEW K, Sound(h, K), NEW this \in Slots, NEW s \in Slots, this # s,
         ~IsEmpty(h.cap[this]), ~IsEmpty(h.cap[s]), IsIsolated(h, s),
         NEW x, x = InsertAfter(h, this, s)
  PROVE  /\ Sound(x, K)
         /\ Updated(x, h, h.cap, AfterNext(h.next, this, s),
                    AfterPrev(h.next, h.prev, this, s), h.free, h.count)
<1>1. h.next \in LinkFns /\ h.prev \in LinkFns /\ h \in HeapType /\ h.next[s] = Nil /\ h.prev[s] = Nil
  BY HeapLinks DEF Sound, IsIsolated, IsHead, IsTail
<1>2. /\ Updated(x, h, h.cap, AfterNext(h.next, this, s),
                 AfterPrev(h.next, h.prev, this, s), h.free, h.count)
      /\ x.halt \in {h.halt, Hang}
  BY <1>1, InsertAfterFields DEF Sound
<1>3. x.halt \notin Failures
  BY <1>2, FaultsApart DEF Sound
<1>4. Inverses(x.next, x.prev) /\ Acyclic(x.next)
  BY <1>1, <1>2, LinkAfter DEF Sound, Updated, AfterNext, AfterPrev
<1>5. \A u \in Slots : /\ x.next[u] = IF u = this THEN s ELSE IF u = s /\ h.next[this] # Nil
                                      THEN h.next[this] ELSE h.next[u]
                       /\ x.prev[u] = IF u = s THEN this ELSE IF u = h.next[this] THEN s
                                      ELSE h.prev[u]
  BY <1>2 DEF Updated, AfterNext, AfterPrev
<1>6. x.cap = h.cap /\ x.free = h.free /\ x.count = h.count /\ x.owner = h.owner /\ x \in HeapType
  BY <1>2 DEF Updated, SameTasks
<1>7. \A u \in Slots : OwnerOf(x, u) = OwnerOf(h, u)
  BY <1>6 DEF OwnerOf
<1>8. Unmixed(x)
  BY <1>1, <1>5, <1>6, <1>7, NilApart DEF Sound, Unmixed, LinkFns
<1>9. ASSUME NEW u \in Slots, IsEmpty(h.cap[u])
      PROVE  x.next[u] = h.next[u] /\ x.prev[u] = h.prev[u]
  BY <1>1, <1>5, <1>9, NilApart DEF Sound, Unmixed, LinkFns
<1>10. KeptBack(x, K)
  BY <1>6, <1>9 DEF Sound, KeptBack, IsUnused, IsIsolated, IsHead, IsTail
<1>11. FreeHeads(x, K)
  <2>1. \A t \in Tasks : h.free[t] \in Slots \cup {Nil}
    BY DEF Sound, HeapType
  <2> QED BY <1>6, <1>7, <1>9, <2>1 DEF Sound, FreeHeads, IsHead
<1>12. NoOtherHead(x, K)
  BY <1>6, <1>7, <1>9 DEF Sound, NoOtherHead, IsHead
<1>13. Counted(x, K)
  <2>1. \A t \in Tasks : EmptySlots(x, t, K) = EmptySlots(h, t, K)
    BY <1>6, <1>7 DEF EmptySlots
  <2> QED BY <1>6, <2>1 DEF Sound, Counted
<1>14. ObjectsNamed(x)
  BY <1>6 DEF Sound, ObjectsNamed
<1> QED BY <1>2, <1>3, <1>4, <1>6, <1>8, <1>10, <1>11, <1>12, <1>13, <1>14 DEF Sound

(* replace of a slot that holds a capability by one that does, too         *)
LEMMA ReplaceSound ==
  ASSUME NEW h, NEW K, Sound(h, K), NEW this \in Slots, NEW s \in Slots, this # s,
         ~IsEmpty(h.cap[this]), ~IsEmpty(h.cap[s]), IsIsolated(h, this),
         NEW x, x = Replace(h, this, s)
  PROVE  /\ Sound(x, K)
         /\ Updated(x, h, h.cap, ReplacedNext(h.next, h.prev, this, s),
                    ReplacedPrev(h.next, h.prev, this, s), h.free, h.count)
<1>1. /\ h.next \in LinkFns /\ h.prev \in LinkFns /\ h \in HeapType
      /\ h.next[this] = Nil /\ h.prev[this] = Nil
  BY HeapLinks DEF Sound, IsIsolated, IsHead, IsTail
<1>2. /\ Updated(x, h, h.cap, ReplacedNext(h.next, h.prev, this, s),
                 ReplacedPrev(h.next, h.prev, this, s), h.free, h.count)
      /\ x.halt \in {h.halt, Hang}
  BY <1>1, ReplaceFields
<1>3. x.halt \notin Failures
  BY <1>2, FaultsApart DEF Sound
<1>4. Inverses(x.next, x.prev) /\ Acyclic(x.next)
  BY <1>1, <1>2, Exchange DEF Sound, Updated, ReplacedNext, ReplacedPrev
<1>5. \A u \in Slots : /\ x.next[u] = IF u = s THEN Nil ELSE IF u = this THEN h.next[s]
                                      ELSE IF u = h.prev[s] THEN this ELSE h.next[u]
                       /\ x.prev[u] = IF u = s THEN Nil ELSE IF u = this THEN h.prev[s]
                                      ELSE IF u = h.next[s] THEN this ELSE h.prev[u]
  BY <1>2 DEF Updated, ReplacedNext, ReplacedPrev
<1>6. x.cap = h.cap /\ x.free = h.free /\ x.count = h.count /\ x.owner = h.owner /\ x \in HeapType
  BY <1>2 DEF Updated, SameTasks
<1>7. \A u \in Slots : OwnerOf(x, u) = OwnerOf(h, u)
  BY <1>6 DEF OwnerOf
<1>8. ASSUME NEW u \in Slots, IsEmpty(h.cap[u])
      PROVE  x.next[u] = h.next[u] /\ x.prev[u] = h.prev[u]
  BY <1>1, <1>5, <1>8, NilApart DEF Sound, Unmixed, LinkFns, Inverses
<1>9. Unmixed(x)
  <2> SUFFICES ASSUME NEW u \in Slots, x.next[u] # Nil
               PROVE  /\ IsEmpty(h.cap[u]) <=> IsEmpty(h.cap[x.next[u]])
                      /\ IsEmpty(h.cap[u]) => OwnerOf(h, u) = OwnerOf(x, x.next[u])
    BY <1>6, <1>7 DEF Unmixed
  <2>1. CASE IsEmpty(h.cap[u])
    BY <1>1, <1>7, <1>8, <2>1 DEF Sound, Unmixed, LinkFns
  <2>2. CASE ~IsEmpty(h.cap[u])
    BY <1>1, <1>5, <2>2 DEF Sound, Unmixed, LinkFns
  <2> QED BY <2>1, <2>2
<1>10. KeptBack(x, K)
  BY <1>6, <1>8 DEF Sound, KeptBack, IsUnused, IsIsolated, IsHead, IsTail
<1>11. FreeHeads(x, K)
  <2>1. \A t \in Tasks : h.free[t] \in Slots \cup {Nil}
    BY DEF Sound, HeapType
  <2> QED BY <1>6, <1>7, <1>8, <2>1 DEF Sound, FreeHeads, IsHead
<1>12. NoOtherHead(x, K)
  BY <1>6, <1>7, <1>8 DEF Sound, NoOtherHead, IsHead
<1>13. Counted(x, K)
  <2>1. \A t \in Tasks : EmptySlots(x, t, K) = EmptySlots(h, t, K)
    BY <1>6, <1>7 DEF EmptySlots
  <2> QED BY <1>6, <2>1 DEF Sound, Counted
<1>14. ObjectsNamed(x)
  BY <1>6 DEF Sound, ObjectsNamed
<1> QED BY <1>2, <1>3, <1>4, <1>6, <1>9, <1>10, <1>11, <1>12, <1>13, <1>14 DEF Sound

(* A slot is taken out of its list and freed.                              *)
LEMMA ErasedFreeSound ==
  ASSUME NEW h, NEW K, Sound(h, K), NEW s \in Slots, ~IsEmpty(h.cap[s]),
         NEW x, x = Free(EraseThis(h, s), s)
  PROVE  Sound(x, K) /\ Without(x, h, s)
<1>1. PICK y : y = EraseThis(h, s)
  OBVIOUS
<1>2. /\ Sound(y, K)
      /\ Updated(y, h, h.cap, ErasedNext(h, s), ErasedPrev(h, s), h.free, h.count)
  BY <1>1, EraseSound
<1>3. s \notin K /\ OwnerOf(y, s) \in Tasks /\ ~IsEmpty(y.cap[s])
  BY <1>2, OwnedSlot DEF Updated
<1>4. PICK t \in Tasks : OwnerOf(y, s) = t /\ x = PushFreeSlots(y, t, s)
  BY <1>1, <1>3 DEF Free
<1>5. Sound(x, K \ {s}) /\ Without(x, y, s)
  BY <1>2, <1>3, <1>4, PushSound
<1>6. K \ {s} = K
  BY <1>3
<1>7. /\ y.prev[s] = Nil
      /\ \A u \in Slots \ {s} : y.next[u] = IF u = h.prev[s] THEN h.next[s] ELSE h.next[u]
  BY <1>2 DEF Updated, ErasedNext, ErasedPrev
<1>8. \A u \in Slots \ {s} : ~IsEmpty(h.cap[u]) =>
        x.next[u] = IF u = h.prev[s] THEN h.next[s] ELSE h.next[u]
  BY <1>2, <1>5, <1>7, NilApart DEF Updated, Without
<1> QED BY <1>2, <1>5, <1>6, <1>8 DEF Updated, SameTasks, Without

(* A slot of a capability is freed.                                        *)
LEMMA FreeSound ==
  ASSUME NEW h, NEW K, Sound(h, K), NEW s \in Slots, ~IsEmpty(h.cap[s]), NEW x, x = Free(h, s)
  PROVE  Sound(x, K) /\ Without(x, h, s)
<1>1. s \notin K /\ OwnerOf(h, s) \in Tasks
  BY OwnedSlot
<1>2. PICK t \in Tasks : OwnerOf(h, s) = t /\ x = PushFreeSlots(h, t, s)
  BY <1>1 DEF Free
<1>3. K \ {s} = K
  BY <1>1
<1>4. Sound(x, K \ {s}) /\ Without(x, h, s)
  BY <1>1, <1>2, PushSound
<1> QED BY <1>3, <1>4

-----------------------------------------------------------------------------
(* Zombies.                                                                *)

Whole(h, K) == Sound(h, K) /\ ZombiesLead(h)

(* A zombie keeps the slot behind it when another slot is freed, unless it *)
(* stands for the capability in that slot.                                 *)
LEMMA FreedWhole ==
  ASSUME NEW h, NEW K, Whole(h, K), NEW s \in Slots, ~IsEmpty(h.cap[s]),
         h.prev[s] = Nil \/ ~IsZombie(h.cap[h.prev[s]]),
         NEW x, x = Free(EraseThis(h, s), s) \/ x = Free(h, s)
  PROVE  Whole(x, K) /\ Without(x, h, s)
<1>1. Sound(x, K) /\ Without(x, h, s)
  BY ErasedFreeSound, FreeSound DEF Whole
<1>2. ASSUME NEW u \in Slots, IsZombie(x.cap[u]) PROVE x.next[u] # Nil
  <2>1. h \in HeapType
    BY DEF Whole, Sound
  <2>2. u # s /\ x.cap[u] = h.cap[u]
    BY <1>1, <1>2, <2>1, NullCapType DEF HeapType, Without
  <2>3. ~IsEmpty(h.cap[u]) /\ IsZombie(h.cap[u])
    BY <1>2, <2>2 DEF IsZombie, IsEmpty
  <2>4. u # h.prev[s]
    BY <2>3, NilApart
  <2> QED BY <1>1, <2>2, <2>3, <2>4 DEF Whole, ZombiesLead, Without
<1> QED BY <1>1, <1>2 DEF Whole, ZombiesLead

(* Every zombie leads but, perhaps, the one in s.                          *)
LeadBut(h, s) == \A u \in Slots \ {s} : IsZombie(h.cap[u]) => h.next[u] # Nil

(* insert_cap, of a capability                                             *)
LEMMA InsertCapLeads ==
  ASSUME NEW h, NEW K, Sound(h, K), NEW t \in Tasks, h.free[t] # Nil,
         NEW c, Valid(c), ~IsZombie(c), NEW s, LeadBut(h, s), NEW x, x = InsertCap(h, t, c)
  PROVE  LeadBut(x, s)
<1>1. /\ h.free[t] \in Slots \ K
      /\ x.cap = [h.cap EXCEPT ![h.free[t]] = c]
      /\ \A u \in Slots : ~IsEmpty(h.cap[u]) => x.next[u] = h.next[u] /\ x.prev[u] = h.prev[u]
  BY InsertCapSound
<1>2. h \in HeapType
  BY DEF Sound
<1>3. ASSUME NEW u \in Slots \ {s}, IsZombie(x.cap[u]) PROVE x.next[u] # Nil
  <2>1. x.cap[u] = h.cap[u]
    BY <1>1, <1>2, <1>3 DEF HeapType
  <2>2. ~IsEmpty(h.cap[u]) /\ IsZombie(h.cap[u])
    BY <1>3, <2>1 DEF IsZombie, IsEmpty
  <2> QED BY <1>1, <2>2 DEF LeadBut
<1> QED BY <1>3 DEF LeadBut

LEMMA InsertCapWhole ==
  ASSUME NEW h, NEW K, Whole(h, K), NEW t \in Tasks, h.free[t] # Nil,
         NEW c, Valid(c), ~IsZombie(c), NEW x, x = InsertCap(h, t, c)
  PROVE  Whole(x, K) /\ SameTasks(x, h)
<1>1. Sound(x, K) /\ SameTasks(x, h)
  BY InsertCapSound DEF Whole
<1>2. LeadBut(h, Nil)
  BY DEF Whole, ZombiesLead, LeadBut
<1>3. LeadBut(x, Nil)
  BY <1>2, InsertCapLeads DEF Whole
<1> QED BY <1>1, <1>3, NilApart DEF Whole, ZombiesLead, LeadBut

(* insert_after gives this a slot behind it.                               *)
LEMMA AttachWhole ==
  ASSUME NEW h, NEW K, Sound(h, K), NEW this \in Slots, LeadBut(h, this),
         NEW s \in Slots, this # s, ~IsEmpty(h.cap[this]), Valid(h.cap[s]), ~IsZombie(h.cap[s]),
         IsIsolated(h, s), NEW x, x = InsertAfter(h, this, s)
  PROVE  Whole(x, K) /\ SameTasks(x, h)
<1>1. ~IsEmpty(h.cap[s])
  BY DEF Valid
<1>2. /\ Sound(x, K)
      /\ Updated(x, h, h.cap, AfterNext(h.next, this, s),
                 AfterPrev(h.next, h.prev, this, s), h.free, h.count)
  BY <1>1, AfterSound
<1>3. ZombiesLead(x)
  BY <1>2, NilApart DEF Updated, AfterNext, LeadBut, ZombiesLead
<1> QED BY <1>2, <1>3 DEF Whole, Updated

(* copy_cap                                                                *)
LEMMA CopyAfterWhole ==
  ASSUME NEW h, NEW K, Whole(h, K), NEW t \in Tasks, h.free[t] # Nil,
         NEW s \in Slots, ~IsEmpty(h.cap[s]), ~IsZombie(h.cap[s]),
         NEW x, x = InsertAfter(InsertCap(h, t, h.cap[s]), s, h.free[t])
  PROVE  Whole(x, K) /\ SameTasks(x, h)
<1>1. PICK y : y = InsertCap(h, t, h.cap[s])
  OBVIOUS
<1>2. PICK f : f = h.free[t]
  OBVIOUS
<1>3. Valid(h.cap[s]) /\ h \in HeapType
  BY HeldValid DEF Whole, Sound
<1>4. /\ Sound(y, K) /\ SameTasks(y, h)
      /\ f \in Slots \ K /\ IsEmpty(h.cap[f]) /\ IsIsolated(y, f)
      /\ y.cap = [h.cap EXCEPT ![f] = h.cap[s]]
  BY <1>1, <1>2, <1>3, InsertCapSound DEF Whole
<1>5. s # f /\ y.cap[s] = h.cap[s] /\ y.cap[f] = h.cap[s]
  BY <1>3, <1>4 DEF HeapType
<1>6. LeadBut(h, s)
  BY DEF Whole, ZombiesLead, LeadBut
<1>7. LeadBut(y, s)
  BY <1>1, <1>3, <1>6, InsertCapLeads DEF Whole
<1>8. x = InsertAfter(y, s, f)
  BY <1>1, <1>2
<1>9. Whole(x, K) /\ SameTasks(x, y)
  BY <1>3, <1>4, <1>5, <1>7, <1>8, AttachWhole
<1> QED BY <1>4, <1>9 DEF SameTasks

LEMMA LockWhole ==
  ASSUME NEW h, NEW K, Whole(h, K), NEW t, NEW x, x = Lock(h, t)
  PROVE  /\ Whole(x, K) /\ SameTasks(x, h)
         /\ x.cap = h.cap /\ x.next = h.next /\ x.prev = h.prev /\ x.free = h.free
<1>1. Sound(x, K) /\ Updated(x, h, h.cap, h.next, h.prev, h.free, h.count)
  BY LockSound DEF Whole
<1> QED BY <1>1 DEF Whole, ZombiesLead, Updated

(* A check that is not one of the assertions at stake may fail.            *)
LEMMA HaltWhole ==
  ASSUME NEW h, NEW K, Whole(h, K), NEW why \in Halts \ Failures,
         NEW x, x = h \/ x = [h EXCEPT !.halt = why]
  PROVE  /\ Whole(x, K) /\ SameTasks(x, h)
         /\ x.cap = h.cap /\ x.next = h.next /\ x.prev = h.prev /\ x.free = h.free
<1>1. h \in HeapType /\ h.halt \notin Failures
  BY DEF Whole, Sound
<1>2. CASE x = h
  BY <1>2 DEF SameTasks
<1>3. CASE x = [h EXCEPT !.halt = why]
  <2>1. Updated(x, h, h.cap, h.next, h.prev, h.free, h.count) /\ x.halt = why
    BY <1>1, <1>3 DEF Updated, SameTasks, HeapType
  <2>2. Sound(x, K)
    BY <2>1, SoundSame DEF Updated, SameTasks, Whole
  <2> QED BY <2>1, <2>2 DEF Whole, ZombiesLead, Updated
<1> QED BY <1>2, <1>3

(* delegate_cap                                                            *)
LEMMA DelegateWhole ==
  ASSUME NEW h, NEW K, Whole(h, K), NEW v \in Tasks, h.free[v] # Nil,
         NEW s \in Slots, ~IsEmpty(h.cap[s]), ~IsZombie(h.cap[s]),
         NEW x, x = Delegate(h, v, s)
  PROVE  Whole(x, K) /\ SameTasks(x, h)
<1>1. PICK l : l = Lock(h, v)
  OBVIOUS
<1>2. PICK y : y = InsertCap(l, v, h.cap[s])
  OBVIOUS
<1>3. PICK f : f = h.free[v]
  OBVIOUS
<1>4. PICK z : z = [y EXCEPT !.cap[s] = ZombieCap]
  OBVIOUS
<1>5. /\ Whole(l, K) /\ SameTasks(l, h)
      /\ l.cap = h.cap /\ l.next = h.next /\ l.prev = h.prev /\ l.free = h.free
  BY <1>1, LockWhole
<1>6. Valid(h.cap[s]) /\ l \in HeapType
  BY <1>5, HeldValid DEF Whole, Sound
<1>7. /\ Sound(y, K) /\ SameTasks(y, l)
      /\ f \in Slots \ K /\ IsEmpty(h.cap[f]) /\ IsIsolated(y, f)
      /\ y.cap = [h.cap EXCEPT ![f] = h.cap[s]]
  <2>1. Sound(l, K) /\ l.free[v] # Nil /\ f = l.free[v]
    BY <1>3, <1>5 DEF Whole
  <2>2. /\ Sound(y, K) /\ SameTasks(y, l)
        /\ f \in Slots \ K /\ IsEmpty(l.cap[f]) /\ IsIsolated(y, f)
        /\ y.cap = [l.cap EXCEPT ![f] = h.cap[s]]
    BY <1>2, <1>6, <2>1, InsertCapSound
  <2> QED BY <1>5, <2>2
<1>8. s # f /\ ~IsEmpty(y.cap[s]) /\ y.cap[f] = h.cap[s] /\ y \in HeapType
  BY <1>5, <1>6, <1>7 DEF HeapType, Sound
<1>9. LeadBut(y, s)
  <2>1. LeadBut(l, s)
    BY <1>5 DEF Whole, ZombiesLead, LeadBut
  <2> QED BY <1>2, <1>5, <1>6, <2>1, InsertCapLeads DEF Whole
<1>10. Valid(ZombieCap)
  BY NullCapType DEF Valid, ZombieCap, MakeCap
<1>11. /\ Sound(z, K)
       /\ Updated(z, y, [y.cap EXCEPT ![s] = ZombieCap], y.next, y.prev, y.free, y.count)
  BY <1>4, <1>7, <1>8, <1>10, ChangeSound
<1>12. /\ \A u \in Slots : z.cap[u] = IF u = s THEN ZombieCap ELSE y.cap[u]
       /\ z.next = y.next /\ z.prev = y.prev /\ SameTasks(z, y)
  BY <1>8, <1>11 DEF Updated, HeapType
<1>13. LeadBut(z, s) /\ IsIsolated(z, f) /\ ~IsEmpty(z.cap[s]) /\ z.cap[f] = h.cap[s]
  BY <1>7, <1>8, <1>9, <1>12, NullCapType DEF LeadBut, IsIsolated, IsHead, IsTail
<1>14. x = InsertAfter(z, s, f)
  BY <1>1, <1>2, <1>3, <1>4 DEF Delegate
<1>15. Whole(x, K) /\ SameTasks(x, z)
  BY <1>6, <1>7, <1>8, <1>11, <1>13, <1>14, AttachWhole
<1> QED BY <1>5, <1>7, <1>12, <1>15 DEF SameTasks

(* transfer_cap                                                            *)
LEMMA TransferWhole ==
  ASSUME NEW h, NEW K, Whole(h, K), NEW v \in Tasks, h.free[v] # Nil,
         NEW s \in Slots, ~IsEmpty(h.cap[s]), ~IsZombie(h.cap[s]),
         NEW x, x = Transfer(h, v, s)
  PROVE  Whole(x, K) /\ SameTasks(x, h)
<1>1. PICK l : l = Lock(h, v)
  OBVIOUS
<1>2. PICK y : y = InsertCap(l, v, h.cap[s])
  OBVIOUS
<1>3. PICK f : f = h.free[v]
  OBVIOUS
<1>4. PICK z : z = Replace(y, f, s)
  OBVIOUS
<1>5. /\ Whole(l, K) /\ SameTasks(l, h)
      /\ l.cap = h.cap /\ l.next = h.next /\ l.prev = h.prev /\ l.free = h.free
  BY <1>1, LockWhole
<1>6. Valid(h.cap[s]) /\ l \in HeapType
  BY <1>5, HeldValid DEF Whole, Sound
<1>7. /\ Sound(y, K) /\ SameTasks(y, l)
      /\ f \in Slots \ K /\ IsEmpty(h.cap[f]) /\ IsIsolated(y, f)
      /\ y.cap = [h.cap EXCEPT ![f] = h.cap[s]]
  <2>1. Sound(l, K) /\ l.free[v] # Nil /\ f = l.free[v]
    BY <1>3, <1>5 DEF Whole
  <2>2. /\ Sound(y, K) /\ SameTasks(y, l)
        /\ f \in Slots \ K /\ IsEmpty(l.cap[f]) /\ IsIsolated(y, f)
        /\ y.cap = [l.cap EXCEPT ![f] = h.cap[s]]
    BY <1>2, <1>6, <2>1, InsertCapSound
  <2> QED BY <1>5, <2>2
<1>8. /\ s # f /\ y.cap[s] = h.cap[s] /\ y.cap[f] = h.cap[s] /\ ~IsEmpty(h.cap[s])
      /\ y \in HeapType
  BY <1>5, <1>6, <1>7 DEF HeapType, Sound
<1>9. LeadBut(y, s)
  <2>1. LeadBut(l, s)
    BY <1>5 DEF Whole, ZombiesLead, LeadBut
  <2> QED BY <1>2, <1>5, <1>6, <2>1, InsertCapLeads DEF Whole
<1>10. /\ Sound(z, K)
       /\ Updated(z, y, y.cap, ReplacedNext(y.next, y.prev, f, s),
                  ReplacedPrev(y.next, y.prev, f, s), y.free, y.count)
  BY <1>4, <1>7, <1>8, ReplaceSound
<1>11. z.cap = y.cap /\ z.prev[s] = Nil /\ SameTasks(z, y)
  BY <1>10 DEF Updated, ReplacedPrev
<1>12. ZombiesLead(z)
  <2> SUFFICES ASSUME NEW u \in Slots, IsZombie(y.cap[u]) PROVE z.next[u] # Nil
    BY <1>11 DEF ZombiesLead
  <2>1. u # s /\ u # f
    BY <1>8
  <2>2. y.next[u] # Nil
    BY <1>9, <2>1 DEF LeadBut
  <2> QED BY <1>7, <1>10, <2>1, <2>2, NilApart DEF Updated, ReplacedNext
<1>13. x = Free(z, s)
  BY <1>1, <1>2, <1>3, <1>4 DEF Transfer
<1>14. Whole(z, K) /\ ~IsEmpty(z.cap[s])
  BY <1>8, <1>10, <1>11, <1>12 DEF Whole
<1>15. Whole(x, K) /\ SameTasks(x, z)
  <2>1. Whole(x, K) /\ Without(x, z, s)
    BY <1>11, <1>13, <1>14, FreedWhole
  <2> QED BY <2>1 DEF Without
<1> QED BY <1>5, <1>7, <1>11, <1>15 DEF SameTasks

(* The error path of create_object                                         *)
LEMMA GiveBackWhole ==
  ASSUME NEW h, NEW K, Whole(h, K), NEW t \in Tasks, h.free[t] # Nil, NEW x, x = GiveBack(h, t)
  PROVE  Whole(x, K) /\ SameTasks(x, h)
<1>1. PICK y : y = PopFreeSlots(h, t)
  OBVIOUS
<1>2. PICK f : f = h.free[t]
  OBVIOUS
<1>3. /\ Sound(y, K \cup {f}) /\ SameTasks(y, h)
      /\ f \in Slots \ K /\ IsEmpty(h.cap[f]) /\ OwnerOf(h, f) = t
      /\ y.cap = h.cap
      /\ \A u \in Slots : ~IsEmpty(h.cap[u]) => y.next[u] = h.next[u] /\ y.prev[u] = h.prev[u]
  BY <1>1, <1>2, PopSound DEF Whole
<1>4. OwnerOf(y, f) = t /\ f \in K \cup {f} /\ (K \cup {f}) \ {f} = K
  BY <1>3 DEF SameTasks, OwnerOf
<1>5. x = PushFreeSlots(y, t, f)
  BY <1>1, <1>2 DEF GiveBack
<1>6. Sound(x, K) /\ Without(x, y, f)
  <2>1. Sound(x, (K \cup {f}) \ {f}) /\ Without(x, y, f)
    BY <1>3, <1>4, <1>5, PushSound
  <2> QED BY <1>4, <2>1
<1>7. y.prev[f] = Nil
  BY <1>3, <1>4 DEF Sound, KeptBack, IsUnused, IsIsolated, IsHead
<1>8. ASSUME NEW u \in Slots, IsZombie(x.cap[u]) PROVE x.next[u] # Nil
  <2>1. h \in HeapType
    BY DEF Whole, Sound
  <2>2. u # f /\ x.cap[u] = h.cap[u]
    BY <1>3, <1>6, <1>8, <2>1, NullCapType DEF HeapType, Without
  <2>3. ~IsEmpty(h.cap[u]) /\ IsZombie(h.cap[u])
    BY <1>8, <2>2 DEF IsZombie, IsEmpty
  <2>4. x.next[u] = h.next[u]
    BY <1>3, <1>6, <1>7, <2>2, <2>3, NilApart DEF Without
  <2> QED BY <2>3, <2>4 DEF Whole, ZombiesLead
<1> QED BY <1>3, <1>6, <1>8 DEF Whole, ZombiesLead, Without, SameTasks

LEMMA MakeValid ==
  ASSUME NEW type \in CapType \ {"null"}, NEW obj \in Tasks \cup Spaces \cup Nat \cup {Nil},
         type = "task" => obj \in Tasks, type = "cap_space" => obj \in Spaces,
         NEW base \in Nat, NEW size \in Nat
  PROVE  Valid(MakeCap(type, obj, base, size)) /\ MakeCap(type, obj, base, size).type = type
BY DEF Valid, MakeCap, CapSet, IsEmpty

LEMMA NatSucc == \A i \in Nat : i + 1 \in Nat
OBVIOUS

(* sys_id_cap_create: the new id                                           *)
Checked(y, s) == Require(y, IsUnused(y, s), "create_object: is_unused")
Identified(u, s, id) == [u EXCEPT !.cap[s] = MakeCap("id", id, 0, 0), !.nextId = @ + 1]

LEMMA CreateIdWhole ==
  ASSUME NEW h, NEW K, Whole(h, K), NEW t \in Tasks, h.free[t] # Nil, NEW id \in Nat,
         NEW y, y = PopFreeSlots(h, t),
         NEW u, u = Checked(y, h.free[t]), NEW x, x = Identified(u, h.free[t], id)
  PROVE  /\ Whole(x, K)
         /\ x.owner = h.owner /\ x.spaces = h.spaces /\ x.state = h.state
<1>1. PICK f : f = h.free[t]
  OBVIOUS
<1>2. PICK c : c = MakeCap("id", id, 0, 0)
  OBVIOUS
<1>3. Sound(y, K \cup {f}) /\ f \in Slots
  BY <1>1, PopSound DEF Whole
<1>4. IsUnused(y, f)
  BY <1>3 DEF Sound, KeptBack
<1>5. u = y
  BY <1>1, <1>4 DEF Require, Checked
<1>6. PICK z : z = InsertCap(h, t, c)
  OBVIOUS
<1>7. z = [y EXCEPT !.cap[f] = c]
  BY <1>1, <1>6 DEF InsertCap
<1>8. Valid(c) /\ ~IsZombie(c)
  <2>1. "id" \in CapType \ {"null"} /\ id \in Tasks \cup Spaces \cup Nat \cup {Nil} /\ 0 \in Nat
    BY DEF CapType
  <2>2. Valid(c) /\ c.type = "id"
    BY <1>2, <2>1, MakeValid
  <2> QED BY <2>2 DEF IsZombie
<1>9. Whole(z, K) /\ SameTasks(z, h)
  BY <1>6, <1>8, InsertCapWhole
<1>10. y \in HeapType /\ z \in HeapType
  BY <1>3, <1>9 DEF Sound, Whole
<1>14. PICK i \in Nat : i = z.nextId + 1
  <2>1. z.nextId \in Nat
    BY <1>10 DEF HeapType
  <2> QED BY <2>1, NatSucc
<1>11. x = [z EXCEPT !.nextId = i]
  <2>1. z.nextId = y.nextId
    BY <1>7, <1>10 DEF HeapType
  <2> QED BY <1>1, <1>2, <1>5, <1>7, <1>14, <2>1 DEF Identified
<1>12. /\ x \in HeapType /\ x.halt = z.halt /\ x.cap = z.cap /\ x.next = z.next /\ x.prev = z.prev
       /\ x.free = z.free /\ x.count = z.count /\ x.owner = z.owner /\ x.spaces = z.spaces
       /\ x.state = z.state
  BY <1>10, <1>11 DEF HeapType
<1>13. Sound(x, K)
  BY <1>9, <1>12, SoundSame DEF Whole, Sound
<1> QED BY <1>9, <1>12, <1>13 DEF Whole, ZombiesLead, SameTasks

LEMMA ModNat == \A a \in Int, b \in Nat : b > 0 => a % b \in Nat
OBVIOUS

LEMMA DivNat == \A a, b \in Nat : b > 0 => a \div b \in Nat
OBVIOUS

(* round_up on words                                                       *)
LEMMA BaseType ==
  ASSUME NEW c \in CapSet, NEW align \in Nat
  PROVE  BaseFor(c, align) \in Nat
<1>1. c.base \in Nat /\ c.used \in Nat /\ WordSize \in Nat /\ WordSize > 0
  BY CapAssumption DEF CapSet
<1>2. PICK v \in Nat : v = (c.base + c.used) % WordSize
  BY <1>1, ModNat
<1>3. CASE align = 0
  BY <1>2, <1>3 DEF BaseFor, RoundUp
<1>4. CASE align # 0
  <2>1. v + align - 1 \in Int /\ align > 0
    BY <1>4
  <2>2. PICK w \in Nat : w = (v + align - 1) % WordSize
    BY <1>1, <2>1, ModNat
  <2>3. PICK q \in Nat : q = w \div align
    BY <2>1, <2>2, DivNat
  <2>4. q * align \in Int
    OBVIOUS
  <2>5. (q * align) % WordSize \in Nat
    BY <1>1, <2>4, ModNat
  <2>6. BaseFor(c, align) = (q * align) % WordSize
    BY <1>2, <1>4, <2>2, <2>3 DEF BaseFor, RoundUp
  <2> QED BY <2>5, <2>6
<1> QED BY <1>3, <1>4

LEMMA CarvedValid ==
  ASSUME NEW c, Valid(c), NEW base \in Nat, NEW size \in Nat
  PROVE  Valid(Carved(c, base, size)) /\ Carved(c, base, size).type = c.type
<1>1. c \in CapSet /\ c.base \in Nat /\ WordSize \in Nat /\ WordSize > 0
  BY CapAssumption DEF Valid, CapSet
<1>2. PICK v \in Nat : v = (base + size - c.base) % WordSize
  BY <1>1, ModNat
<1>3. Carved(c, base, size) = [c EXCEPT !.used = v]
  BY <1>2 DEF Carved
<1>4. [c EXCEPT !.used = v] \in CapSet /\ [c EXCEPT !.used = v].type = c.type
      /\ [c EXCEPT !.used = v].obj = c.obj
  BY <1>1 DEF CapSet
<1> QED BY <1>3, <1>4 DEF Valid, IsEmpty

(* The first free slot of t is taken out.                                  *)
Popped(h, K, t, x) ==
  /\ Sound(x, K \cup {h.free[t]}) /\ SameTasks(x, h)
  /\ h.free[t] \in Slots \ K /\ IsEmpty(h.cap[h.free[t]]) /\ OwnerOf(h, h.free[t]) = t
  /\ x.cap = h.cap
  /\ \A u \in Slots : ~IsEmpty(h.cap[u]) => x.next[u] = h.next[u] /\ x.prev[u] = h.prev[u]

LEMMA PopPops ==
  ASSUME NEW h, NEW K, Sound(h, K), NEW t \in Tasks, h.free[t] # Nil,
         NEW x, x = PopFreeSlots(h, t)
  PROVE  Popped(h, K, t, x)
BY PopSound DEF Popped

(* create_memory_object                                                    *)
LEMMA CreateWhole ==
  ASSUME NEW h, NEW K, Whole(h, K), NEW t \in Tasks, h.free[t] # Nil,
         NEW m \in Slots, h.cap[m].type = "mem", NEW size \in Nat, NEW align \in Nat,
         NEW type \in CapType \ {"null", "zombie"},
         NEW obj \in Tasks \cup Spaces \cup Nat \cup {Nil},
         type = "task" => obj \in Tasks, type = "cap_space" => obj \in Spaces,
         NEW x, x = CreateMemoryObject(h, t, m, size, align, type, obj)
  PROVE  Whole(x, K) /\ SameTasks(x, h) /\ x.halt \notin Failures
<1>1. PICK c : c = h.cap[m]
  OBVIOUS
<1>2. ~IsEmpty(c) /\ ~IsZombie(c) /\ Valid(c) /\ h \in HeapType
  BY <1>1, HeldValid DEF Whole, Sound, IsEmpty, IsZombie
<1>3. PICK base \in Nat : base = BaseFor(c, align)
  BY <1>2, BaseType DEF Valid
<1>4. PICK f : f = h.free[t]
  OBVIOUS
<1>5. PICK y : y = PopFreeSlots(h, t)
  OBVIOUS
<1>6. /\ Sound(y, K \cup {f}) /\ SameTasks(y, h)
      /\ f \in Slots \ K /\ IsEmpty(h.cap[f]) /\ OwnerOf(h, f) = t
      /\ y.cap = h.cap
      /\ \A u \in Slots : ~IsEmpty(h.cap[u]) => y.next[u] = h.next[u] /\ y.prev[u] = h.prev[u]
  <2>1. Sound(h, K)
    BY DEF Whole
  <2>2. Popped(h, K, t, y)
    BY <1>5, <2>1, PopPops
  <2> QED BY ONLY <1>4, <2>2 DEF Popped
<1>7. Require(y, IsUnused(y, f), "create_object: is_unused") = y
  <2>1. IsUnused(y, f)
    BY <1>6 DEF Sound, KeptBack
  <2> QED BY <2>1 DEF Require
<1>9. PICK w : w = Require(y, base < MaxPhys /\ size < MaxPhys, "make_memory_cap: address")
  OBVIOUS
<1>10. Whole(y, K \cup {f})
  <2>1. ASSUME NEW u \in Slots, IsZombie(y.cap[u]) PROVE y.next[u] # Nil
    <3>1. ~IsEmpty(h.cap[u]) /\ IsZombie(h.cap[u])
      BY <1>6, <2>1 DEF IsZombie, IsEmpty
    <3> QED BY <1>6, <3>1 DEF Whole, ZombiesLead
  <2> QED BY <1>6, <2>1 DEF Whole, ZombiesLead
<1>11. /\ Whole(w, K \cup {f}) /\ SameTasks(w, y)
       /\ w.cap = y.cap /\ w.next = y.next /\ w.prev = y.prev /\ w.free = y.free
  <2>1. PICK why \in Halts \ Failures : why = "make_memory_cap: address"
    BY DEF Halts, Failures
  <2>2. w = y \/ w = [y EXCEPT !.halt = why]
    BY <1>9, <2>1 DEF Require
  <2>3. PICK K1 : K1 = K \cup {f}
    OBVIOUS
  <2>4. Whole(y, K1)
    BY <1>10, <2>3
  <2>5. Whole(w, K1) /\ SameTasks(w, y)
        /\ w.cap = y.cap /\ w.next = y.next /\ w.prev = y.prev /\ w.free = y.free
    BY <2>2, <2>4, HaltWhole
  <2> QED BY <2>3, <2>5
<1>12. PICK a : a = MakeCap(type, obj, base, size)
  OBVIOUS
<1>13. Valid(a) /\ ~IsZombie(a)
  <2>1. type \in CapType \ {"null"}
    OBVIOUS
  <2>2. Valid(a) /\ a.type = type
    BY <1>12, <2>1, MakeValid, ZenonT(30)
  <2> QED BY <2>2 DEF IsZombie
<1>14. PICK b : b = Carved(c, base, size)
  OBVIOUS
<1>15. Valid(b) /\ ~IsZombie(b)
  BY <1>2, <1>14, CarvedValid DEF IsZombie
<1>16. PICK p : p = [w EXCEPT !.cap[f] = a]
  OBVIOUS
<1>17. PICK q : q = [p EXCEPT !.cap[m] = b]
  OBVIOUS
<1>18. f # m
  BY <1>1, <1>2, <1>6
<1>19. /\ Sound(p, K) /\ IsIsolated(p, f)
       /\ Updated(p, w, [w.cap EXCEPT ![f] = a], w.next, w.prev, w.free, w.count)
  <2>1. OwnerOf(w, f) \in Tasks /\ f \in K \cup {f} /\ (K \cup {f}) \ {f} = K
    BY <1>6, <1>11 DEF SameTasks, OwnerOf
  <2>2. /\ Sound(p, (K \cup {f}) \ {f}) /\ IsIsolated(p, f)
        /\ Updated(p, w, [w.cap EXCEPT ![f] = a], w.next, w.prev, w.free, w.count)
    BY <1>11, <1>13, <1>16, <2>1, FillSound DEF Whole
  <2> QED BY <2>1, <2>2
<1>20. \A u \in Slots : p.cap[u] = IF u = f THEN a ELSE h.cap[u]
  BY <1>2, <1>6, <1>11, <1>19 DEF Updated, HeapType
<1>21. ~IsEmpty(p.cap[m])
  BY <1>1, <1>2, <1>18, <1>20
<1>22. /\ Sound(q, K)
       /\ Updated(q, p, [p.cap EXCEPT ![m] = b], p.next, p.prev, p.free, p.count)
  BY <1>15, <1>17, <1>19, <1>21, ChangeSound
<1>23. /\ \A u \in Slots : q.cap[u] = IF u = m THEN b ELSE p.cap[u]
       /\ q.next = w.next /\ q.prev = w.prev /\ SameTasks(q, w)
  BY <1>19, <1>22 DEF Updated, HeapType, SameTasks
<1>24. LeadBut(q, m)
  BY <1>6, <1>11, <1>13, <1>20, <1>23 DEF LeadBut, Whole, ZombiesLead
<1>25. /\ IsIsolated(q, f) /\ q.cap[f] = a /\ ~IsEmpty(q.cap[m])
  BY <1>6, <1>15, <1>18, <1>19, <1>20, <1>22, <1>23
     DEF IsIsolated, IsHead, IsTail, Updated, Valid
<1>26. x = InsertAfter(q, m, f)
  <2>1. q = [w EXCEPT !.cap[f] = a, !.cap[m] = b]
    BY <1>16, <1>17
  <2> QED BY <1>1, <1>3, <1>4, <1>5, <1>7, <1>9, <1>12, <1>14, <2>1 DEF CreateMemoryObject
<1>27. Whole(x, K) /\ SameTasks(x, q)
  BY <1>6, <1>13, <1>18, <1>22, <1>24, <1>25, <1>26, AttachWhole
<1> QED BY <1>6, <1>11, <1>23, <1>27 DEF SameTasks, Whole, Sound

-----------------------------------------------------------------------------
(* What a zombie stands for.                                               *)

(* Behind a capability there are capabilities.                             *)
LEMMA ChainHolds ==
  ASSUME NEW h, NEW K, Sound(h, K), NEW s \in Slots, ~IsEmpty(h.cap[s]), NEW c, c = Chain(h, s)
  PROVE  IsChain(h.next, s, c) /\ \A i \in 1..Len(c) : ~IsEmpty(h.cap[c[i]])
<1>1. h.next \in LinkFns /\ Acyclic(h.next)
  BY HeapLinks DEF Sound
<1>2. IsChain(h.next, s, c)
  BY <1>1, ChainFacts
<1>3. PICK n \in Nat : n = Len(c) /\ n > 0
  BY <1>2 DEF IsChain
<1>4. /\ c[1] = s /\ \A i \in 1..n : c[i] \in Slots
      /\ \A i \in 1..(n - 1) : h.next[c[i]] = c[i + 1]
  BY <1>2, <1>3 DEF IsChain
<1> DEFINE bad == {i \in 1..n : IsEmpty(h.cap[c[i]])}
<1>5. bad = {}
  <2> SUFFICES ASSUME bad # {} PROVE FALSE
    OBVIOUS
  <2>1. bad \in SUBSET Nat
    OBVIOUS
  <2>2. PICK i \in bad : \A j \in bad : i <= j
    BY <2>1, LeastOf
  <2>3. i \in 1..n /\ i # 1 /\ IsEmpty(h.cap[c[i]])
    BY <1>4, <2>2
  <2>4. i - 1 \in 1..(n - 1) /\ i - 1 \in 1..n /\ i - 1 + 1 = i /\ ~(i <= i - 1)
    BY <2>3
  <2>5. i - 1 \notin bad
    <3> HIDE DEF bad
    <3> QED BY <2>2, <2>4
  <2>6. ~IsEmpty(h.cap[c[i - 1]])
    BY <2>4, <2>5
  <2>7. h.next[c[i - 1]] = c[i] /\ c[i - 1] \in Slots /\ c[i] \in Slots
    BY <1>4, <2>3, <2>4
  <2>8. IsEmpty(h.cap[c[i - 1]]) <=> IsEmpty(h.cap[c[i]])
    BY <2>7, NilApart DEF Sound, Unmixed
  <2> QED BY <2>3, <2>6, <2>8
<1> QED BY <1>2, <1>3, <1>5

LEMMA LeastIsMin ==
  ASSUME NEW S \in SUBSET Nat, NEW i \in S, \A j \in S : i <= j
  PROVE  Min(S) = i
<1>1. PICK m : m = Min(S)
  OBVIOUS
<1>2. m \in S /\ \A j \in S : m <= j
  BY <1>1 DEF Min
<1>3. m \in Nat /\ i \in Nat /\ m <= i /\ i <= m
  BY <1>2
<1>4. m = i
  BY <1>3
<1> QED BY <1>1, <1>4

(* The position of what s stands for in the list from s on.                *)
StandsFor(h, c, i) ==
  /\ i \in 1..Len(c) /\ ~IsZombie(h.cap[c[i]])
  /\ \A j \in 1..Len(c) : j < i => IsZombie(h.cap[c[j]])

LEMMA ResolveIs ==
  ASSUME NEW h, NEW s, NEW c, c = Chain(h, s), Len(c) \in Nat, NEW i, StandsFor(h, c, i)
  PROVE  Resolve(h, s) = c[i]
<1> DEFINE live == {j \in 1..Len(c) : ~IsZombie(h.cap[c[j]])}
<1>1. i \in live /\ live \in SUBSET Nat /\ \A j \in live : i <= j
  BY DEF StandsFor
<1>2. Resolve(h, s) = IF live = {} THEN Nil ELSE c[Min(live)]
  BY DEF Resolve
<1> HIDE DEF live
<1>3. Min(live) = i
  BY <1>1, LeastIsMin
<1> QED BY <1>1, <1>2, <1>3

LEMMA ResolveExists ==
  ASSUME NEW h, NEW K, Whole(h, K), NEW s \in Slots, NEW c, c = Chain(h, s)
  PROVE  \E i \in 1..Len(c) : StandsFor(h, c, i) /\ Resolve(h, s) = c[i]
<1>1. h.next \in LinkFns /\ Acyclic(h.next)
  BY HeapLinks DEF Whole, Sound
<1>2. IsChain(h.next, s, c)
  BY <1>1, ChainFacts
<1>3. PICK n \in Nat : n = Len(c) /\ n > 0
  BY <1>2 DEF IsChain
<1> DEFINE live == {j \in 1..n : ~IsZombie(h.cap[c[j]])}
<1>4. n \in live
  <2>1. n \in 1..n /\ h.next[c[n]] = Nil /\ c[n] \in Slots
    BY <1>2, <1>3 DEF IsChain
  <2> QED BY <2>1 DEF Whole, ZombiesLead
<1>5. live \in SUBSET Nat /\ live # {}
  BY <1>4
<1>6. PICK i \in live : \A j \in live : i <= j
  BY <1>5, LeastOf
<1>7. StandsFor(h, c, i)
  BY <1>3, <1>6 DEF StandsFor
<1> QED BY <1>3, <1>7, ResolveIs

LEMMA ResolveSelf ==
  ASSUME NEW h, h.next \in LinkFns, Acyclic(h.next), NEW s \in Slots, ~IsZombie(h.cap[s])
  PROVE  Resolve(h, s) = s
<1>1. PICK c : c = Chain(h, s)
  OBVIOUS
<1>2. IsChain(h.next, s, c)
  BY <1>1, ChainFacts
<1>3. PICK n \in Nat : n = Len(c) /\ n > 0 /\ c[1] = s
  BY <1>2 DEF IsChain
<1>4. StandsFor(h, c, 1)
  BY <1>3 DEF StandsFor
<1> QED BY <1>1, <1>3, <1>4, ResolveIs

(* A zombie stands for the capability right behind it.                     *)
LEMMA ResolveNext ==
  ASSUME NEW h, h.next \in LinkFns, Acyclic(h.next), NEW p \in Slots, IsZombie(h.cap[p]),
         h.next[p] # Nil, ~IsZombie(h.cap[h.next[p]])
  PROVE  Resolve(h, p) = h.next[p]
<1>1. PICK c : c = Chain(h, p)
  OBVIOUS
<1>2. IsChain(h.next, p, c)
  BY <1>1, ChainFacts
<1>3. PICK n \in Nat : n = Len(c) /\ n > 0 /\ c[1] = p
  BY <1>2 DEF IsChain
<1>4. n # 1
  BY <1>2, <1>3 DEF IsChain
<1>5. 1 \in 1..(n - 1) /\ 2 \in 1..n /\ 1 + 1 = 2
  BY <1>3, <1>4
<1>6. h.next[p] = c[2]
  BY <1>2, <1>3, <1>5 DEF IsChain
<1>7. StandsFor(h, c, 2)
  <2>1. \A j \in 1..n : j < 2 => j = 1
    OBVIOUS
  <2> QED BY <1>3, <1>5, <1>6, <2>1 DEF StandsFor
<1> QED BY <1>1, <1>3, <1>6, <1>7, ResolveIs

LEMMA SameObjectSymmetric ==
  ASSUME NEW h, NEW a, NEW b
  PROVE  IsSameObject(h, a, b) => IsSameObject(h, b, a)
<1>1. PICK x : x = Resolve(h, a)
  OBVIOUS
<1>2. PICK y : y = Resolve(h, b)
  OBVIOUS
<1> QED BY <1>1, <1>2 DEF IsSameObject, SameObject

-----------------------------------------------------------------------------
(* The loops: the heap after a round is what the round makes of the heap   *)
(* before it.                                                              *)

PushRun(f, h, t, p, m) ==
  f = [n \in 0..m |-> IF n = 0 THEN h ELSE PushFreeSlots(f[n - 1], t, <<p, SlotsPerSpace - n>>)]

LEMMA PushRunExists ==
  ASSUME NEW h, NEW t, NEW p, NEW m \in Nat
  PROVE  \E f : PushRun(f, h, t, p, m)
<1> DEFINE bad == {k \in Nat : ~\E f : PushRun(f, h, t, p, k)}
<1> SUFFICES ASSUME bad # {} PROVE FALSE
  OBVIOUS
<1>1. bad \in SUBSET Nat
  OBVIOUS
<1>2. PICK k \in bad : \A j \in bad : k <= j
  BY <1>1, LeastOf
<1>3. k # 0
  <2>1. PushRun([n \in 0..0 |-> h], h, t, p, 0)
    BY DEF PushRun
  <2> QED BY <1>2, <2>1
<1>4. k - 1 \in Nat /\ k - 1 \notin bad /\ k \in Nat
  <2> HIDE DEF bad
  <2> QED BY <1>1, <1>2, <1>3
<1>5. PICK f : PushRun(f, h, t, p, k - 1)
  BY <1>4
<1> DEFINE Step(x, n) == PushFreeSlots(x, t, <<p, SlotsPerSpace - n>>)
           g == [n \in 0..k |-> IF n = k THEN Step(f[k - 1], k) ELSE f[n]]
<1>6. f = [n \in 0..(k - 1) |-> IF n = 0 THEN h ELSE Step(f[n - 1], n)]
  BY <1>5 DEF PushRun
<1> HIDE DEF Step
<1>7. \A n \in 0..k : g[n] = IF n = 0 THEN h ELSE Step(g[n - 1], n)
  <2> TAKE n \in 0..k
  <2>1. CASE n = 0
    BY <1>3, <1>4, <1>6, <2>1
  <2>2. CASE n = k
    BY <1>3, <1>4, <2>2
  <2>3. CASE n # 0 /\ n # k
    <3>1. n \in 0..(k - 1) /\ n - 1 \in 0..k /\ n - 1 # k
      BY <1>4, <2>3
    <3>2. g[n] = f[n] /\ g[n - 1] = f[n - 1]
      BY <2>3, <3>1
    <3>3. f[n] = Step(f[n - 1], n)
      BY <1>6, <2>3, <3>1
    <3> QED BY <2>3, <3>2, <3>3
  <2> QED BY <2>1, <2>2, <2>3
<1>8. g = [n \in 0..k |-> IF n = 0 THEN h ELSE Step(g[n - 1], n)]
  BY <1>7
<1>9. PushRun(g, h, t, p, k)
  <2> HIDE DEF g
  <2> QED BY <1>8 DEF PushRun, Step
<1> QED BY <1>2, <1>9

LEMMA PushRounds ==
  ASSUME NEW h, NEW t, NEW p, NEW m \in Nat, m = SlotsPerSpace, NEW f, f = PushSlots(h, t, p)
  PROVE  f[0] = h /\ \A n \in 1..m : f[n] = PushFreeSlots(f[n - 1], t, <<p, SlotsPerSpace - n>>)
<1>1. \E g : PushRun(g, h, t, p, m)
  BY PushRunExists
<1>2. f = CHOOSE g : g = [n \in 0..m |-> IF n = 0 THEN h ELSE PushFreeSlots(g[n - 1], t, <<p, SlotsPerSpace - n>>)]
  BY DEF PushSlots
<1>3. f = [n \in 0..m |-> IF n = 0 THEN h ELSE PushFreeSlots(f[n - 1], t, <<p, SlotsPerSpace - n>>)]
  <2>1. \E g : g = [n \in 0..m |-> IF n = 0 THEN h ELSE PushFreeSlots(g[n - 1], t, <<p, SlotsPerSpace - n>>)]
    BY <1>1 DEF PushRun
  <2> QED BY <1>2, <2>1
<1>4. 0 \in 0..m /\ \A n \in 1..m : n \in 0..m /\ n # 0
  OBVIOUS
<1> DEFINE S(n) == <<p, SlotsPerSpace - n>>
<1>5. f = [n \in 0..m |-> IF n = 0 THEN h ELSE PushFreeSlots(f[n - 1], t, S(n))]
  BY <1>3
<1> HIDE DEF S
<1>6. f[0] = h /\ \A n \in 1..m : f[n] = PushFreeSlots(f[n - 1], t, S(n))
  BY <1>4, <1>5
<1> QED BY <1>6 DEF S

FreeRun(f, h, c, m) ==
  f = [n \in 0..m |-> IF n = 0 THEN h ELSE Free(EraseThis(f[n - 1], c[n]), c[n])]

LEMMA FreeRunExists ==
  ASSUME NEW h, NEW c, NEW m \in Nat
  PROVE  \E f : FreeRun(f, h, c, m)
<1> DEFINE bad == {k \in Nat : ~\E f : FreeRun(f, h, c, k)}
<1> SUFFICES ASSUME bad # {} PROVE FALSE
  OBVIOUS
<1>1. bad \in SUBSET Nat
  OBVIOUS
<1>2. PICK k \in bad : \A j \in bad : k <= j
  BY <1>1, LeastOf
<1>3. k # 0
  <2>1. FreeRun([n \in 0..0 |-> h], h, c, 0)
    BY DEF FreeRun
  <2> QED BY <1>2, <2>1
<1>4. k - 1 \in Nat /\ k - 1 \notin bad /\ k \in Nat
  <2> HIDE DEF bad
  <2> QED BY <1>1, <1>2, <1>3
<1>5. PICK f : FreeRun(f, h, c, k - 1)
  BY <1>4
<1> DEFINE Step(x, n) == Free(EraseThis(x, c[n]), c[n])
           g == [n \in 0..k |-> IF n = k THEN Step(f[k - 1], k) ELSE f[n]]
<1>6. f = [n \in 0..(k - 1) |-> IF n = 0 THEN h ELSE Step(f[n - 1], n)]
  BY <1>5 DEF FreeRun
<1> HIDE DEF Step
<1>7. \A n \in 0..k : g[n] = IF n = 0 THEN h ELSE Step(g[n - 1], n)
  <2> TAKE n \in 0..k
  <2>1. CASE n = 0
    BY <1>3, <1>4, <1>6, <2>1
  <2>2. CASE n = k
    BY <1>3, <1>4, <2>2
  <2>3. CASE n # 0 /\ n # k
    <3>1. n \in 0..(k - 1) /\ n - 1 \in 0..k /\ n - 1 # k
      BY <1>4, <2>3
    <3>2. g[n] = f[n] /\ g[n - 1] = f[n - 1]
      BY <2>3, <3>1
    <3>3. f[n] = Step(f[n - 1], n)
      BY <1>6, <2>3, <3>1
    <3> QED BY <2>3, <3>2, <3>3
  <2> QED BY <2>1, <2>2, <2>3
<1>8. g = [n \in 0..k |-> IF n = 0 THEN h ELSE Step(g[n - 1], n)]
  BY <1>7
<1>9. FreeRun(g, h, c, k)
  <2> HIDE DEF g
  <2> QED BY <1>8 DEF FreeRun, Step
<1> QED BY <1>2, <1>9

LEMMA FreeRounds ==
  ASSUME NEW h, NEW c, NEW m \in Nat, m = Len(c), NEW f, f = FreeSlots(h, c)
  PROVE  f[0] = h /\ \A n \in 1..m : f[n] = Free(EraseThis(f[n - 1], c[n]), c[n])
<1>1. \E g : FreeRun(g, h, c, m)
  BY FreeRunExists
<1>2. f = CHOOSE g : g = [n \in 0..m |-> IF n = 0 THEN h ELSE Free(EraseThis(g[n - 1], c[n]), c[n])]
  BY DEF FreeSlots
<1>3. f = [n \in 0..m |-> IF n = 0 THEN h ELSE Free(EraseThis(f[n - 1], c[n]), c[n])]
  <2>1. \E g : g = [n \in 0..m |-> IF n = 0 THEN h ELSE Free(EraseThis(g[n - 1], c[n]), c[n])]
    BY <1>1 DEF FreeRun
  <2> QED BY <1>2, <2>1
<1> QED BY <1>3

(* A round of the loop that destroys slots.                                *)
DestroyRound(x, me, s, held) ==
  IF x.halt = NoFault THEN DestroyCapSlot(x, me, s, held) ELSE x

DestroyRun(f, h, me, c, held, m) ==
  f = [n \in 0..m |-> IF n = 0 THEN h ELSE DestroyRound(f[n - 1], me, c[n], held)]

LEMMA DestroyRunExists ==
  ASSUME NEW h, NEW me, NEW c, NEW held, NEW m \in Nat
  PROVE  \E f : DestroyRun(f, h, me, c, held, m)
<1> DEFINE bad == {k \in Nat : ~\E f : DestroyRun(f, h, me, c, held, k)}
<1> SUFFICES ASSUME bad # {} PROVE FALSE
  OBVIOUS
<1>1. bad \in SUBSET Nat
  OBVIOUS
<1>2. PICK k \in bad : \A j \in bad : k <= j
  BY <1>1, LeastOf
<1>3. k # 0
  <2>1. DestroyRun([n \in 0..0 |-> h], h, me, c, held, 0)
    BY DEF DestroyRun
  <2> QED BY <1>2, <2>1
<1>4. k - 1 \in Nat /\ k - 1 \notin bad /\ k \in Nat
  <2> HIDE DEF bad
  <2> QED BY <1>1, <1>2, <1>3
<1>5. PICK f : DestroyRun(f, h, me, c, held, k - 1)
  BY <1>4
<1> DEFINE Step(x, n) == DestroyRound(x, me, c[n], held)
           g == [n \in 0..k |-> IF n = k THEN Step(f[k - 1], k) ELSE f[n]]
<1>6. f = [n \in 0..(k - 1) |-> IF n = 0 THEN h ELSE Step(f[n - 1], n)]
  BY <1>5 DEF DestroyRun
<1> HIDE DEF Step
<1>7. \A n \in 0..k : g[n] = IF n = 0 THEN h ELSE Step(g[n - 1], n)
  <2> TAKE n \in 0..k
  <2>1. CASE n = 0
    BY <1>3, <1>4, <1>6, <2>1
  <2>2. CASE n = k
    BY <1>3, <1>4, <2>2
  <2>3. CASE n # 0 /\ n # k
    <3>1. n \in 0..(k - 1) /\ n - 1 \in 0..k /\ n - 1 # k
      BY <1>4, <2>3
    <3>2. g[n] = f[n] /\ g[n - 1] = f[n - 1]
      BY <2>3, <3>1
    <3>3. f[n] = Step(f[n - 1], n)
      BY <1>6, <2>3, <3>1
    <3> QED BY <2>3, <3>2, <3>3
  <2> QED BY <2>1, <2>2, <2>3
<1>8. g = [n \in 0..k |-> IF n = 0 THEN h ELSE Step(g[n - 1], n)]
  BY <1>7
<1>9. DestroyRun(g, h, me, c, held, k)
  <2> HIDE DEF g
  <2> QED BY <1>8 DEF DestroyRun, Step
<1> QED BY <1>2, <1>9

LEMMA DestroyRounds ==
  ASSUME NEW h, NEW me, NEW c, NEW held, NEW m \in Nat, m = Len(c), NEW f, f = DestroySlots(h, me, c, held)
  PROVE  f[0] = h /\ \A n \in 1..m : f[n] = DestroyRound(f[n - 1], me, c[n], held)
<1>1. \E g : DestroyRun(g, h, me, c, held, m)
  BY DestroyRunExists
<1>2. f = CHOOSE g : g = [n \in 0..m |-> IF n = 0 THEN h ELSE DestroyRound(g[n - 1], me, c[n], held)]
  BY DEF DestroySlots, DestroyRound, Then
<1>3. f = [n \in 0..m |-> IF n = 0 THEN h ELSE DestroyRound(f[n - 1], me, c[n], held)]
  <2>1. \E g : g = [n \in 0..m |-> IF n = 0 THEN h ELSE DestroyRound(g[n - 1], me, c[n], held)]
    BY <1>1 DEF DestroyRun
  <2> QED BY <1>2, <2>1
<1> QED BY <1>3

-----------------------------------------------------------------------------
(* revoke_cap of a zombie.                                                 *)

(* The slots behind the first one of c, from the k-th back.                *)
LEMMA BackwardFrom ==
  ASSUME NEW c \in Seq(Slots), NEW k \in 1..Len(c), NEW d, d = Reverse(SubSeq(c, 2, k))
  PROVE  Len(d) = k - 1 /\ \A n \in 1..(k - 1) : d[n] = c[k + 1 - n]
<1>1. PICK e : e = SubSeq(c, 2, k)
  OBVIOUS
<1>2. Len(c) \in Nat /\ k \in Nat
  OBVIOUS
<1>3. 2 \in 1..(Len(c) + 1) /\ k \in (2 - 1)..Len(c)
  BY <1>2
<1>4. /\ e \in Seq(Slots) /\ Len(e) = (IF 2 <= k THEN k - 2 + 1 ELSE 0)
      /\ \A i \in 1..(k - 2 + 1) : e[i] = c[2 + i - 1]
  BY <1>1, <1>3, SubSeqProperties
<1>5. Len(e) = k - 1 /\ \A i \in 1..(k - 1) : e[i] = c[i + 1]
  <2>1. \A i \in 1..(k - 1) : i \in 1..(k - 2 + 1) /\ 2 + i - 1 = i + 1
    BY <1>2
  <2>2. (IF 2 <= k THEN k - 2 + 1 ELSE 0) = k - 1
    BY <1>2
  <2> QED BY <1>4, <2>1, <2>2
<1>6. d = [i \in 1..(k - 1) |-> e[(k - 1 - i) + 1]]
  BY <1>1, <1>5 DEF Reverse
<1>7. k - 1 \in Nat
  BY <1>2
<1>8. Len(d) = k - 1
  BY <1>6, <1>7
<1>9. ASSUME NEW n \in 1..(k - 1) PROVE d[n] = c[k + 1 - n]
  <2>1. (k - 1 - n) + 1 \in 1..(k - 1) /\ (k - 1 - n) + 1 + 1 = k + 1 - n
    BY <1>2
  <2>2. d[n] = e[(k - 1 - n) + 1]
    BY <1>6
  <2>3. e[(k - 1 - n) + 1] = c[(k - 1 - n) + 1 + 1]
    BY <1>5, <2>1
  <2> QED BY <2>1, <2>2, <2>3
<1> QED BY <1>8, <1>9

(* The slots from the k-th of c back to the one behind the r-th are freed, *)
(* and the links elsewhere are those of y.                                 *)
TakenBack(x, y, c, r, k) ==
  /\ SameTasks(x, y)
  /\ \A u \in Slots : x.cap[u] = IF \E j \in (r + 1)..k : u = c[j] THEN NullCap ELSE y.cap[u]
  /\ \A u \in Slots : ~IsEmpty(x.cap[u]) /\ u # c[r] => x.next[u] = y.next[u]

LEMMA TakeBackStep ==
  ASSUME NEW y, NEW s, NEW c, IsChain(y.next, s, c), \A i \in 1..Len(c) : ~IsEmpty(y.cap[c[i]]),
         NEW k \in 1..Len(c), NEW r \in 2..k,
         NEW x, NEW K, Sound(x, K), TakenBack(x, y, c, r, k),
         NEW z, z = Free(EraseThis(x, c[r]), c[r])
  PROVE  Sound(z, K) /\ TakenBack(z, y, c, r - 1, k)
<1>1. PICK m \in Nat : m = Len(c)
  BY DEF IsChain
<1>2. r \in 1..m /\ r - 1 \in 1..m /\ r - 1 \in 1..(m - 1) /\ r - 1 + 1 = r /\ r # r - 1
      /\ k \in Nat /\ r \in Nat /\ k <= m
  BY <1>1
<1>3. /\ c[r] \in Slots /\ c[r - 1] \in Slots /\ c[r] # c[r - 1]
      /\ y.next[c[r - 1]] = c[r]
      /\ \A j \in (r + 1)..k : c[r] # c[j] /\ c[r - 1] # c[j]
  <2>1. \A j \in (r + 1)..k : j \in 1..m /\ j # r /\ j # r - 1
    BY <1>2
  <2> QED BY <1>1, <1>2, <2>1 DEF IsChain
<1>4. ~IsEmpty(x.cap[c[r]]) /\ ~IsEmpty(x.cap[c[r - 1]])
  BY <1>1, <1>2, <1>3 DEF TakenBack
<1>5. x.prev[c[r]] = c[r - 1]
  <2>1. x.next[c[r - 1]] = c[r]
    BY <1>3, <1>4 DEF TakenBack
  <2> QED BY <1>3, <2>1, NilApart DEF Sound, Inverses
<1>6. Sound(z, K) /\ Without(z, x, c[r])
  BY <1>3, <1>4, ErasedFreeSound
<1>7. SameTasks(z, y)
  BY <1>6 DEF Without, TakenBack, SameTasks
<1>8. x \in HeapType
  BY DEF Sound
<1>9. \A u \in Slots : z.cap[u] = IF u = c[r] THEN NullCap ELSE x.cap[u]
  BY <1>3, <1>6, <1>8 DEF Without, HeapType
<1>10. \A j : j \in (r - 1 + 1)..k <=> j = r \/ j \in (r + 1)..k
  BY <1>2
<1>11. ASSUME NEW u \in Slots
       PROVE  z.cap[u] = IF \E j \in (r - 1 + 1)..k : u = c[j] THEN NullCap ELSE y.cap[u]
  <2>1. x.cap[u] = IF \E j \in (r + 1)..k : u = c[j] THEN NullCap ELSE y.cap[u]
    BY DEF TakenBack
  <2> QED BY <1>9, <1>10, <2>1
<1>12. ASSUME NEW u \in Slots, ~IsEmpty(z.cap[u]), u # c[r - 1]
       PROVE  z.next[u] = y.next[u]
  <2>1. u # c[r] /\ ~IsEmpty(x.cap[u])
    BY <1>9, <1>12, NullCapType
  <2>2. z.next[u] = x.next[u]
    BY <1>5, <1>6, <1>12, <2>1 DEF Without
  <2> QED BY <2>1, <2>2 DEF TakenBack
<1> QED BY <1>6, <1>7, <1>11, <1>12 DEF TakenBack

LEMMA TakeBackLoop ==
  ASSUME NEW y, NEW K, Sound(y, K), NEW s,
         NEW c, IsChain(y.next, s, c), \A i \in 1..Len(c) : ~IsEmpty(y.cap[c[i]]),
         NEW k \in 1..Len(c), NEW d, d = Reverse(SubSeq(c, 2, k)),
         NEW x, x = FreeSlots(y, d)[Len(d)]
  PROVE  Sound(x, K) /\ TakenBack(x, y, c, 1, k)
<1>1. c \in Seq(Slots) /\ Len(c) \in Nat
  BY DEF IsChain
<1>2. Len(d) = k - 1 /\ \A n \in 1..(k - 1) : d[n] = c[k + 1 - n]
  BY <1>1, BackwardFrom
<1>3. k \in Nat /\ k - 1 \in Nat
  BY <1>1
<1>4. PICK f : f = FreeSlots(y, d)
  OBVIOUS
<1>5. PICK m \in Nat : m = k - 1
  BY <1>3
<1>6. f[0] = y /\ \A n \in 1..m : f[n] = Free(EraseThis(f[n - 1], d[n]), d[n])
  BY <1>2, <1>4, <1>5, FreeRounds
<1> DEFINE Good(n) == Sound(f[n], K) /\ TakenBack(f[n], y, c, k - n, k)
           bad == {n \in 0..m : ~Good(n)}
<1>7. bad = {}
  <2> SUFFICES ASSUME bad # {} PROVE FALSE
    OBVIOUS
  <2>1. bad \in SUBSET Nat
    OBVIOUS
  <2>2. PICK n \in bad : \A j \in bad : n <= j
    BY <2>1, LeastOf
  <2>3. n \in 0..m /\ ~Good(n)
    BY <2>2
  <2>4. CASE n = 0
    <3>1. k - 0 = k /\ \A j : j \notin (k + 1)..k
      BY <1>3
    <3>2. TakenBack(y, y, c, k, k)
      BY <3>1 DEF TakenBack, SameTasks
    <3> QED BY <1>6, <2>3, <2>4, <3>1, <3>2
  <2>5. CASE n # 0
    <3>1. n - 1 \in 0..m /\ n - 1 \notin bad /\ n \in 1..m
      <4>1. n \in 1..m /\ n - 1 \in 0..m /\ ~(n <= n - 1)
        BY <2>3, <2>5
      <4> HIDE DEF bad
      <4> QED BY <2>2, <4>1
    <3>2. Good(n - 1)
      BY <3>1
    <3>3. PICK r \in 2..k : r = k + 1 - n /\ r = k - (n - 1) /\ r - 1 = k - n
      BY <1>3, <1>5, <3>1
    <3>4. f[n] = Free(EraseThis(f[n - 1], c[r]), c[r])
      BY <1>2, <1>5, <1>6, <3>1, <3>3
    <3>5. Sound(f[n - 1], K) /\ TakenBack(f[n - 1], y, c, r, k)
      BY <3>2, <3>3
    <3>6. Sound(f[n], K) /\ TakenBack(f[n], y, c, r - 1, k)
      BY <3>4, <3>5, TakeBackStep
    <3> QED BY <2>3, <3>3, <3>6
  <2> QED BY <2>4, <2>5
<1>8. Good(m)
  BY <1>7
<1>9. k - m = 1
  BY <1>3, <1>5
<1> QED BY <1>2, <1>4, <1>5, <1>8, <1>9

LEMMA RevokeZombieWhole ==
  ASSUME NEW h, NEW K, Whole(h, K), NEW s \in Slots, IsZombie(h.cap[s]),
         NEW x, x = RevokeZombie(h, s)
  PROVE  /\ Whole(x, K) /\ SameTasks(x, h)
         /\ x.cap[s] = h.cap[Resolve(h, s)] /\ ~IsEmpty(x.cap[s]) /\ ~IsZombie(x.cap[s])
<1>1. PICK y : y = Lock(h, OwnerOf(h, s))
  OBVIOUS
<1>2. /\ Whole(y, K) /\ SameTasks(y, h)
      /\ y.cap = h.cap /\ y.next = h.next /\ y.prev = h.prev /\ y.free = h.free
  BY <1>1, LockWhole
<1>3. PICK c : c = Chain(h, s)
  OBVIOUS
<1>4. ~IsEmpty(h.cap[s])
  BY DEF IsZombie, IsEmpty
<1>5. IsChain(h.next, s, c) /\ \A i \in 1..Len(c) : ~IsEmpty(h.cap[c[i]])
  BY <1>3, <1>4, ChainHolds DEF Whole
<1>6. PICK k \in 1..Len(c) : StandsFor(h, c, k) /\ Resolve(h, s) = c[k]
  BY <1>3, ResolveExists
<1>7. c[k] \in Slots /\ c[k] # Nil /\ c[1] = s /\ \A i \in 1..Len(c) : c[i] = c[k] => i = k
  BY <1>5, NilApart DEF IsChain
<1>8. (CHOOSE i \in 1..Len(c) : c[i] = Resolve(h, s)) = k
  BY <1>6, <1>7
<1>9. PICK d : d = Reverse(SubSeq(c, 2, k))
  OBVIOUS
<1>10. PICK z : z = FreeSlots(y, d)[Len(d)]
  OBVIOUS
<1>11. Sound(z, K) /\ TakenBack(z, y, c, 1, k)
  <2>1. Sound(y, K) /\ IsChain(y.next, s, c) /\ \A i \in 1..Len(c) : ~IsEmpty(y.cap[c[i]])
    BY <1>2, <1>5 DEF Whole
  <2> QED BY <1>9, <1>10, <2>1, TakeBackLoop
<1>12. x = [z EXCEPT !.cap[s] = h.cap[c[k]]]
  BY <1>1, <1>3, <1>6, <1>7, <1>8, <1>9, <1>10 DEF RevokeZombie
<1>13. z.cap[s] = h.cap[s]
  <2>1. \A j \in 2..k : j \in 1..Len(c) /\ j # 1 /\ 1 \in 1..Len(c)
    BY <1>5 DEF IsChain
  <2>2. \A j \in 2..k : c[j] # s
    BY <1>5, <1>7, <2>1 DEF IsChain
  <2> QED BY <1>2, <1>11, <2>2 DEF TakenBack
<1>14. Valid(h.cap[c[k]]) /\ ~IsZombie(h.cap[c[k]])
  BY <1>5, <1>6, <1>7, HeldValid DEF Whole, StandsFor
<1>15. /\ Sound(x, K)
       /\ Updated(x, z, [z.cap EXCEPT ![s] = h.cap[c[k]]], z.next, z.prev, z.free, z.count)
  BY <1>4, <1>11, <1>12, <1>13, <1>14, ChangeSound
<1>16. \A u \in Slots : x.cap[u] = IF u = s THEN h.cap[c[k]] ELSE z.cap[u]
  BY <1>11, <1>15 DEF Updated, Sound, HeapType
<1>17. ASSUME NEW u \in Slots, IsZombie(x.cap[u]) PROVE x.next[u] # Nil
  <2>1. u # s /\ x.cap[u] = z.cap[u]
    BY <1>14, <1>16, <1>17
  <2>2. z.cap[u] = y.cap[u] /\ ~IsEmpty(z.cap[u])
    BY <1>11, <1>17, <2>1, NullCapType DEF TakenBack, IsZombie, IsEmpty
  <2>3. z.next[u] = y.next[u]
    BY <1>7, <1>11, <2>1, <2>2 DEF TakenBack
  <2> QED BY <1>2, <1>15, <1>17, <2>1, <2>2, <2>3 DEF Updated, Whole, ZombiesLead
<1>18. SameTasks(x, h)
  BY <1>2, <1>11, <1>15 DEF TakenBack, Updated, SameTasks
<1>19. x.cap[s] = h.cap[Resolve(h, s)] /\ ~IsEmpty(x.cap[s]) /\ ~IsZombie(x.cap[s])
  BY <1>6, <1>14, <1>16 DEF Valid
<1> QED BY <1>15, <1>17, <1>18, <1>19 DEF Whole, ZombiesLead

-----------------------------------------------------------------------------
(* destroy_object, destroy_cap_slot                                        *)

SameSlots(x, h) ==
  /\ x.cap = h.cap /\ x.next = h.next /\ x.prev = h.prev /\ x.free = h.free
  /\ x.count = h.count /\ x.owner = h.owner /\ x.spaces = h.spaces

(* The tasks of x own what they own in h.                                  *)
SameSpaces(x, h) ==
  /\ x.owner = h.owner /\ x.spaces = h.spaces
  /\ \A t \in Tasks : x.state[t] = "unused" => h.state[t] = "unused"

LEMMA WholeSame ==
  ASSUME NEW h, NEW K, Whole(h, K), NEW x \in HeapType, x.halt \notin Failures, SameSlots(x, h)
  PROVE  Whole(x, K)
<1>1. Sound(x, K)
  BY SoundSame DEF Whole, SameSlots
<1> QED BY <1>1 DEF Whole, ZombiesLead, SameSlots

(* kill_task                                                               *)
LEMMA KillWhole ==
  ASSUME NEW h, NEW K, Whole(h, K), NEW me, NEW v \in Tasks, NEW held \in SUBSET Tasks,
         NEW x, x = KillTask(h, me, v, held)
  PROVE  Whole(x, K) /\ SameSlots(x, h) /\ SameSpaces(x, h)
<1>1. PICK l : l = Lock(h, v)
  OBVIOUS
<1>2. Sound(l, K) /\ Updated(l, h, h.cap, h.next, h.prev, h.free, h.count)
  BY <1>1, LockSound DEF Whole
<1>3. PICK k : k = [l EXCEPT !.state[v] = "killed"]
  OBVIOUS
<1>4. l \in HeapType /\ l.halt \notin Failures
  BY <1>2 DEF Sound
<1>5. k \in HeapType /\ k.halt = l.halt /\ SameSlots(k, l) /\ k.state = [l.state EXCEPT ![v] = "killed"]
      /\ k.stuck = l.stuck
  <2> DEFINE st == [l.state EXCEPT ![v] = "killed"]
  <2>1. k = [l EXCEPT !.state = st] /\ st \in [Tasks -> {"unused", "suspended", "active", "killed"}]
    BY <1>3, <1>4 DEF HeapType
  <2> HIDE DEF st
  <2>2. k \in HeapType /\ k.halt = l.halt /\ SameSlots(k, l) /\ k.state = st /\ k.stuck = l.stuck
    BY <1>4, <2>1 DEF HeapType, SameSlots
  <2> QED BY <2>2 DEF st
<1>6. PICK a : a = Require(k, v # Root, "kill_task: root killed")
  OBVIOUS
<1>7. PICK why \in Halts \ Failures : why = "kill_task: root killed"
  BY DEF Halts, Failures
<1>8. a = k \/ a = [k EXCEPT !.halt = why]
  BY <1>6, <1>7 DEF Require
<1>9. a \in HeapType /\ a.halt \notin Failures /\ SameSlots(a, k) /\ a.state = k.state /\ a.stuck = k.stuck
  <2>1. CASE a = k
    BY <1>4, <1>5, <2>1 DEF SameSlots
  <2>2. CASE a = [k EXCEPT !.halt = why]
    BY <1>5, <2>2 DEF HeapType, SameSlots
  <2> QED BY <1>8, <2>1, <2>2
<1>10. PICK b : b = a.stuck \cup held \cup {v}
  OBVIOUS
<1>11. b \in SUBSET Tasks
  BY <1>9, <1>10 DEF HeapType
<1>12. x = a \/ x = [a EXCEPT !.stuck = b, !.halt = SelfKill]
  BY <1>1, <1>3, <1>6, <1>10 DEF KillTask
<1>13. x \in HeapType /\ x.halt \notin Failures /\ SameSlots(x, a) /\ x.state = a.state
  <2>1. CASE x = a
    BY <1>9, <2>1 DEF SameSlots
  <2>2. CASE x = [a EXCEPT !.stuck = b, !.halt = SelfKill]
    <3>1. SelfKill \in Halts \ Failures
      BY FaultsApart DEF Halts
    <3> QED BY <1>9, <1>11, <2>2, <3>1 DEF HeapType, SameSlots
  <2> QED BY <1>12, <2>1, <2>2
<1>14. SameSlots(x, h)
  BY <1>2, <1>5, <1>9, <1>13 DEF SameSlots, Updated, SameTasks
<1>15. SameSpaces(x, h)
  <2>1. x.state = [h.state EXCEPT ![v] = "killed"] /\ h \in HeapType
    BY <1>2, <1>5, <1>9, <1>13 DEF Updated, SameTasks, Whole, Sound
  <2> QED BY <1>14, <2>1 DEF SameSlots, SameSpaces, HeapType
<1> QED BY <1>13, <1>14, <1>15, WholeSame

(* The objects of capabilities; nothing but a capability that still has    *)
(* copies behind it, or that is none, is refused by an assertion.          *)
LEMMA DestroyObjectWhole ==
  ASSUME NEW h, NEW K, Whole(h, K), NEW me, NEW s \in Slots, NEW held \in SUBSET Tasks,
         ~IsEmpty(h.cap[s]), ~IsZombie(h.cap[s]),
         IsTail(h, s) \/ ~IsSameObject(h, s, h.next[s]),
         NEW x, x = DestroyObject(h, me, s, held)
  PROVE  Whole(x, K) /\ SameSlots(x, h) /\ SameSpaces(x, h)
<1>1. PICK c : c = h.cap[s]
  OBVIOUS
<1>2. Require(h, IsTail(h, s) \/ ~IsSameObject(h, s, h.next[s]), "destroy_object: copies left") = h
  BY DEF Require
<1>3. h \in HeapType /\ h.halt \notin Failures /\ Valid(c)
  BY <1>1, HeldValid DEF Whole, Sound
<1>4. c.type \in {"mem", "task", "endpoint", "page_table", "cap_space", "id"} /\ c.base \in Nat
  BY <1>1, <1>3 DEF Valid, CapSet, CapType, IsEmpty, IsZombie
<1>5. ASSUME NEW why \in Halts \ Failures, x = h \/ x = [h EXCEPT !.halt = why]
      PROVE  Whole(x, K) /\ SameSlots(x, h) /\ SameSpaces(x, h)
  <2>1. /\ Whole(x, K) /\ SameTasks(x, h)
        /\ x.cap = h.cap /\ x.next = h.next /\ x.prev = h.prev /\ x.free = h.free
    BY <1>5, HaltWhole
  <2>2. x.count = h.count
    BY <1>3, <1>5 DEF HeapType
  <2> QED BY <2>1, <2>2 DEF SameSlots, SameSpaces, SameTasks
<1>6. CASE c.type = "mem"
  <2>1. x = Require(h, IsTail(h, s), "destroy_memory_object: tail")
    BY <1>1, <1>6 DEF DestroyObject
  <2>2. PICK why \in Halts \ Failures : why = "destroy_memory_object: tail"
    BY DEF Halts, Failures
  <2>3. x = h \/ x = [h EXCEPT !.halt = why]
    BY <2>1, <2>2 DEF Require
  <2> QED BY <1>5, <2>3
<1>7. CASE c.type = "task"
  <2>1. x = KillTask(h, me, c.obj, held)
    BY <1>1, <1>2, <1>7 DEF DestroyObject
  <2>2. PICK v \in Tasks : v = c.obj
    BY <1>3, <1>7 DEF Valid
  <2> QED BY <2>1, <2>2, KillWhole
<1>8. CASE c.type = "endpoint"
  <2>1. x = [h EXCEPT !.canceled = @ \cup {c.base}]
    BY <1>1, <1>2, <1>8 DEF DestroyObject
  <2>2. PICK e \in SUBSET Nat : e = h.canceled \cup {c.base}
    BY <1>3, <1>4 DEF HeapType
  <2>3. x = [h EXCEPT !.canceled = e]
    BY <2>1, <2>2
  <2>4. x \in HeapType /\ x.halt = h.halt /\ SameSlots(x, h) /\ x.state = h.state
    BY <1>3, <2>3 DEF HeapType, SameSlots
  <2> QED BY <1>3, <2>4, WholeSame DEF SameSpaces, SameSlots
<1>9. CASE c.type = "page_table"
  <2>1. x = Require(h, ~c.flag, "destroy_page_table_object: pte")
    BY <1>1, <1>2, <1>9 DEF DestroyObject
  <2>2. PICK why \in Halts \ Failures : why = "destroy_page_table_object: pte"
    BY DEF Halts, Failures
  <2>3. x = h \/ x = [h EXCEPT !.halt = why]
    BY <2>1, <2>2 DEF Require
  <2> QED BY <1>5, <2>3
<1>10. CASE c.type \in {"cap_space", "id"}
  <2>1. x = h
    BY <1>1, <1>2, <1>10 DEF DestroyObject
  <2> QED BY <2>1 DEF SameSlots, SameSpaces
<1> QED BY <1>4, <1>6, <1>7, <1>8, <1>9, <1>10

(* What destroy_cap_slot leaves of the slots other than s.                 *)
SlotGone(x, h, s) ==
  \A u \in Slots \ {s} :
    /\ ~IsEmpty(h.cap[u]) =>
         ~IsEmpty(x.cap[u]) /\ x.next[u] = IF u = h.prev[s] THEN Nil ELSE h.next[u]
    /\ ~IsZombie(h.cap[u]) => x.cap[u] = h.cap[u]

LEMMA WithoutGone ==
  ASSUME NEW h \in HeapType, NEW s \in Slots, h.next[s] = Nil, NEW x, Without(x, h, s)
  PROVE  SlotGone(x, h, s)
BY DEF Without, SlotGone, HeapType

LEMMA DestroyCapSlotWhole ==
  ASSUME NEW h, NEW K, Whole(h, K), NEW me, NEW s \in Slots, NEW held \in SUBSET Tasks,
         ~IsEmpty(h.cap[s]), h.next[s] = Nil,
         NEW x, x = DestroyCapSlot(h, me, s, held)
  PROVE  Whole(x, K) /\ SameSpaces(x, h) /\ (x.halt = NoFault => SlotGone(x, h, s))
<1>1. PICK t : t = OwnerOf(h, s)
  OBVIOUS
<1>2. t \in Tasks /\ h \in HeapType /\ Valid(h.cap[s]) /\ ~IsZombie(h.cap[s])
  BY <1>1, OwnedSlot, HeldValid DEF Whole, Sound, ZombiesLead
<1>3. PICK y : y = Lock(h, t)
  OBVIOUS
<1>4. /\ Whole(y, K) /\ SameTasks(y, h)
      /\ y.cap = h.cap /\ y.next = h.next /\ y.prev = h.prev /\ y.free = h.free
  BY <1>3, LockWhole
<1>5. Lock(Require(h, IsTail(h, s), "destroy_cap_slot: tail"), t) = y
  <2>1. Require(h, IsTail(h, s), "destroy_cap_slot: tail") = h
    BY DEF Require, IsTail
  <2> QED BY <1>3, <2>1
<1>6. PICK p : p = h.prev[s]
  OBVIOUS
<1>7. p \in Slots \cup {Nil} /\ (p # Nil => h.next[p] = s /\ p # s /\ CapAt(h, p) = h.cap[p])
  <2>1. h.prev \in LinkFns /\ Inverses(h.next, h.prev)
    BY HeapLinks DEF Whole, Sound
  <2> QED BY <1>6, <2>1, NilApart DEF LinkFns, Inverses, CapAt
<1>8. p # Nil => ~IsEmpty(h.cap[p])
  BY <1>7, NilApart DEF Whole, Sound, Unmixed
<1>9. CASE p # Nil /\ IsZombie(CapAt(h, p))
  <2>1. PICK z : z = [y EXCEPT !.cap[p] = h.cap[s]]
    OBVIOUS
  <2>2. x = Free(EraseThis(z, s), s)
    BY <1>1, <1>5, <1>6, <1>9, <2>1 DEF DestroyCapSlot
  <2>3. /\ Sound(z, K)
        /\ Updated(z, y, [y.cap EXCEPT ![p] = h.cap[s]], y.next, y.prev, y.free, y.count)
    BY <1>2, <1>4, <1>7, <1>8, <1>9, <2>1, ChangeSound DEF Whole
  <2>4. /\ \A u \in Slots : z.cap[u] = IF u = p THEN h.cap[s] ELSE h.cap[u]
        /\ z.next = h.next /\ z.prev = h.prev /\ SameTasks(z, h) /\ z \in HeapType
    BY <1>2, <1>4, <2>3 DEF Updated, SameTasks, HeapType
  <2>5. Whole(z, K) /\ ~IsEmpty(z.cap[s]) /\ ~IsZombie(z.cap[p])
    BY <1>2, <1>7, <1>9, <2>3, <2>4 DEF Whole, ZombiesLead
  <2>6. z.prev[s] = p
    BY <1>6, <2>4
  <2>7. Whole(x, K) /\ Without(x, z, s)
    BY <2>2, <2>5, <2>6, FreedWhole
  <2>8. SlotGone(x, z, s)
    BY <2>4, <2>7, WithoutGone
  <2>9. SlotGone(x, h, s)
    BY <1>2, <1>7, <1>9, <2>4, <2>8 DEF SlotGone, Valid
  <2> QED BY <2>4, <2>7, <2>9 DEF Without, SameTasks, SameSpaces
<1>10. CASE p # Nil /\ ~IsZombie(CapAt(h, p)) /\ IsSameObject(h, p, s)
  <2>1. x = Free(EraseThis(y, s), s)
    BY <1>1, <1>5, <1>6, <1>10 DEF DestroyCapSlot
  <2>2. Whole(x, K) /\ Without(x, y, s)
    BY <1>4, <1>6, <1>7, <1>10, <2>1, FreedWhole
  <2>3. Without(x, h, s)
    BY <1>4, <2>2 DEF Without, SameTasks
  <2> QED BY <1>2, <2>2, <2>3, WithoutGone DEF Without, SameTasks, SameSpaces
<1>11. CASE p = Nil \/ (~IsZombie(CapAt(h, p)) /\ ~IsSameObject(h, p, s))
  <2>1. PICK g \in SUBSET Tasks : g = held \cup {t}
    BY <1>2
  <2>2. PICK z : z = DestroyObject(y, me, s, g)
    OBVIOUS
  <2>3. x = IF z.halt = NoFault THEN Free(EraseThis(z, s), s) ELSE z
    BY <1>1, <1>5, <1>6, <1>11, <2>1, <2>2 DEF DestroyCapSlot, Then
  <2>4. Whole(z, K) /\ SameSlots(z, y) /\ SameSpaces(z, y)
    <3>1. ~IsEmpty(y.cap[s]) /\ ~IsZombie(y.cap[s]) /\ IsTail(y, s)
      BY <1>2, <1>4 DEF IsTail
    <3> QED BY <1>4, <2>2, <3>1, DestroyObjectWhole
  <2>5. SameSpaces(z, h)
    BY <1>4, <2>4 DEF SameSpaces, SameTasks
  <2>6. CASE z.halt # NoFault
    BY <2>3, <2>4, <2>5, <2>6
  <2>7. CASE z.halt = NoFault
    <3>1. x = Free(EraseThis(z, s), s)
      BY <2>3, <2>7
    <3>2. z.cap = h.cap /\ z.next = h.next /\ z.prev = h.prev
      BY <1>4, <2>4 DEF SameSlots
    <3>3. h.prev[s] = Nil \/ ~IsZombie(h.cap[h.prev[s]])
      BY <1>6, <1>7, <1>11
    <3>4. Whole(x, K) /\ Without(x, z, s)
      BY <2>4, <3>1, <3>2, <3>3, FreedWhole
    <3>5. z \in HeapType
      BY <2>4 DEF Whole, Sound
    <3>6. SlotGone(x, z, s)
      BY <3>2, <3>4, <3>5, WithoutGone
    <3>7. SlotGone(x, h, s)
      BY <3>2, <3>6 DEF SlotGone
    <3> QED BY <2>5, <3>4, <3>7 DEF Without, SameTasks, SameSpaces
  <2> QED BY <2>6, <2>7
<1> QED BY <1>9, <1>10, <1>11

-----------------------------------------------------------------------------
(* revoke_cap of a memory capability.                                      *)

(* The first r slots of c are a list, and s is as in y.                    *)
CutBehind(x, y, s, c, r) ==
  /\ \A j \in 1..r : ~IsEmpty(x.cap[c[j]])
  /\ \A j \in 1..(r - 1) : x.next[c[j]] = c[j + 1]
  /\ x.next[c[r]] = Nil
  /\ x.cap[s] = y.cap[s]

LEMMA CutStep ==
  ASSUME NEW y, NEW s \in Slots, ~IsZombie(y.cap[s]), NEW c, IsChain(y.next, s, c),
         NEW r \in 2..Len(c), NEW x, NEW K, Whole(x, K), x.halt = NoFault, CutBehind(x, y, s, c, r),
         NEW me, NEW held \in SUBSET Tasks, NEW z, z = DestroyRound(x, me, c[r], held)
  PROVE  /\ Whole(z, K) /\ SameSpaces(z, x)
         /\ z.halt = NoFault => CutBehind(z, y, s, c, r - 1)
<1>1. PICK m \in Nat : m = Len(c)
  BY DEF IsChain
<1>2. /\ r \in 1..m /\ r - 1 \in 1..m /\ r - 1 \in 1..(r - 1) /\ r - 1 + 1 = r /\ r \in 1..r
      /\ 1 \in 1..m /\ r # 1 /\ r - 1 \in 1..r
  BY <1>1
<1>3. /\ c[r] \in Slots /\ c[r - 1] \in Slots /\ c[1] = s /\ s # c[r]
      /\ x.next[c[r - 1]] = c[r] /\ ~IsEmpty(x.cap[c[r]]) /\ x.next[c[r]] = Nil
      /\ \A j \in 1..(r - 1) : c[j] \in Slots /\ c[j] # c[r] /\ ~IsEmpty(x.cap[c[j]])
      /\ \A j, i \in 1..(r - 1) : c[i] = c[j] => i = j
  <2>1. \A j \in 1..(r - 1) : j \in 1..m /\ j # r /\ j \in 1..r
    BY <1>1
  <2> QED BY <1>1, <1>2, <2>1 DEF IsChain, CutBehind
<1>4. x.prev[c[r]] = c[r - 1]
  BY <1>3, NilApart DEF Whole, Sound, Inverses
<1>5. z = DestroyCapSlot(x, me, c[r], held)
  BY DEF DestroyRound
<1>6. Whole(z, K) /\ SameSpaces(z, x) /\ (z.halt = NoFault => SlotGone(z, x, c[r]))
  BY <1>3, <1>5, DestroyCapSlotWhole
<1>7. ASSUME z.halt = NoFault PROVE CutBehind(z, y, s, c, r - 1)
  <2>1. SlotGone(z, x, c[r])
    BY <1>6, <1>7
  <2>2. \A j \in 1..(r - 1) : ~IsEmpty(z.cap[c[j]])
    BY <1>3, <2>1 DEF SlotGone
  <2>3. ASSUME NEW j \in 1..(r - 1 - 1) PROVE z.next[c[j]] = c[j + 1]
    <3>1. j \in 1..(r - 1) /\ j # r - 1
      BY <1>1
    <3>2. c[j] # c[r - 1] /\ x.next[c[j]] = c[j + 1]
      BY <1>2, <1>3, <3>1 DEF CutBehind
    <3> QED BY <1>3, <1>4, <2>1, <3>1, <3>2 DEF SlotGone
  <2>4. z.next[c[r - 1]] = Nil
    BY <1>2, <1>3, <1>4, <2>1 DEF SlotGone
  <2>5. z.cap[s] = y.cap[s]
    BY <1>3, <2>1 DEF SlotGone, CutBehind
  <2> QED BY <2>2, <2>3, <2>4, <2>5 DEF CutBehind
<1> QED BY <1>6, <1>7

LEMMA CutLoop ==
  ASSUME NEW y, NEW K, Whole(y, K), NEW s \in Slots, ~IsZombie(y.cap[s]),
         NEW c, IsChain(y.next, s, c), \A i \in 1..Len(c) : ~IsEmpty(y.cap[c[i]]),
         NEW d, d = Reverse(Tail(c)), NEW me, NEW held \in SUBSET Tasks,
         NEW x, x = DestroySlots(y, me, d, held)[Len(d)]
  PROVE  /\ Whole(x, K) /\ SameSpaces(x, y)
         /\ x.halt = NoFault => x.cap[s] = y.cap[s]
<1>1. c \in Seq(Slots) /\ Len(c) \in Nat /\ Len(c) > 0
  BY DEF IsChain
<1>2. PICK k \in Nat : k = Len(c) /\ k > 0
  BY <1>1
<1>3. Len(d) = k - 1 /\ \A n \in 1..(k - 1) : d[n] = c[k + 1 - n]
  <2>1. Tail(c) = SubSeq(c, 2, k)
    <3>1. c # <<>>
      BY <1>1
    <3> QED BY <1>1, <1>2, <3>1, TailIsSubSeq
  <2>2. k \in 1..Len(c)
    BY <1>2
  <2> QED BY <1>1, <2>1, <2>2, BackwardFrom
<1>4. PICK f : f = DestroySlots(y, me, d, held)
  OBVIOUS
<1>5. PICK m \in Nat : m = k - 1
  BY <1>2
<1>6. f[0] = y /\ \A n \in 1..m : f[n] = DestroyRound(f[n - 1], me, d[n], held)
  BY <1>3, <1>4, <1>5, DestroyRounds
<1> DEFINE Good(n) == /\ Whole(f[n], K) /\ SameSpaces(f[n], y)
                      /\ f[n].halt = NoFault => CutBehind(f[n], y, s, c, k - n)
           bad == {n \in 0..m : ~Good(n)}
<1>7. bad = {}
  <2> SUFFICES ASSUME bad # {} PROVE FALSE
    OBVIOUS
  <2>1. bad \in SUBSET Nat
    OBVIOUS
  <2>2. PICK n \in bad : \A j \in bad : n <= j
    BY <2>1, LeastOf
  <2>3. n \in 0..m /\ ~Good(n)
    BY <2>2
  <2>4. CASE n = 0
    <3>1. k - 0 = k
      BY <1>2
    <3>2. CutBehind(y, y, s, c, k)
      BY <1>2 DEF CutBehind, IsChain
    <3>3. SameSpaces(y, y)
      BY DEF SameSpaces
    <3> QED BY <1>6, <2>3, <2>4, <3>1, <3>2, <3>3
  <2>5. CASE n # 0
    <3>1. n - 1 \in 0..m /\ n - 1 \notin bad /\ n \in 1..m
      <4>1. n \in 1..m /\ n - 1 \in 0..m /\ ~(n <= n - 1)
        BY <2>3, <2>5
      <4> HIDE DEF bad
      <4> QED BY <2>2, <4>1
    <3>2. Good(n - 1)
      BY <3>1
    <3>3. PICK r \in 2..k : r = k + 1 - n /\ r = k - (n - 1) /\ r - 1 = k - n
      <4>1. n \in 1..m
        BY <3>1
      <4>2. k + 1 - n \in 2..k /\ k + 1 - n = k - (n - 1) /\ k + 1 - n - 1 = k - n
        BY ONLY <1>5, <4>1, k \in Nat, m \in Nat
      <4> QED BY ONLY <4>2
    <3>4. f[n] = DestroyRound(f[n - 1], me, c[r], held)
      BY <1>3, <1>5, <1>6, <3>1, <3>3
    <3>5. CASE f[n - 1].halt = NoFault
      <4>1. Whole(f[n - 1], K) /\ CutBehind(f[n - 1], y, s, c, r) /\ SameSpaces(f[n - 1], y)
        BY <3>2, <3>3, <3>5
      <4>2. r \in 2..Len(c)
        BY <1>2
      <4>3. /\ Whole(f[n], K) /\ SameSpaces(f[n], f[n - 1])
            /\ f[n].halt = NoFault => CutBehind(f[n], y, s, c, r - 1)
        BY <3>4, <3>5, <4>1, <4>2, CutStep
      <4>4. SameSpaces(f[n], y)
        BY <4>1, <4>3 DEF SameSpaces
      <4> QED BY <2>3, <3>3, <4>3, <4>4
    <3>6. CASE f[n - 1].halt # NoFault
      <4>1. f[n] = f[n - 1]
        BY <3>4, <3>6 DEF DestroyRound
      <4> QED BY <2>3, <3>2, <3>6, <4>1
    <3> QED BY <3>5, <3>6
  <2> QED BY <2>4, <2>5
<1>8. Good(m)
  BY <1>7
<1> QED BY <1>3, <1>4, <1>5, <1>8 DEF CutBehind

LEMMA RevokeMemoryWhole ==
  ASSUME NEW h, NEW K, Whole(h, K), NEW me, NEW s \in Slots, ~IsEmpty(h.cap[s]),
         ~IsZombie(h.cap[s]), NEW x, x = RevokeMemory(h, me, s)
  PROVE  /\ Whole(x, K) /\ SameSpaces(x, h)
         /\ x.halt = NoFault => x.cap[s] = h.cap[s]
<1>1. PICK t \in Tasks : t = OwnerOf(h, s)
  BY OwnedSlot DEF Whole
<1>2. PICK y : y = Lock(h, t)
  OBVIOUS
<1>3. /\ Whole(y, K) /\ SameTasks(y, h)
      /\ y.cap = h.cap /\ y.next = h.next /\ y.prev = h.prev /\ y.free = h.free
  BY <1>2, LockWhole
<1>4. PICK c : c = Chain(h, s)
  OBVIOUS
<1>5. IsChain(h.next, s, c) /\ \A i \in 1..Len(c) : ~IsEmpty(h.cap[c[i]])
  BY <1>4, ChainHolds DEF Whole
<1>6. PICK d : d = Reverse(Tail(c))
  OBVIOUS
<1>7. PICK held \in SUBSET Tasks : held = {t}
  OBVIOUS
<1>8. x = DestroySlots(y, me, d, held)[Len(d)]
  BY <1>1, <1>2, <1>4, <1>6, <1>7 DEF RevokeMemory
<1>9. /\ ~IsZombie(y.cap[s]) /\ IsChain(y.next, s, c)
      /\ \A i \in 1..Len(c) : ~IsEmpty(y.cap[c[i]])
  BY <1>3, <1>5
<1>10. /\ Whole(x, K) /\ SameSpaces(x, y)
       /\ x.halt = NoFault => x.cap[s] = y.cap[s]
  <2>1. Whole(y, K)
    BY <1>3
  <2>2. d = Reverse(Tail(c)) /\ x = DestroySlots(y, me, d, held)[Len(d)]
    BY <1>6, <1>8
  <2> QED BY <1>9, <2>1, <2>2, CutLoop
<1> QED BY <1>3, <1>10 DEF SameSpaces, SameTasks

(* revoke_cap                                                              *)
LEMMA RevokeWhole ==
  ASSUME NEW h, NEW K, Whole(h, K), NEW me, NEW s \in Slots, ~IsEmpty(h.cap[s]),
         NEW x, x = Revoke(h, me, s)
  PROVE  /\ Whole(x, K) /\ SameSpaces(x, h)
         /\ x.halt = NoFault => ~IsEmpty(x.cap[s]) /\ ~IsZombie(x.cap[s])
<1>1. CASE IsZombie(h.cap[s])
  <2>1. x = RevokeZombie(h, s)
    BY <1>1 DEF Revoke
  <2>2. Whole(x, K) /\ SameTasks(x, h) /\ ~IsEmpty(x.cap[s]) /\ ~IsZombie(x.cap[s])
    BY <1>1, <2>1, RevokeZombieWhole
  <2> QED BY <2>2 DEF SameTasks, SameSpaces
<1>2. CASE ~IsZombie(h.cap[s])
  <2>1. x = RevokeMemory(h, me, s)
    BY <1>2 DEF Revoke
  <2> QED BY <1>2, <2>1, RevokeMemoryWhole
<1> QED BY <1>1, <1>2

-----------------------------------------------------------------------------
(* destroy_cap                                                             *)

LEMMA DestroyRevokedWhole ==
  ASSUME NEW h, NEW K, Whole(h, K), NEW me, NEW s \in Slots, ~IsEmpty(h.cap[s]),
         ~IsZombie(h.cap[s]), NEW x, x = DestroyRevoked(h, me, s)
  PROVE  Whole(x, K) /\ SameSpaces(x, h)
<1>1. PICK p : p = h.prev[s]
  OBVIOUS
<1>2. PICK n : n = h.next[s]
  OBVIOUS
<1> DEFINE same(u) == u # Nil /\ IsSameObject(h, u, s)
<1>3. h.next \in LinkFns /\ h.prev \in LinkFns /\ Inverses(h.next, h.prev) /\ Acyclic(h.next)
  BY HeapLinks DEF Whole, Sound
<1>4. p # Nil => p \in Slots /\ h.next[p] = s /\ CapAt(h, p) = h.cap[p]
  BY <1>1, <1>3 DEF LinkFns, Inverses, CapAt
<1>5. IsZombie(CapAt(h, p)) => p # Nil
  BY NullCapType DEF CapAt
<1>6. IsZombie(CapAt(h, p)) => same(p)
  <2> SUFFICES ASSUME IsZombie(CapAt(h, p)) PROVE same(p)
    OBVIOUS
  <2>1. p \in Slots /\ h.next[p] = s /\ IsZombie(h.cap[p]) /\ p # Nil
    BY <1>4, <1>5
  <2>2. Resolve(h, s) = s
    BY <1>3, ResolveSelf
  <2>3. Resolve(h, p) = s
    BY <1>3, <2>1, ResolveNext, NilApart
  <2> QED BY <2>1, <2>2, <2>3 DEF IsSameObject
<1>7. CASE ~same(p) /\ ~same(n)
  <2>1. PICK held \in SUBSET Tasks : held = {}
    OBVIOUS
  <2>2. PICK z : z = DestroyObject(h, me, s, held)
    OBVIOUS
  <2>3. x = IF z.halt = NoFault THEN Free(z, s) ELSE z
    BY <1>1, <1>2, <1>7, <2>1, <2>2 DEF DestroyRevoked, Then
  <2>4. IsTail(h, s) \/ ~IsSameObject(h, s, h.next[s])
    BY <1>2, <1>7, SameObjectSymmetric DEF IsTail
  <2>5. Whole(z, K) /\ SameSlots(z, h) /\ SameSpaces(z, h)
    BY <2>2, <2>4, DestroyObjectWhole
  <2>6. CASE z.halt # NoFault
    BY <2>3, <2>5, <2>6
  <2>7. CASE z.halt = NoFault
    <3>1. x = Free(z, s) /\ ~IsEmpty(z.cap[s])
      BY <2>3, <2>5, <2>7 DEF SameSlots
    <3>2. z.prev[s] = Nil \/ ~IsZombie(z.cap[z.prev[s]])
      BY <1>1, <1>4, <1>6, <1>7, <2>5 DEF SameSlots
    <3>3. Whole(x, K) /\ Without(x, z, s)
      BY <2>5, <3>1, <3>2, FreedWhole
    <3> QED BY <2>5, <3>3 DEF Without, SameTasks, SameSpaces
  <2> QED BY <2>6, <2>7
<1>8. CASE (same(p) \/ same(n)) /\ IsZombie(CapAt(h, p))
  <2>1. Require(h, same(p), "destroy_cap: same object") = h
    BY <1>6, <1>8 DEF Require
  <2>2. x = IF h.halt = NoFault THEN RevokeZombie(h, p) ELSE h
    BY <1>1, <1>2, <1>8, <2>1 DEF DestroyRevoked, Then
  <2>3. p \in Slots /\ IsZombie(h.cap[p])
    BY <1>4, <1>5, <1>8
  <2>4. PICK z : z = RevokeZombie(h, p)
    OBVIOUS
  <2>5. Whole(z, K) /\ SameTasks(z, h)
    BY <2>3, <2>4, RevokeZombieWhole
  <2> QED BY <2>2, <2>4, <2>5 DEF SameTasks, SameSpaces
<1>9. CASE (same(p) \/ same(n)) /\ ~IsZombie(CapAt(h, p))
  <2>1. x = Free(EraseThis(h, s), s)
    BY <1>1, <1>2, <1>9 DEF DestroyRevoked
  <2>2. h.prev[s] = Nil \/ ~IsZombie(h.cap[h.prev[s]])
    BY <1>1, <1>4, <1>9
  <2>3. Whole(x, K) /\ Without(x, h, s)
    BY <2>1, <2>2, FreedWhole
  <2> QED BY <2>3 DEF Without, SameTasks, SameSpaces
<1> QED BY <1>7, <1>8, <1>9

LEMMA DestroyWhole ==
  ASSUME NEW h, NEW K, Whole(h, K), NEW me, NEW s \in Slots, ~IsEmpty(h.cap[s]),
         NEW x, x = Destroy(h, me, s)
  PROVE  Whole(x, K) /\ SameSpaces(x, h)
<1>1. PICK y : y = IF h.cap[s].type \in Revocable THEN Revoke(h, me, s) ELSE h
  OBVIOUS
<1>2. x = IF y.halt = NoFault THEN DestroyRevoked(y, me, s) ELSE y
  BY <1>1 DEF Destroy, Then
<1>3. /\ Whole(y, K) /\ SameSpaces(y, h)
      /\ y.halt = NoFault => ~IsEmpty(y.cap[s]) /\ ~IsZombie(y.cap[s])
  <2>1. CASE h.cap[s].type \in Revocable
    BY <1>1, <2>1, RevokeWhole
  <2>2. CASE h.cap[s].type \notin Revocable
    BY <1>1, <2>2 DEF SameSpaces, Revocable, IsZombie
  <2> QED BY <2>1, <2>2
<1>4. CASE y.halt = NoFault
  <2>1. x = DestroyRevoked(y, me, s) /\ ~IsEmpty(y.cap[s]) /\ ~IsZombie(y.cap[s])
    BY <1>2, <1>3, <1>4
  <2>2. Whole(x, K) /\ SameSpaces(x, y)
    BY <1>3, <2>1, DestroyRevokedWhole
  <2> QED BY <1>3, <2>2 DEF SameSpaces
<1>5. CASE y.halt # NoFault
  BY <1>2, <1>3, <1>5
<1> QED BY <1>4, <1>5

-----------------------------------------------------------------------------
(* insert_cap_space, init_task                                             *)

SlotsIn(p, K) == \A s \in Slots : s[1] = p => s \in K

OwnedBy(h, p, t) == [h EXCEPT !.owner[p] = t]
Cleared(h, p) == [h EXCEPT !.cap[<<p, 0>>] = NullCap, !.prev[<<p, 0>>] = Nil, !.next[<<p, 0>>] = Nil]

HandedOver(x, h, p, t) ==
  /\ x.owner = [h.owner EXCEPT ![p] = t]
  /\ x.spaces = h.spaces /\ x.state = h.state /\ x.cap = h.cap

(* A space nobody owns gets an owner; its slots stay in no list.           *)
LEMMA OwnWhole ==
  ASSUME NEW h, NEW K, Whole(h, K), NEW t \in Tasks, NEW p \in Spaces,
         SlotsIn(p, K), NEW x, x = OwnedBy(h, p, t)
  PROVE  Whole(x, K) /\ HandedOver(x, h, p, t)
<1>1. h \in HeapType /\ h.next \in LinkFns /\ h.prev \in LinkFns
  BY HeapLinks DEF Whole, Sound
<1>2. /\ x \in HeapType /\ x.cap = h.cap /\ x.next = h.next /\ x.prev = h.prev /\ x.free = h.free
      /\ x.count = h.count /\ x.halt = h.halt /\ x.spaces = h.spaces /\ x.state = h.state
      /\ x.owner = [h.owner EXCEPT ![p] = t]
  <2> DEFINE o == [h.owner EXCEPT ![p] = t]
  <2>1. x = [h EXCEPT !.owner = o] /\ o \in [Spaces -> Tasks \cup {Nil}]
    BY <1>1 DEF HeapType, OwnedBy
  <2> HIDE DEF o
  <2>2. /\ x \in HeapType /\ x.cap = h.cap /\ x.next = h.next /\ x.prev = h.prev
        /\ x.free = h.free /\ x.count = h.count /\ x.halt = h.halt /\ x.spaces = h.spaces
        /\ x.state = h.state /\ x.owner = o
    BY <1>1, <2>1 DEF HeapType
  <2> QED BY <2>2 DEF o
<1>3. \A s \in Slots \ K : OwnerOf(x, s) = OwnerOf(h, s)
  <2> TAKE s \in Slots \ K
  <2>1. s[1] \in Spaces /\ s[1] # p
    BY DEF Slots, SlotsIn
  <2> QED BY <1>1, <1>2, <2>1 DEF OwnerOf, HeapType
<1>4. \A s \in K : h.next[s] = Nil /\ h.prev[s] = Nil
  BY DEF Whole, Sound, KeptBack, IsUnused, IsIsolated, IsHead, IsTail
<1>5. Unmixed(x)
  <2> SUFFICES ASSUME NEW u \in Slots, h.next[u] # Nil
               PROVE  /\ IsEmpty(h.cap[u]) <=> IsEmpty(h.cap[h.next[u]])
                      /\ IsEmpty(h.cap[u]) => OwnerOf(x, u) = OwnerOf(x, h.next[u])
    BY <1>2 DEF Unmixed
  <2>1. u \notin K /\ h.next[u] \in Slots \ K
    BY <1>1, <1>4, NilApart DEF LinkFns, Whole, Sound, Inverses
  <2> QED BY <1>3, <2>1 DEF Whole, Sound, Unmixed
<1>6. KeptBack(x, K)
  BY <1>2 DEF Whole, Sound, KeptBack, IsUnused, IsIsolated, IsHead, IsTail
<1>7. FreeHeads(x, K)
  <2> SUFFICES ASSUME NEW v \in Tasks, h.free[v] # Nil
               PROVE  /\ h.free[v] \notin K /\ IsEmpty(h.cap[h.free[v]])
                      /\ h.prev[h.free[v]] = Nil /\ OwnerOf(x, h.free[v]) = v
    BY <1>2 DEF FreeHeads, IsHead
  <2>1. /\ h.free[v] \notin K /\ IsEmpty(h.cap[h.free[v]])
        /\ h.prev[h.free[v]] = Nil /\ OwnerOf(h, h.free[v]) = v /\ h.free[v] \in Slots
    BY <1>1 DEF Whole, Sound, FreeHeads, IsHead, HeapType
  <2> QED BY <1>3, <2>1
<1>8. NoOtherHead(x, K)
  BY <1>2, <1>3 DEF Whole, Sound, NoOtherHead, IsHead
<1>9. Counted(x, K)
  <2>1. \A v \in Tasks : EmptySlots(x, v, K) = EmptySlots(h, v, K)
    BY <1>2, <1>3 DEF EmptySlots
  <2> QED BY <1>2, <2>1 DEF Whole, Sound, Counted
<1>10. Sound(x, K)
  BY <1>2, <1>5, <1>6, <1>7, <1>8, <1>9 DEF Whole, Sound, ObjectsNamed
<1> QED BY <1>2, <1>10 DEF Whole, ZombiesLead, HandedOver

(* The capabilities of x and h are the same.                               *)
SameCaps(x, h) ==
  \A u \in Slots : /\ ~IsEmpty(h.cap[u]) => x.cap[u] = h.cap[u]
                   /\ IsEmpty(h.cap[u]) => IsEmpty(x.cap[u])

(* The first slot of a task is cleared, which nothing points to.           *)
LEMMA ClearWhole ==
  ASSUME NEW h, NEW K, Whole(h, K), NEW p, <<p, 0>> \in K, NEW x, x = Cleared(h, p)
  PROVE  Whole(x, K) /\ SameTasks(x, h) /\ SameCaps(x, h)
<1>0. PICK s \in K : s = <<p, 0>>
  OBVIOUS
<1>1. h \in HeapType
  BY DEF Whole, Sound
<1>2. s \in Slots /\ IsEmpty(h.cap[s]) /\ h.next[s] = Nil /\ h.prev[s] = Nil
  BY DEF Whole, Sound, KeptBack, IsUnused, IsIsolated, IsHead, IsTail
<1>3. [h.next EXCEPT ![s] = Nil] = h.next /\ [h.prev EXCEPT ![s] = Nil] = h.prev
  BY <1>1, <1>2 DEF HeapType
<1>4. PICK k : k = [h.cap EXCEPT ![s] = NullCap]
  OBVIOUS
<1>5. k \in [Slots -> CapSet]
  BY <1>1, <1>4, NullCapType DEF HeapType
<1>6. x = [h EXCEPT !.cap = k, !.prev = h.prev, !.next = h.next]
  BY <1>0, <1>3, <1>4 DEF Cleared
<1>7. /\ x \in HeapType /\ x.cap = k /\ x.next = h.next /\ x.prev = h.prev /\ x.free = h.free
      /\ x.count = h.count /\ x.halt = h.halt /\ SameTasks(x, h)
  BY <1>1, <1>5, <1>6 DEF HeapType, SameTasks
<1>8. \A u \in Slots : x.cap[u] = IF u = s THEN NullCap ELSE h.cap[u]
  BY <1>1, <1>4, <1>7 DEF HeapType
<1>9. \A u \in Slots : IsEmpty(x.cap[u]) <=> IsEmpty(h.cap[u])
  BY <1>2, <1>8, NullCapType
<1>10. \A u \in Slots : OwnerOf(x, u) = OwnerOf(h, u)
  BY <1>7 DEF OwnerOf, SameTasks
<1>11. h.next \in LinkFns
  BY <1>1, HeapLinks
<1>12. Unmixed(x)
  BY <1>7, <1>9, <1>10, <1>11 DEF Whole, Sound, Unmixed, LinkFns
<1>13. KeptBack(x, K)
  BY <1>7, <1>9 DEF Whole, Sound, KeptBack, IsUnused, IsIsolated, IsHead, IsTail
<1>14. FreeHeads(x, K)
  <2>1. \A v \in Tasks : h.free[v] \in Slots \cup {Nil}
    BY <1>1 DEF HeapType
  <2> QED BY <1>7, <1>9, <1>10, <2>1 DEF Whole, Sound, FreeHeads, IsHead
<1>15. NoOtherHead(x, K)
  BY <1>7, <1>9, <1>10 DEF Whole, Sound, NoOtherHead, IsHead
<1>16. Counted(x, K)
  <2>1. \A v \in Tasks : EmptySlots(x, v, K) = EmptySlots(h, v, K)
    BY <1>9, <1>10 DEF EmptySlots
  <2> QED BY <1>7, <2>1 DEF Whole, Sound, Counted
<1>17. ObjectsNamed(x)
  BY <1>8 DEF Whole, Sound, ObjectsNamed, NullCap, MakeCap
<1>18. Sound(x, K)
  BY <1>7, <1>12, <1>13, <1>14, <1>15, <1>16, <1>17 DEF Whole, Sound
<1>19. ZombiesLead(x)
  BY <1>7, <1>8, NullCapType DEF Whole, ZombiesLead
<1>20. SameCaps(x, h)
  BY <1>2, <1>8, <1>9 DEF SameCaps
<1> QED BY <1>7, <1>18, <1>19, <1>20 DEF Whole

LEMMA PushNewWhole ==
  ASSUME NEW h, NEW K, Whole(h, K), NEW t \in Tasks, NEW s \in K, OwnerOf(h, s) = t,
         NEW x, x = PushFreeSlots(h, t, s)
  PROVE  Whole(x, K \ {s}) /\ SameTasks(x, h) /\ SameCaps(x, h)
<1>1. s \in Slots /\ IsEmpty(h.cap[s]) /\ h.prev[s] = Nil /\ h \in HeapType
  BY DEF Whole, Sound, KeptBack, IsUnused, IsIsolated, IsHead
<1>2. Sound(x, K \ {s}) /\ Without(x, h, s)
  BY <1>1, PushSound DEF Whole
<1>3. \A u \in Slots : x.cap[u] = IF u = s THEN NullCap ELSE h.cap[u]
  BY <1>1, <1>2 DEF Without, HeapType
<1>4. SameCaps(x, h)
  BY <1>1, <1>3, NullCapType DEF SameCaps
<1>5. ASSUME NEW u \in Slots, IsZombie(x.cap[u]) PROVE x.next[u] # Nil
  <2>1. u # s /\ x.cap[u] = h.cap[u]
    BY <1>3, <1>5, NullCapType
  <2>2. ~IsEmpty(h.cap[u]) /\ IsZombie(h.cap[u])
    BY <1>5, <2>1 DEF IsZombie, IsEmpty
  <2> QED BY <1>1, <1>2, <2>1, <2>2, NilApart DEF Without, Whole, ZombiesLead
<1> QED BY <1>2, <1>4, <1>5 DEF Whole, ZombiesLead, Without

(* While no task keeps its locks, none of this stops the machine.          *)
Idle(h) == h \in HeapType /\ h.stuck = {} /\ h.halt = NoFault
StaysIdle(x, h) == Idle(h) => Idle(x)
IdleAtFirst(x, h, t) == h.spaces[t] = <<>> /\ h.ext[t] = 1 => StaysIdle(x, h)

LEMMA IdleLock ==
  ASSUME NEW h, Idle(h), NEW t
  PROVE  Lock(h, t) = h
BY DEF Idle, Lock, Require

LEMMA IdleErase ==
  ASSUME NEW h, Idle(h), NEW s \in Slots, NEW x, x = EraseThis(h, s)
  PROVE  Idle(x)
<1>1. h \in HeapType
  BY DEF Idle
<1>2. x \in HeapType /\ x.stuck = h.stuck
  BY <1>1, EraseFields DEF Updated, SameTasks
<1>3. x = [h EXCEPT !.next = ErasedNext(h, s), !.prev = ErasedPrev(h, s)]
  BY IdleLock DEF EraseThis, ErasedNext, ErasedPrev
<1>4. x.halt = h.halt
  BY <1>1, <1>3 DEF HeapType
<1> QED BY <1>2, <1>4 DEF Idle

LEMMA IdleInsertBefore ==
  ASSUME NEW h, Idle(h), NEW this \in Slots, NEW s \in Slots, IsIsolated(h, s),
         NEW x, x = InsertBefore(h, this, s)
  PROVE  Idle(x)
<1>1. h \in HeapType
  BY DEF Idle
<1>2. x \in HeapType /\ x.stuck = h.stuck
  BY <1>1, InsertBeforeFields DEF Updated, SameTasks
<1>3. x = [h EXCEPT !.next = BeforeNext(h.next, h.prev, this, s),
                    !.prev = BeforePrev(h.next, h.prev, this, s)]
  BY IdleLock DEF InsertBefore, Require, BeforeNext, BeforePrev
<1>4. x.halt = h.halt
  BY <1>1, <1>3 DEF HeapType
<1> QED BY <1>2, <1>4 DEF Idle

LEMMA IdlePush ==
  ASSUME NEW h, Idle(h), NEW t \in Tasks, NEW s \in Slots, OwnerOf(h, s) = t,
         NEW x, x = PushFreeSlots(h, t, s)
  PROVE  Idle(x)
<1>1. h \in HeapType
  BY DEF Idle
<1>2. x \in HeapType /\ x.stuck = h.stuck
  <2>1. Updated(x, h, [h.cap EXCEPT ![s] = NullCap],
                PushedNext(h, s, h.free[t]), PushedPrev(h, s, h.free[t]),
                [h.free EXCEPT ![t] = s], [h.count EXCEPT ![t] = @ + 1])
    BY <1>1, PushFields
  <2> QED BY <2>1 DEF Updated, SameTasks
<1>3. PICK z : z = EraseThis(h, s)
  OBVIOUS
<1>4. Idle(z) /\ z.next = ErasedNext(h, s) /\ z.prev = ErasedPrev(h, s) /\ z.free = h.free
      /\ z.count = h.count
  BY <1>1, <1>3, IdleErase, EraseFields DEF Updated
<1>5. PICK e : e = [z EXCEPT !.cap[s] = NullCap]
  OBVIOUS
<1>6. z \in HeapType /\ [z.cap EXCEPT ![s] = NullCap] \in [Slots -> CapSet]
  BY <1>4, NullCapType DEF Idle, HeapType
<1>7. e \in HeapType /\ e.stuck = z.stuck /\ e.halt = z.halt /\ e.next = z.next /\ e.prev = z.prev
      /\ e.free = z.free /\ e.count = z.count
  <2>1. PICK k \in [Slots -> CapSet] : k = [z.cap EXCEPT ![s] = NullCap]
    BY <1>6
  <2>2. e = [z EXCEPT !.cap = k]
    BY <1>5, <1>6, <2>1 DEF HeapType
  <2> QED BY <1>6, <2>2 DEF HeapType
<1>8. Idle(e)
  BY <1>4, <1>7 DEF Idle
<1>9. IsIsolated(e, s)
  BY <1>4, <1>7 DEF IsIsolated, IsHead, IsTail, ErasedNext, ErasedPrev
<1>10. PICK l : l = IF h.free[t] = Nil THEN e ELSE InsertBefore(e, h.free[t], s)
  OBVIOUS
<1>11. Idle(l)
  <2>1. h.free[t] \in Slots \cup {Nil}
    BY <1>1 DEF HeapType
  <2>2. CASE h.free[t] = Nil
    BY <1>8, <1>10, <2>2
  <2>3. CASE h.free[t] # Nil
    <3>1. PICK f \in Slots : f = h.free[t]
      BY <2>1, <2>3
    <3>2. l = InsertBefore(e, f, s)
      BY <1>10, <2>3, <3>1
    <3> QED BY <1>8, <1>9, <3>2, IdleInsertBefore
  <2> QED BY <2>2, <2>3
<1>12. x = [l EXCEPT !.free[t] = s, !.count[t] = @ + 1]
  <2>1. Require(h, OwnerOf(h, s) = t, "push_free_slots: owner") = h /\ Lock(h, t) = h
    BY IdleLock DEF Require
  <2> QED BY <1>3, <1>5, <1>10, <2>1 DEF PushFreeSlots
<1>13. x.halt = l.halt
  <2>1. l \in HeapType
    BY <1>11 DEF Idle
  <2> QED BY <1>12, <2>1 DEF HeapType
<1> QED BY <1>2, <1>11, <1>13 DEF Idle

LEMMA IdleInsertCap ==
  ASSUME NEW h, Idle(h), NEW t \in Tasks, h.free[t] \in Slots, NEW c,
         NEW x, x = InsertCap(h, t, c), x \in HeapType, x.stuck = h.stuck
  PROVE  Idle(x)
<1>1. h \in HeapType
  BY DEF Idle
<1>2. PICK f \in Slots : f = h.free[t]
  OBVIOUS
<1>3. PICK z : z = EraseThis(h, f)
  OBVIOUS
<1>4. Idle(z)
  BY <1>3, IdleErase
<1>5. PICK y : y = PopFreeSlots(h, t)
  OBVIOUS
<1>6. y = [z EXCEPT !.free[t] = IF h.next[f] # Nil THEN h.next[f] ELSE h.prev[f],
                    !.count[t] = @ - 1]
  BY <1>2, <1>3, <1>5, IdleLock DEF PopFreeSlots
<1>7. y \in HeapType
  BY <1>1, <1>5, PopFields DEF Updated
<1>8. y.halt = z.halt
  BY <1>4, <1>6 DEF HeapType, Idle
<1>9. x = [y EXCEPT !.cap[f] = c]
  BY <1>2, <1>5 DEF InsertCap
<1>10. x.halt = y.halt
  BY <1>7, <1>9 DEF HeapType
<1> QED BY <1>4, <1>8, <1>10 DEF Idle

(* The slots of p from the i-th on.                                        *)
SlotsFrom(p, i) == {<<p, j>> : j \in i..(SlotsPerSpace - 1)}

LEMMA PushLoop ==
  ASSUME NEW h, NEW K, Whole(h, K), NEW t \in Tasks, NEW p \in Spaces, h.owner[p] = t,
         SlotsIn(p, K), NEW m \in 0..SlotsPerSpace,
         NEW x, x = PushSlots(h, t, p)[m]
  PROVE  /\ Whole(x, K \ SlotsFrom(p, SlotsPerSpace - m)) /\ SameTasks(x, h) /\ SameCaps(x, h)
         /\ StaysIdle(x, h)
<1>1. PICK q \in Nat : q = SlotsPerSpace
  BY CapAssumption
<1>2. PICK f : f = PushSlots(h, t, p)
  OBVIOUS
<1>3. f[0] = h /\ \A n \in 1..q : f[n] = PushFreeSlots(f[n - 1], t, <<p, SlotsPerSpace - n>>)
  BY <1>1, <1>2, PushRounds
<1> DEFINE Good(n) == /\ Whole(f[n], K \ SlotsFrom(p, q - n))
                      /\ SameTasks(f[n], h) /\ SameCaps(f[n], h)
                      /\ StaysIdle(f[n], h)
           bad == {n \in 0..q : ~Good(n)}
<1>4. bad = {}
  <2> SUFFICES ASSUME bad # {} PROVE FALSE
    OBVIOUS
  <2>1. bad \in SUBSET Nat
    OBVIOUS
  <2>2. PICK n \in bad : \A j \in bad : n <= j
    BY <2>1, LeastOf
  <2>3. n \in 0..q /\ ~Good(n)
    BY <2>2
  <2>4. CASE n = 0
    <3>1. SlotsFrom(p, q - 0) = {}
      BY <1>1 DEF SlotsFrom
    <3>2. SameTasks(h, h) /\ SameCaps(h, h)
      BY DEF SameTasks, SameCaps
    <3>3. K \ SlotsFrom(p, q - 0) = K
      BY <3>1
    <3> QED BY <1>3, <2>3, <2>4, <3>2, <3>3 DEF StaysIdle
  <2>5. CASE n # 0
    <3>1. n - 1 \in 0..q /\ n - 1 \notin bad /\ n \in 1..q
      <4>1. n \in 1..q /\ n - 1 \in 0..q /\ ~(n <= n - 1)
        BY <2>3, <2>5
      <4> HIDE DEF bad
      <4> QED BY <2>2, <4>1
    <3>2. Good(n - 1)
      BY <3>1
    <3>3. PICK i \in 0..(q - 1) : i = q - n /\ q - (n - 1) = i + 1
      BY <3>1
    <3>4. PICK s : s = <<p, i>>
      OBVIOUS
    <3>5. s \in Slots /\ s[1] = p
      BY <1>1, <3>4 DEF Slots
    <3>6. f[n] = PushFreeSlots(f[n - 1], t, s)
      <4>1. f[n] = PushFreeSlots(f[n - 1], t, <<p, SlotsPerSpace - n>>)
        BY <1>3, <3>1
      <4> QED BY <1>1, <3>3, <3>4, <4>1
    <3>7. PICK L : L = K \ SlotsFrom(p, i + 1)
      OBVIOUS
    <3>8. s \notin SlotsFrom(p, i + 1)
      BY <3>4 DEF SlotsFrom
    <3>9. s \in L
      BY <3>5, <3>7, <3>8 DEF SlotsIn
    <3>10. L \ {s} = K \ SlotsFrom(p, i)
      <4>1. \A j : j \in i..(q - 1) <=> j = i \/ j \in (i + 1)..(q - 1)
        OBVIOUS
      <4>2. SlotsFrom(p, i) = SlotsFrom(p, i + 1) \cup {s}
        BY <1>1, <3>4, <4>1 DEF SlotsFrom
      <4> QED BY <3>7, <4>2
    <3>11. Whole(f[n - 1], L) /\ SameTasks(f[n - 1], h) /\ SameCaps(f[n - 1], h)
      BY <3>2, <3>3, <3>7
    <3>12. OwnerOf(f[n - 1], s) = t
      BY <3>5, <3>11 DEF SameTasks, OwnerOf
    <3>13. Whole(f[n], L \ {s}) /\ SameTasks(f[n], f[n - 1]) /\ SameCaps(f[n], f[n - 1])
      BY <3>6, <3>9, <3>11, <3>12, PushNewWhole
    <3>14. SameTasks(f[n], h) /\ SameCaps(f[n], h)
      BY <3>11, <3>13 DEF SameTasks, SameCaps
    <3>15. StaysIdle(f[n], h)
      BY <3>2, <3>5, <3>6, <3>12, IdlePush DEF StaysIdle
    <3> QED BY <2>3, <3>3, <3>10, <3>13, <3>14, <3>15
  <2> QED BY <2>4, <2>5
<1>5. Good(m)
  BY <1>1, <1>4
<1> QED BY <1>1, <1>2, <1>5

(* What holds of the heap between system calls, but for halt.              *)
Intact(h) == Whole(h, Kept(h)) /\ SpacesOwned(h)

LEMMA IntactSame ==
  ASSUME NEW h, Intact(h), NEW x, Whole(x, Kept(h)), SameSpaces(x, h)
  PROVE  Intact(x)
<1>1. Kept(x) = Kept(h)
  BY DEF Kept, SameSpaces, OwnerOf
<1>2. SpacesOwned(x)
  BY DEF Intact, SpacesOwned, SameSpaces, SpacesOf
<1> QED BY <1>1, <1>2 DEF Intact

LEMMA RangeAppend ==
  ASSUME NEW S, NEW q \in Seq(S), NEW p \in S
  PROVE  /\ Append(q, p) \in Seq(S) /\ Append(q, p) # <<>>
         /\ Range(Append(q, p)) = Range(q) \cup {p}
         /\ Append(q, p)[1] = IF q = <<>> THEN p ELSE q[1]
<1>1. PICK m \in Nat : m = Len(q)
  OBVIOUS
<1>2. PICK r : r = Append(q, p)
  OBVIOUS
<1>3. /\ r \in Seq(S) /\ Len(r) = m + 1 /\ r[m + 1] = p
      /\ \A i \in 1..m : r[i] = q[i]
  BY <1>1, <1>2, AppendProperties
<1>4. DOMAIN q = 1..m /\ DOMAIN r = 1..(m + 1)
  BY <1>1, <1>3
<1>5. \A i : i \in 1..(m + 1) <=> i \in 1..m \/ i = m + 1
  OBVIOUS
<1>6. Range(r) = Range(q) \cup {p}
  BY <1>3, <1>4, <1>5 DEF Range
<1>7. r # <<>>
  BY <1>3
<1>8. CASE q = <<>>
  <2>1. m = 0
    BY <1>1, <1>8
  <2> QED BY <1>2, <1>3, <1>6, <1>7, <1>8, <2>1
<1>9. CASE q # <<>>
  <2>1. 1 \in 1..m
    BY <1>1, <1>9, EmptySeq
  <2> QED BY <1>2, <1>3, <1>6, <1>7, <1>9, <2>1
<1> QED BY <1>8, <1>9

(* The task t of x has one space more.                                     *)
Given(x, h, t, p) ==
  /\ x.owner = [h.owner EXCEPT ![p] = t]
  /\ x.spaces = [h.spaces EXCEPT ![t] = Append(@, p)]

(* The kept slots of a task that gets the space p.                         *)
LEMMA KeptGrows ==
  ASSUME NEW h \in HeapType, SpacesOwned(h), NEW t \in Tasks, NEW p \in Spaces, h.owner[p] = Nil,
         NEW x \in HeapType, Given(x, h, t, p)
  PROVE  Kept(x) = Kept(h) \ SlotsFrom(p, Reserved(h, t))
<1>1. h.spaces[t] \in Seq(Spaces)
  BY DEF HeapType
<1>2. /\ Append(h.spaces[t], p) # <<>>
      /\ Append(h.spaces[t], p)[1] = IF h.spaces[t] = <<>> THEN p ELSE h.spaces[t][1]
  BY <1>1, RangeAppend
<1>3. \A u \in Tasks : x.spaces[u] = IF u = t THEN Append(h.spaces[t], p) ELSE h.spaces[u]
  BY DEF HeapType, Given
<1>4. \A u \in Tasks : h.spaces[u] # <<>> => h.spaces[u][1] \in Spaces /\ h.spaces[u][1] # p
  <2> SUFFICES ASSUME NEW u \in Tasks, h.spaces[u] # <<>>
               PROVE  h.spaces[u][1] \in Spaces /\ h.spaces[u][1] # p
    OBVIOUS
  <2>1. h.spaces[u] \in Seq(Spaces)
    BY DEF HeapType
  <2>2. 1 \in 1..Len(h.spaces[u]) /\ DOMAIN h.spaces[u] = 1..Len(h.spaces[u])
    BY <2>1, EmptySeq, LenProperties
  <2>3. h.spaces[u][1] \in SpacesOf(h, u) /\ h.spaces[u][1] \in Spaces
    BY <2>1, <2>2, ElementOfSeq DEF SpacesOf, Range
  <2>4. h.owner[h.spaces[u][1]] = u
    BY <2>3 DEF SpacesOwned
  <2> QED BY <2>3, <2>4, NilApart
<1>5. PICK i \in {0, 1} : i = Reserved(h, t)
  BY DEF Reserved
<1>6. \A s \in Slots : OwnerOf(x, s) = IF s[1] = p THEN t ELSE OwnerOf(h, s)
  <2> TAKE s \in Slots
  <2>1. s[1] \in Spaces
    BY DEF Slots
  <2> QED BY <2>1 DEF OwnerOf, HeapType, Given
<1>7. \A s \in Slots : s \in SlotsFrom(p, i) <=> s[1] = p /\ ~(i = 1 /\ s = <<p, 0>>)
  BY <1>5, CapAssumption DEF SlotsFrom, Slots
<1>8. \A u \in Tasks : h.spaces[u] # <<>> => <<h.spaces[u][1], 0>> \in Slots
  BY <1>4, CapAssumption DEF Slots
<1>9. <<p, 0>> \in Slots
  BY CapAssumption DEF Slots
<1> DEFINE F(y) == {<<y.spaces[u][1], 0>> : u \in {v \in Tasks : y.spaces[v] # <<>>}}
<1>10. F(x) = IF i = 1 THEN F(h) \cup {<<p, 0>>} ELSE F(h)
  <2>1. CASE i = 1
    <3>1. h.spaces[t] = <<>>
      BY <1>5, <2>1 DEF Reserved
    <3>2. /\ x.spaces[t] # <<>> /\ x.spaces[t][1] = p
          /\ \A u \in Tasks \ {t} : x.spaces[u] = h.spaces[u]
      BY <1>2, <1>3, <3>1
    <3> QED BY <2>1, <3>1, <3>2
  <2>2. CASE i = 0
    <3>1. h.spaces[t] # <<>>
      BY <1>5, <2>2 DEF Reserved
    <3>2. /\ x.spaces[t] # <<>> /\ x.spaces[t][1] = h.spaces[t][1]
          /\ \A u \in Tasks \ {t} : x.spaces[u] = h.spaces[u]
      BY <1>2, <1>3, <3>1
    <3> QED BY <2>2, <3>1, <3>2
  <2> QED BY <2>1, <2>2
<1>11. \A s \in F(h) : s \in Slots /\ s[1] # p
  BY <1>4, <1>8
<1>12. F(x) \subseteq Slots
  BY <1>9, <1>10, <1>11
<1>13. Kept(x) = {s \in Slots : OwnerOf(x, s) = Nil} \cup F(x)
  BY DEF Kept
<1>14. Kept(h) = {s \in Slots : OwnerOf(h, s) = Nil} \cup F(h)
  BY DEF Kept
<1> HIDE DEF F
<1>15. \A s \in Slots : s[1] = p => OwnerOf(h, s) = Nil
  BY DEF OwnerOf
<1>16. i = 1 => <<p, 0>>[1] = p
  OBVIOUS
<1>17. ASSUME NEW s \in Slots
       PROVE  s \in Kept(x) <=> s \in Kept(h) /\ s \notin SlotsFrom(p, i)
  <2>1. CASE s[1] = p
    BY <1>6, <1>7, <1>10, <1>11, <1>13, <1>14, <1>15, <2>1, NilApart
  <2>2. CASE s[1] # p
    BY <1>6, <1>7, <1>10, <1>13, <1>14, <1>16, <2>2
  <2> QED BY <2>1, <2>2
<1>18. Kept(x) \subseteq Slots /\ Kept(h) \subseteq Slots
  BY <1>11, <1>12, <1>13, <1>14
<1> QED BY <1>5, <1>17, <1>18

(* insert_cap_space of a space nobody owns                                 *)
LEMMA InsertSpaceIntact ==
  ASSUME NEW h, Intact(h), NEW t \in Tasks, h.state[t] # "unused", NEW p \in Spaces,
         h.owner[p] = Nil, NEW x, x = InsertCapSpace(h, t, p)
  PROVE  Intact(x) /\ SameCaps(x, h) /\ x.state = h.state /\ x.owner[p] = t
         /\ IdleAtFirst(x, h, t)
<1>1. PICK K : K = Kept(h)
  OBVIOUS
<1>2. Whole(h, K) /\ SpacesOwned(h) /\ h \in HeapType
  BY <1>1 DEF Intact, Whole, Sound
<1>3. SlotsIn(p, K)
  BY <1>1 DEF Kept, OwnerOf, SlotsIn
<1>4. PICK i \in {0, 1} : i = Reserved(h, t)
  BY DEF Reserved
<1>5. PICK l : l = Lock(h, t)
  OBVIOUS
<1>6. Whole(l, K) /\ SameTasks(l, h) /\ l.cap = h.cap
  BY <1>2, <1>5, LockWhole
<1>7. PICK y : y = Require(l, Len(h.spaces[t]) < h.ext[t] * TableEntries,
                           "insert_cap_space: page table")
  OBVIOUS
<1>8. Whole(y, K) /\ SameTasks(y, l) /\ y.cap = l.cap
  <2>1. PICK why \in Halts \ Failures : why = "insert_cap_space: page table"
    BY DEF Halts, Failures
  <2>2. y = l \/ y = [l EXCEPT !.halt = why]
    BY <1>7, <2>1 DEF Require
  <2> QED BY <1>6, <2>2, HaltWhole
<1>10. <<p, 0>> \in K
  <2>1. <<p, 0>> \in Slots /\ <<p, 0>>[1] = p
    BY CapAssumption DEF Slots
  <2> QED BY <1>3, <2>1 DEF SlotsIn
<1>11. PICK z : z = IF Reserved(h, t) = 1 THEN Cleared(y, p) ELSE y
  OBVIOUS
<1>12. Whole(z, K) /\ SameTasks(z, h) /\ SameCaps(z, h)
  <2>1. CASE Reserved(h, t) = 1
    <3>1. z = Cleared(y, p)
      BY <1>11, <2>1
    <3>2. Whole(z, K) /\ SameTasks(z, y) /\ SameCaps(z, y)
      BY <1>8, <1>10, <3>1, ClearWhole
    <3> QED BY <1>6, <1>8, <3>2 DEF SameTasks, SameCaps
  <2>2. CASE Reserved(h, t) # 1
    <3>1. z = y
      BY <1>11, <2>2
    <3> QED BY <1>6, <1>8, <3>1 DEF SameTasks, SameCaps
  <2> QED BY <2>1, <2>2
<1>13. PICK o : o = OwnedBy(z, p, t)
  OBVIOUS
<1>14. /\ Whole(o, K) /\ o.owner = [h.owner EXCEPT ![p] = t] /\ o.spaces = h.spaces
       /\ o.state = h.state /\ o.cap = z.cap
  <2>1. Whole(o, K) /\ HandedOver(o, z, p, t)
    BY <1>3, <1>12, <1>13, OwnWhole
  <2> QED BY <1>12, <2>1 DEF SameTasks, HandedOver
<1>15. PICK m \in 0..SlotsPerSpace : m = SlotsPerSpace - i /\ SlotsPerSpace - m = i
  BY CapAssumption
<1>16. PICK w : w = PushSlots(o, t, p)[m]
  OBVIOUS
<1>17. o.owner[p] = t
  BY <1>2, <1>14 DEF HeapType
<1>18. /\ Whole(w, K \ SlotsFrom(p, i)) /\ SameTasks(w, o) /\ SameCaps(w, o)
       /\ StaysIdle(w, o)
  <2>1. /\ Whole(w, K \ SlotsFrom(p, SlotsPerSpace - m)) /\ SameTasks(w, o) /\ SameCaps(w, o)
        /\ StaysIdle(w, o)
    BY <1>3, <1>14, <1>16, <1>17, PushLoop
  <2> QED BY <1>15, <2>1
<1>19. x = [w EXCEPT !.spaces[t] = Append(@, p)]
  <2>1. CASE Reserved(h, t) = 1
    <3>1. o = [[y EXCEPT !.cap[<<p, 0>>] = NullCap, !.prev[<<p, 0>>] = Nil,
                         !.next[<<p, 0>>] = Nil] EXCEPT !.owner[p] = t]
      BY <1>11, <1>13, <2>1 DEF OwnedBy, Cleared
    <3>2. InsertCapSpace(h, t, p) = [PushSlots(o, t, p)[SlotsPerSpace - 1]
                                       EXCEPT !.spaces[t] = Append(@, p)]
      BY ONLY <1>5, <1>7, <2>1, <3>1, Zenon DEF InsertCapSpace
    <3> QED BY <1>4, <1>15, <1>16, <2>1, <3>2
  <2>2. CASE Reserved(h, t) # 1
    <3>1. o = [y EXCEPT !.owner[p] = t]
      BY <1>11, <1>13, <2>2 DEF OwnedBy
    <3>2. InsertCapSpace(h, t, p) = [PushSlots(o, t, p)[SlotsPerSpace - Reserved(h, t)]
                                       EXCEPT !.spaces[t] = Append(@, p)]
      BY ONLY <1>5, <1>7, <2>2, <3>1, Zenon DEF InsertCapSpace
    <3> QED BY <1>4, <1>15, <1>16, <3>2
  <2> QED BY <2>1, <2>2
<1>20. w \in HeapType /\ w.spaces = h.spaces /\ w.owner = [h.owner EXCEPT ![p] = t]
       /\ w.state = h.state /\ w.halt \notin Failures
  BY <1>14, <1>18 DEF Whole, Sound, SameTasks
<1>21. PICK q : q = [h.spaces EXCEPT ![t] = Append(@, p)]
  OBVIOUS
<1>22. h.spaces \in [Tasks -> Seq(Spaces)] /\ h.spaces[t] \in Seq(Spaces)
  BY <1>2 DEF HeapType
<1>23. /\ Append(h.spaces[t], p) \in Seq(Spaces)
       /\ Range(Append(h.spaces[t], p)) = Range(h.spaces[t]) \cup {p}
  BY <1>22, RangeAppend
<1>24. q \in [Tasks -> Seq(Spaces)]
       /\ \A u \in Tasks : q[u] = IF u = t THEN Append(h.spaces[t], p) ELSE h.spaces[u]
  BY <1>21, <1>22, <1>23
<1>25. x = [w EXCEPT !.spaces = q]
  BY <1>19, <1>20, <1>21
<1>26. /\ x \in HeapType /\ x.spaces = q /\ x.cap = w.cap /\ x.next = w.next /\ x.prev = w.prev
       /\ x.free = w.free /\ x.count = w.count /\ x.owner = w.owner /\ x.state = w.state
       /\ x.halt = w.halt
  BY <1>20, <1>24, <1>25 DEF HeapType
<1>27. Kept(x) = K \ SlotsFrom(p, i)
  <2>1. Given(x, h, t, p)
    BY <1>20, <1>21, <1>26 DEF Given
  <2> QED BY <1>1, <1>2, <1>4, <1>26, <2>1, KeptGrows
<1>28. Whole(x, Kept(x))
  <2>1. Sound(x, K \ SlotsFrom(p, i))
    BY <1>18, <1>20, <1>26, SoundSame DEF Whole
  <2>2. ZombiesLead(x)
    BY <1>18, <1>26 DEF Whole, ZombiesLead
  <2> QED BY <1>27, <2>1, <2>2 DEF Whole
<1>29. SpacesOwned(x)
  <2> SUFFICES ASSUME NEW u \in Tasks
               PROVE  /\ \A r \in Spaces : r \in Range(x.spaces[u]) <=> x.owner[r] = u
                      /\ x.state[u] = "unused" => x.spaces[u] = <<>>
    BY DEF SpacesOwned, SpacesOf
  <2>1. /\ \A r \in Spaces : r \in Range(h.spaces[u]) <=> h.owner[r] = u
        /\ h.state[u] = "unused" => h.spaces[u] = <<>>
    BY <1>2 DEF SpacesOwned, SpacesOf
  <2>2. \A r \in Spaces : x.owner[r] = IF r = p THEN t ELSE h.owner[r]
    <3>1. x.owner = [h.owner EXCEPT ![p] = t]
      BY ONLY <1>20, <1>26
    <3>2. h.owner \in [Spaces -> Tasks \cup {Nil}]
      BY <1>2 DEF HeapType
    <3> QED BY ONLY <3>1, <3>2
  <2>3. x.state = h.state
    BY <1>20, <1>26
  <2>4. CASE u = t
    <3>1. Range(x.spaces[u]) = Range(h.spaces[t]) \cup {p}
      BY <1>23, <1>24, <1>26, <2>4
    <3> QED BY <2>1, <2>2, <2>3, <2>4, <3>1
  <2>5. CASE u # t
    <3>1. x.spaces[u] = h.spaces[u]
      BY <1>24, <1>26, <2>5
    <3> QED BY <2>1, <2>2, <2>3, <2>5, <3>1, NilApart
  <2> QED BY <2>4, <2>5
<1>30. SameCaps(x, h)
  BY <1>12, <1>14, <1>18, <1>26 DEF SameCaps
<1>31. x.owner[p] = t
  BY <1>2, <1>20, <1>26 DEF HeapType
<1>32. ASSUME Idle(h), h.spaces[t] = <<>>, h.ext[t] = 1 PROVE Idle(x)
  <2>1. l = h
    BY <1>5, <1>32, IdleLock
  <2>2. y = h
    <3>1. Len(h.spaces[t]) < h.ext[t] * TableEntries
      BY <1>32, CapAssumption
    <3> QED BY <1>7, <2>1, <3>1 DEF Require
  <2>3. Idle(y) /\ y \in HeapType
    BY <1>32, <2>2 DEF Idle
  <2>4. z.halt = y.halt
    BY <1>11, <2>3 DEF Cleared, HeapType
  <2>5. z \in HeapType /\ z.stuck = h.stuck
    BY <1>12 DEF Whole, Sound, SameTasks
  <2>6. o.halt = z.halt /\ o.stuck = z.stuck
    BY <1>13, <2>5 DEF OwnedBy, HeapType
  <2>7. Idle(o)
    <3>1. o \in HeapType
      BY <1>14 DEF Whole, Sound
    <3> QED BY <2>2, <2>3, <2>4, <2>5, <2>6, <3>1 DEF Idle
  <2>8. Idle(w)
    BY <1>18, <2>7 DEF StaysIdle
  <2>9. x.halt = w.halt /\ x.stuck = w.stuck
    BY <1>20, <1>25 DEF HeapType
  <2> QED BY <1>26, <2>8, <2>9 DEF Idle
<1> QED BY <1>20, <1>26, <1>28, <1>29, <1>30, <1>31, <1>32
       DEF Intact, IdleAtFirst, StaysIdle

(* init_task: nothing of a task that is created was in use.                *)
Started(h, t) ==
  [h EXCEPT !.state[t] = "suspended", !.free[t] = Nil, !.count[t] = 0,
            !.spaces[t] = <<>>, !.ext[t] = 1]

LEMMA StartedIntact ==
  ASSUME NEW h, Intact(h), NEW t \in Tasks, h.state[t] = "unused", NEW y, y = Started(h, t)
  PROVE  /\ Intact(y) /\ y.cap = h.cap /\ y.owner = h.owner /\ y.state[t] # "unused"
         /\ y.spaces[t] = <<>> /\ y.ext[t] = 1 /\ y.halt = h.halt /\ y.stuck = h.stuck
<1>1. PICK K : K = Kept(h)
  OBVIOUS
<1>2. h \in HeapType /\ SpacesOwned(h) /\ FreeHeads(h, K) /\ Counted(h, K) /\ Whole(h, K)
      /\ h.halt \notin Failures
  BY <1>1 DEF Intact, Whole, Sound
<1>3. h.spaces[t] = <<>>
  BY <1>2 DEF SpacesOwned
<1>4. \A p \in Spaces : h.owner[p] # t
  BY <1>2, <1>3 DEF SpacesOwned, SpacesOf, Range
<1>5. h.free[t] = Nil
  <2>1. \A s \in Slots : s[1] \in Spaces
    BY DEF Slots
  <2>2. h.free[t] \in Slots \cup {Nil}
    BY <1>2 DEF HeapType
  <2> QED BY <1>2, <1>4, <2>1, <2>2 DEF FreeHeads, OwnerOf
<1>6. h.count[t] = 0
  <2>1. \A s \in Slots : s[1] \in Spaces
    BY DEF Slots
  <2>2. EmptySlots(h, t, K) = {}
    BY <1>4, <2>1 DEF EmptySlots, OwnerOf
  <2> QED BY <1>2, <2>2, FS_EmptySet DEF Counted
<1>7. /\ [h.free EXCEPT ![t] = Nil] = h.free /\ [h.count EXCEPT ![t] = 0] = h.count
      /\ [h.spaces EXCEPT ![t] = <<>>] = h.spaces
  BY <1>2, <1>3, <1>5, <1>6 DEF HeapType
<1>8. /\ [h.state EXCEPT ![t] = "suspended"] \in [Tasks -> {"unused", "suspended", "active", "killed"}]
      /\ [h.ext EXCEPT ![t] = 1] \in [Tasks -> Nat]
      /\ [h.state EXCEPT ![t] = "suspended"][t] = "suspended"
      /\ [h.ext EXCEPT ![t] = 1][t] = 1
  BY <1>2 DEF HeapType
<1>9. y = [h EXCEPT !.state = [h.state EXCEPT ![t] = "suspended"], !.ext = [h.ext EXCEPT ![t] = 1]]
  BY <1>2, <1>7 DEF Started, HeapType
<1>10. /\ y \in HeapType /\ SameSlots(y, h) /\ y.halt = h.halt /\ y.stuck = h.stuck
       /\ y.state = [h.state EXCEPT ![t] = "suspended"] /\ y.ext = [h.ext EXCEPT ![t] = 1]
  BY <1>2, <1>8, <1>9 DEF HeapType, SameSlots
<1>11. Whole(y, K)
  BY <1>2, <1>10, WholeSame
<1>12. SameSpaces(y, h)
  <2>1. \A u \in Tasks : y.state[u] = IF u = t THEN "suspended" ELSE h.state[u]
    BY <1>2, <1>10 DEF HeapType
  <2> QED BY <1>10, <2>1 DEF SameSpaces, SameSlots
<1>13. Intact(y)
  BY <1>1, <1>11, <1>12, IntactSame
<1> QED BY <1>3, <1>8, <1>10, <1>13 DEF SameSlots

LEMMA InitTaskIntact ==
  ASSUME NEW h, Intact(h), NEW t \in Tasks, h.state[t] = "unused", NEW p \in Spaces,
         h.owner[p] = Nil, NEW x, x = InitTask(h, t, p)
  PROVE  Intact(x) /\ SameCaps(x, h) /\ x.owner[p] = t /\ StaysIdle(x, h)
<1>1. PICK y : y = Started(h, t)
  OBVIOUS
<1>2. /\ Intact(y) /\ y.cap = h.cap /\ y.owner = h.owner /\ y.state[t] # "unused"
      /\ y.spaces[t] = <<>> /\ y.ext[t] = 1 /\ y.halt = h.halt /\ y.stuck = h.stuck
  BY <1>1, StartedIntact
<1>3. x = InsertCapSpace(y, t, p)
  BY <1>1 DEF InitTask, Started
<1>4. Intact(x) /\ SameCaps(x, y) /\ x.owner[p] = t /\ IdleAtFirst(x, y, t)
  BY <1>2, <1>3, InsertSpaceIntact
<1>5. Idle(h) => Idle(y)
  BY <1>2 DEF Idle, Intact, Whole, Sound
<1> QED BY <1>2, <1>4, <1>5 DEF SameCaps, StaysIdle, IdleAtFirst

(* A task with an empty slot has a free list.                              *)
LEMMA FreeExists ==
  ASSUME NEW h, NEW K, Sound(h, K), NEW t \in Tasks, NEW s \in EmptySlots(h, t, K)
  PROVE  h.free[t] # Nil
<1>1. h \in HeapType /\ h.next \in LinkFns /\ h.prev \in LinkFns
  BY HeapLinks DEF Sound
<1>2. PICK C : C = EmptySlots(h, t, K)
  OBVIOUS
<1>3. C \in SUBSET Slots /\ C # {}
  BY <1>2 DEF EmptySlots
<1>4. PICK u \in C : h.prev[u] \notin C
  BY <1>1, <1>3, Rooted DEF Sound
<1>5. u \in Slots \ K /\ OwnerOf(h, u) = t /\ IsEmpty(h.cap[u])
  BY <1>2, <1>4 DEF EmptySlots
<1>6. h.prev[u] = Nil
  <2> SUFFICES ASSUME h.prev[u] # Nil PROVE FALSE
    OBVIOUS
  <2>1. h.prev[u] \in Slots /\ h.next[h.prev[u]] = u /\ u # Nil
    BY <1>1, <1>5, NilApart DEF Sound, Inverses, LinkFns
  <2>2. IsEmpty(h.cap[h.prev[u]]) /\ OwnerOf(h, h.prev[u]) = t
    BY <1>5, <2>1 DEF Sound, Unmixed
  <2>3. h.prev[u] \notin K
    BY <2>1 DEF Sound, KeptBack, IsUnused, IsIsolated, IsTail
  <2> QED BY <1>2, <1>4, <2>1, <2>2, <2>3 DEF EmptySlots
<1> QED BY <1>5, <1>6, NilApart DEF Sound, NoOtherHead, IsHead

-----------------------------------------------------------------------------
(* The system calls.                                                       *)

(* What a system call finds.                                               *)
Good(h) == Intact(h) /\ h.halt = NoFault

LEMMA GoodParts ==
  ASSUME NEW h
  PROVE  Good(h) <=>
           /\ h \in HeapType /\ h.halt = NoFault
           /\ ObjectsNamed(h)
           /\ Linked(h) /\ Ends(h) /\ Unmixed(h)
           /\ KeptBack(h, Kept(h))
           /\ FreeHeads(h, Kept(h)) /\ NoOtherHead(h, Kept(h))
           /\ Counted(h, Kept(h))
           /\ ZombiesLead(h)
           /\ SpacesOwned(h)
<1>1. Linked(h) <=> Inverses(h.next, h.prev)
  BY DEF Linked, Inverses
<1>2. h \in HeapType => (Ends(h) <=> Acyclic(h.next))
  BY HeapLinks, EndsIsAcyclic
<1>3. h.halt = NoFault => h.halt \notin Failures
  BY FaultsApart
<1> QED BY <1>1, <1>2, <1>3 DEF Good, Intact, Whole, Sound

LEMMA InvariantIsGood == SlotInvariant <=> Good(heap)
BY GoodParts DEF SlotInvariant

(* A system call that leaves the heap x, or stops with its fault.          *)
LEMMA CommitGood ==
  ASSUME Good(heap), NEW x, Intact(x), Commit(x)
  PROVE  Good(heap') /\ fault' \notin Failures
<1>1. x \in HeapType /\ x.halt \notin Failures
  BY DEF Intact, Whole, Sound
<1>2. CASE x.halt \in {NoFault, SelfKill}
  <2>1. PICK y : y = [x EXCEPT !.halt = NoFault]
    OBVIOUS
  <2>2. heap' = y /\ fault' = NoFault
    BY <1>2, <2>1 DEF Commit
  <2>3. PICK why \in Halts \ Failures : why = NoFault
    BY FaultsApart DEF Halts
  <2>4. Whole(y, Kept(x)) /\ SameTasks(y, x)
    BY <2>1, <2>3, HaltWhole DEF Intact
  <2>5. Intact(y)
    BY <2>4, IntactSame DEF SameTasks, SameSpaces
  <2>6. y.halt = NoFault
    BY <1>1, <2>1 DEF HeapType
  <2> QED BY <2>2, <2>5, <2>6, FaultsApart DEF Good
<1>3. CASE x.halt \notin {NoFault, SelfKill}
  BY <1>1, <1>3 DEF Commit
<1> QED BY <1>2, <1>3

LEMMA StepGood ==
  ASSUME Good(heap), NEW x, Whole(x, Kept(heap)), SameSpaces(x, heap), Commit(x)
  PROVE  Good(heap') /\ fault' \notin Failures
<1>1. Intact(x)
  BY IntactSame DEF Good
<1> QED BY <1>1, CommitGood

LEMMA TasksSpaces ==
  ASSUME NEW x, NEW h, SameTasks(x, h)
  PROVE  SameSpaces(x, h)
BY DEF SameTasks, SameSpaces

(* The heap under the lock of the caller.                                  *)
LEMMA EnteredWhole ==
  ASSUME Good(heap), NEW t, NEW e, e = Entered(t)
  PROVE  /\ Whole(e, Kept(heap)) /\ SameTasks(e, heap)
         /\ e.cap = heap.cap /\ e.free = heap.free
BY LockWhole DEF Good, Intact, Entered

LEMMA SpacesStep ==
  ASSUME NEW x, NEW y, NEW h, SameSpaces(x, y), SameTasks(y, h)
  PROVE  SameSpaces(x, h)
BY DEF SameTasks, SameSpaces

LEMMA TasksStep ==
  ASSUME NEW x, NEW y, NEW h, SameTasks(x, y), SameTasks(y, h)
  PROVE  SameTasks(x, h)
BY DEF SameTasks

LEMMA LookupSlot ==
  ASSUME NEW t, NEW type, NEW s \in LookupType(heap, t, type)
  PROVE  s \in Slots /\ ~IsEmpty(heap.cap[s]) /\ heap.cap[s].type = type
BY DEF LookupType, Lookup

LEMMA HandledSlot ==
  ASSUME NEW t, NEW s \in LookupHandled(t)
  PROVE  s \in Slots /\ ~IsEmpty(heap.cap[s])
BY LookupSlot DEF LookupHandled

LEMMA QueryGood ==
  ASSUME Good(heap), NEW t \in Tasks, Query(t)
  PROVE  Good(heap') /\ fault' \notin Failures
<1>1. PICK e : e = Entered(t)
  OBVIOUS
<1>2. Whole(e, Kept(heap)) /\ SameSpaces(e, heap)
  BY <1>1, EnteredWhole, TasksSpaces
<1>3. Commit(e)
  BY <1>1 DEF Query
<1> QED BY <1>2, <1>3, StepGood

LEMMA CreateIdGood ==
  ASSUME Good(heap), NEW t \in Tasks, CreateId(t)
  PROVE  Good(heap') /\ fault' \notin Failures
<1>1. PICK e : e = Entered(t)
  OBVIOUS
<1>2. Whole(e, Kept(heap)) /\ SameTasks(e, heap) /\ e.free = heap.free
  BY <1>1, EnteredWhole
<1>3. PICK y : y = PopFreeSlots(e, t)
  OBVIOUS
<1>4. PICK u : u = Checked(y, e.free[t])
  OBVIOUS
<1>5. PICK id \in Nat : id = heap.nextId
  BY DEF Good, Intact, Whole, Sound, HeapType
<1>6. PICK x : x = Identified(u, e.free[t], id)
  OBVIOUS
<1>7. heap.free[t] # Nil /\ Commit(x)
  BY <1>1, <1>2, <1>3, <1>4, <1>5, <1>6, Zenon DEF CreateId, Checked, Identified
<1>8. Whole(x, Kept(heap)) /\ x.owner = e.owner /\ x.spaces = e.spaces /\ x.state = e.state
  <2>1. PICK K : K = Kept(heap)
    OBVIOUS
  <2>2. Whole(e, K) /\ t \in Tasks /\ e.free[t] # Nil /\ id \in Nat
    BY <1>2, <1>5, <1>7, <2>1
  <2>3. Whole(x, K) /\ x.owner = e.owner /\ x.spaces = e.spaces /\ x.state = e.state
    BY ONLY <1>3, <1>4, <1>6, <2>2, CreateIdWhole
  <2> QED BY <2>1, <2>3
<1>9. SameSpaces(x, heap)
  BY <1>2, <1>8 DEF SameTasks, SameSpaces
<1> QED BY <1>7, <1>8, <1>9, StepGood

(* ipc_transfer_ipc_msg, one capability                                    *)
Messages == [heap : HeapType, going : BOOLEAN]

LEMMA PassItemWhole ==
  ASSUME NEW h, NEW K, Whole(h, K), NEW v \in Tasks, NEW item, item.slot \in Slots,
         IsEmpty(h.cap[item.slot]) \/ CanPass(h, v, item.slot), NEW x, x = PassItem(h, v, item)
  PROVE  Whole(x, K) /\ SameTasks(x, h)
<1>1. PICK s \in Slots : s = item.slot
  OBVIOUS
<1>2. CASE IsEmpty(h.cap[s])
  <2>1. PICK why \in Halts \ Failures : why = "ipc_transfer_ipc_msg: null slot"
    BY DEF Halts, Failures
  <2>2. x = h \/ x = [h EXCEPT !.halt = why]
    BY <1>1, <1>2, <2>1 DEF PassItem, Require
  <2> QED BY <2>2, HaltWhole
<1>3. CASE ~IsEmpty(h.cap[s])
  <2>1. ~IsZombie(h.cap[s]) /\ h.free[v] # Nil
    BY <1>1, <1>3 DEF CanPass, CanInsertCap
  <2>2. x = Delegate(h, v, s) \/ x = Transfer(h, v, s)
    BY <1>1, <1>3 DEF PassItem
  <2> QED BY <1>3, <2>1, <2>2, DelegateWhole, TransferWhole
<1> QED BY <1>2, <1>3

LEMMA PassNextWhole ==
  ASSUME NEW m \in Messages, NEW K, Whole(m.heap, K), NEW v \in Tasks,
         NEW item, item.slot \in Slots, NEW n, n = PassNext(m, v, item)
  PROVE  n \in Messages /\ Whole(n.heap, K) /\ SameTasks(n.heap, m.heap)
<1>1. PICK h : h = m.heap
  OBVIOUS
<1>2. PICK x : x = PassItem(h, v, item)
  OBVIOUS
<1>3. CASE n = m
  BY <1>3 DEF SameTasks
<1>4. CASE n = [m EXCEPT !.going = FALSE]
  BY <1>4 DEF SameTasks, Messages
<1>5. CASE /\ IsEmpty(h.cap[item.slot]) \/ CanPass(h, v, item.slot)
           /\ n = [m EXCEPT !.heap = PassItem(@, v, item)]
  <2>1. Whole(x, K) /\ SameTasks(x, h)
    BY <1>1, <1>2, <1>5, PassItemWhole
  <2>2. n = [m EXCEPT !.heap = x]
    BY <1>1, <1>2, <1>5
  <2>3. x \in HeapType
    BY <2>1 DEF Whole, Sound
  <2>4. n \in Messages /\ n.heap = x
    BY <2>2, <2>3 DEF Messages
  <2> QED BY <1>1, <2>1, <2>4
<1> QED BY <1>1, <1>3, <1>4, <1>5 DEF PassNext

LEMMA MessageGood ==
  ASSUME Good(heap), NEW t \in Tasks, NEW v \in Tasks, Message(t, v)
  PROVE  Good(heap') /\ fault' \notin Failures
<1>1. PICK e : e = Entered(t)
  OBVIOUS
<1>2. PICK l : l = Lock(e, v)
  OBVIOUS
<1>3. PICK K : K = Kept(heap)
  OBVIOUS
<1>4. Whole(e, K) /\ SameTasks(e, heap)
  BY <1>1, <1>3, EnteredWhole
<1>5. Whole(l, K) /\ SameTasks(l, e)
  BY <1>2, <1>4, LockWhole
<1>6. PICK m : m = [heap |-> l, going |-> TRUE]
  OBVIOUS
<1>7. m \in Messages /\ m.heap = l
  BY <1>5, <1>6 DEF Messages, Whole, Sound
<1>8. \A i \in Items(t) : i.slot \in Slots
  BY HandledSlot DEF Items
<1>9. PICK first \in Items(t) :
        \/ Commit(PassNext(m, v, first).heap)
        \/ \E second \in Items(t) : Commit(PassNext(PassNext(m, v, first), v, second).heap)
  BY <1>1, <1>2, <1>6, Zenon DEF Message
<1>10. PICK one : one = PassNext(m, v, first)
  OBVIOUS
<1>11. one \in Messages /\ Whole(one.heap, K) /\ SameTasks(one.heap, m.heap)
  BY <1>5, <1>7, <1>8, <1>10, PassNextWhole
<1>12. CASE Commit(one.heap)
  <2>1. SameSpaces(one.heap, heap)
    BY <1>4, <1>5, <1>7, <1>11 DEF SameTasks, SameSpaces
  <2> QED BY <1>3, <1>11, <1>12, <2>1, StepGood
<1>13. CASE \E second \in Items(t) : Commit(PassNext(one, v, second).heap)
  <2>1. PICK second \in Items(t) : Commit(PassNext(one, v, second).heap)
    BY <1>13
  <2>2. PICK two : two = PassNext(one, v, second)
    OBVIOUS
  <2>3. two \in Messages /\ Whole(two.heap, K) /\ SameTasks(two.heap, one.heap)
    BY <1>8, <1>11, <2>2, PassNextWhole
  <2>4. SameSpaces(two.heap, heap)
    BY <1>4, <1>5, <1>7, <1>11, <2>3 DEF SameTasks, SameSpaces
  <2> QED BY <1>3, <2>1, <2>2, <2>3, <2>4, StepGood
<1> QED BY <1>9, <1>10, <1>12, <1>13

LEMMA CopyWhole ==
  ASSUME NEW h, NEW K, Whole(h, K), NEW t \in Tasks, NEW s \in Slots, ~IsEmpty(h.cap[s]),
         NEW x, x = Copy(h, t, s)
  PROVE  Whole(x, K) /\ SameTasks(x, h)
<1>1. CASE h.cap[s].type \in {"task", "endpoint"}
  <2>1. ~IsZombie(h.cap[s])
    BY <1>1 DEF IsZombie
  <2>2. CASE CanInsertCap(h, t)
    <3>1. x = InsertAfter(InsertCap(h, t, h.cap[s]), s, h.free[t])
      BY <1>1, <2>2 DEF Copy
    <3> QED BY <2>1, <2>2, <3>1, CopyAfterWhole DEF CanInsertCap
  <2>3. CASE ~CanInsertCap(h, t)
    <3>1. PICK why \in Halts \ Failures : why = "insert_after: slot"
      BY DEF Halts, Failures
    <3>2. x = h \/ x = [h EXCEPT !.halt = why]
      BY <1>1, <2>3, <3>1 DEF Copy, Require
    <3> QED BY <3>2, HaltWhole
  <2> QED BY <2>2, <2>3
<1>2. CASE h.cap[s].type = "id"
  <2>1. PICK c : c = h.cap[s]
    OBVIOUS
  <2>2. Valid(c) /\ ~IsZombie(c)
    BY <1>2, <2>1, HeldValid DEF IsZombie, Whole
  <2>3. CASE CanInsertCap(h, t)
    <3>1. x = InsertCap(h, t, c) /\ h.free[t] # Nil
      BY <1>2, <2>1, <2>3 DEF Copy, CanInsertCap
    <3> QED BY <2>2, <3>1, InsertCapWhole
  <2>4. CASE ~CanInsertCap(h, t)
    <3>1. x = h
      BY <1>2, <2>4 DEF Copy
    <3> QED BY <3>1 DEF SameTasks
  <2> QED BY <2>3, <2>4
<1>3. CASE h.cap[s].type \notin {"task", "endpoint", "id"}
  <2>1. x = h
    BY <1>3 DEF Copy
  <2> QED BY <2>1 DEF SameTasks
<1> QED BY <1>1, <1>2, <1>3

LEMMA CopyCapGood ==
  ASSUME Good(heap), NEW t \in Tasks, NEW s \in LookupHandled(t), CopyCap(t, s)
  PROVE  Good(heap') /\ fault' \notin Failures
<1>1. PICK e : e = Entered(t)
  OBVIOUS
<1>2. PICK K : K = Kept(heap)
  OBVIOUS
<1>3. Whole(e, K) /\ SameTasks(e, heap) /\ e.cap = heap.cap
  BY <1>1, <1>2, EnteredWhole
<1>4. s \in Slots /\ ~IsEmpty(heap.cap[s])
  BY HandledSlot
<1>5. PICK u \in Tasks : u = OwnerOf(heap, s)
  BY <1>4, OwnedSlot DEF Good, Intact, Whole
<1>6. PICK x : x = Copy(e, u, s)
  OBVIOUS
<1>7. Commit(x)
  BY <1>1, <1>5, <1>6 DEF CopyCap
<1>8. Whole(x, K) /\ SameTasks(x, e)
  BY <1>3, <1>4, <1>6, CopyWhole
<1>9. SameSpaces(x, heap)
  BY <1>3, <1>8, TasksSpaces, TasksStep
<1> QED BY <1>2, <1>7, <1>8, <1>9, StepGood

LEMMA RevokeCapGood ==
  ASSUME Good(heap), NEW t \in Tasks, NEW s \in LookupHandled(t), RevokeCap(t, s)
  PROVE  Good(heap') /\ fault' \notin Failures
<1>1. PICK e : e = Entered(t)
  OBVIOUS
<1>2. PICK K : K = Kept(heap)
  OBVIOUS
<1>3. Whole(e, K) /\ SameTasks(e, heap) /\ e.cap = heap.cap
  BY <1>1, <1>2, EnteredWhole
<1>4. s \in Slots /\ ~IsEmpty(e.cap[s])
  BY <1>3, HandledSlot
<1>5. PICK x : x = Revoke(e, t, s)
  OBVIOUS
<1>6. Commit(x) \/ Commit(e)
  BY <1>1, <1>5 DEF RevokeCap, Then
<1>7. Whole(x, K) /\ SameSpaces(x, e)
  BY <1>3, <1>4, <1>5, RevokeWhole
<1>8. SameSpaces(x, heap) /\ SameSpaces(e, heap)
  BY <1>3, <1>7, TasksSpaces, SpacesStep
<1> QED BY <1>2, <1>3, <1>6, <1>7, <1>8, StepGood

LEMMA DestroyCapGood ==
  ASSUME Good(heap), NEW t \in Tasks, NEW s \in LookupHandled(t), DestroyCap(t, s)
  PROVE  Good(heap') /\ fault' \notin Failures
<1>1. PICK e : e = Entered(t)
  OBVIOUS
<1>2. PICK K : K = Kept(heap)
  OBVIOUS
<1>3. Whole(e, K) /\ SameTasks(e, heap) /\ e.cap = heap.cap
  BY <1>1, <1>2, EnteredWhole
<1>4. s \in Slots /\ ~IsEmpty(e.cap[s])
  BY <1>3, HandledSlot
<1>5. PICK x : x = Destroy(e, t, s)
  OBVIOUS
<1>6. Commit(x) \/ Commit(e)
  BY <1>1, <1>5 DEF DestroyCap, Then
<1>7. Whole(x, K) /\ SameSpaces(x, e)
  BY <1>3, <1>4, <1>5, DestroyWhole
<1>8. SameSpaces(x, heap) /\ SameSpaces(e, heap)
  BY <1>3, <1>7, TasksSpaces, SpacesStep
<1> QED BY <1>2, <1>3, <1>6, <1>7, <1>8, StepGood

(* sys_mem_cap_create_object: the object, or the slot given back           *)
LEMMA CreateGood ==
  ASSUME Good(heap), NEW t \in Tasks, NEW m \in LookupType(heap, t, "mem"),
         NEW size \in Nat, NEW align \in Nat, NEW type \in CapType \ {"null", "zombie"},
         NEW obj \in Tasks \cup Spaces \cup Nat \cup {Nil},
         type = "task" => obj \in Tasks, type = "cap_space" => obj \in Spaces,
         Create(t, m, size, align, type, obj)
  PROVE  Good(heap') /\ fault' \notin Failures
<1>1. PICK e : e = Entered(t)
  OBVIOUS
<1>2. PICK K : K = Kept(heap)
  OBVIOUS
<1>3. Whole(e, K) /\ SameTasks(e, heap) /\ e.cap = heap.cap /\ e.free = heap.free
  BY <1>1, <1>2, EnteredWhole
<1>4. m \in Slots /\ e.cap[m].type = "mem"
  BY <1>3, LookupSlot
<1>5. PICK x : x = CreateMemoryObject(e, t, m, size, align, type, obj)
  OBVIOUS
<1>6. PICK g : g = GiveBack(e, t)
  OBVIOUS
<1>7. (Commit(x) \/ Commit(g)) /\ e.free[t] # Nil
  BY <1>1, <1>3, <1>5, <1>6 DEF Create
<1>8. Whole(x, K) /\ SameTasks(x, e)
  BY <1>3, <1>4, <1>5, <1>7, CreateWhole
<1>9. Whole(g, K) /\ SameTasks(g, e)
  BY <1>3, <1>6, <1>7, GiveBackWhole
<1>10. SameSpaces(x, heap) /\ SameSpaces(g, heap)
  BY <1>3, <1>8, <1>9, TasksSpaces, TasksStep
<1> QED BY <1>2, <1>7, <1>8, <1>9, <1>10, StepGood

LEMMA CreateMemGood ==
  ASSUME Good(heap), NEW t \in Tasks, NEW m \in LookupType(heap, t, "mem"), CreateMem(t, m)
  PROVE  Good(heap') /\ fault' \notin Failures
<1>1. PICK r \in MemRequests : Create(t, m, r[1], r[2], "mem", Nil)
  BY DEF CreateMem
<1>2. PICK size \in Nat, align \in Nat : size = r[1] /\ align = r[2]
  BY CapAssumption
<1>3. PICK type \in CapType \ {"null", "zombie"} : type = "mem" /\ type # "task" /\ type # "cap_space"
  BY DEF CapType
<1>4. PICK obj \in Tasks \cup Spaces \cup Nat \cup {Nil} : obj = Nil
  OBVIOUS
<1>5. Create(t, m, size, align, type, obj)
  BY <1>1, <1>2, <1>3, <1>4
<1> QED BY <1>3, <1>5, CreateGood

LEMMA CreateOfGood ==
  ASSUME Good(heap), NEW t \in Tasks, NEW m \in LookupType(heap, t, "mem"),
         NEW type \in CapType \ {"null", "zombie", "task"},
         NEW obj \in Tasks \cup Spaces \cup Nat \cup {Nil},
         type = "cap_space" => obj \in Spaces, CreateOf(type, t, m, obj)
  PROVE  Good(heap') /\ fault' \notin Failures
<1>1. PICK size \in Nat : size = ObjectSize(type)
  BY DEF ObjectSize
<1>2. Create(t, m, size, size, type, obj)
  BY <1>1, Zenon DEF CreateOf
<1> QED BY <1>2, CreateGood

LEMMA CreateCapSpaceGood ==
  ASSUME Good(heap), NEW t \in Tasks, NEW m \in LookupType(heap, t, "mem"), CreateCapSpace(t, m)
  PROVE  Good(heap') /\ fault' \notin Failures
<1>1. PICK p : p = CHOOSE q \in FreshSpaces : TRUE
  OBVIOUS
<1>2. FreshSpaces # {}
  BY Zenon DEF CreateCapSpace
<1>3. p \in Spaces
  BY <1>1, <1>2 DEF FreshSpaces
<1>4. PICK type \in CapType \ {"null", "zombie", "task"} : type = "cap_space"
  BY DEF CapType
<1>5. CreateOf(type, t, m, p)
  BY <1>1, <1>4, Zenon DEF CreateCapSpace
<1> QED BY <1>3, <1>4, <1>5, CreateOfGood

LEMMA CreatePlainGood ==
  ASSUME Good(heap), NEW t \in Tasks, NEW m \in LookupType(heap, t, "mem"),
         NEW type \in {"endpoint", "page_table"}, CreateOf(type, t, m, Nil)
  PROVE  Good(heap') /\ fault' \notin Failures
<1>1. type \in CapType \ {"null", "zombie", "task"} /\ type # "cap_space"
  BY DEF CapType
<1>2. PICK obj \in Tasks \cup Spaces \cup Nat \cup {Nil} : obj = Nil
  OBVIOUS
<1>3. CreateOf(type, t, m, obj)
  BY <1>2
<1> QED BY <1>1, <1>3, CreateOfGood

(* create_task_object                                                      *)
LEMMA TaskObjectIntact ==
  ASSUME NEW h, Intact(h), NEW t \in Tasks, h.free[t] # Nil,
         NEW m \in Slots, h.cap[m].type = "mem", NEW sp \in Slots, h.cap[sp].type = "cap_space",
         h.owner[h.cap[sp].obj] = Nil, NEW v \in Tasks, h.state[v] = "unused",
         NEW x, x = CreateTaskObject(h, t, m, sp, v)
  PROVE  Intact(x)
<1>1. PICK size \in Nat : size = ObjectSize("task")
  BY DEF ObjectSize
<1>2. PICK type \in CapType \ {"null", "zombie"} : type = "task" /\ type # "cap_space"
  BY DEF CapType
<1>3. PICK obj \in Tasks \cup Spaces \cup Nat \cup {Nil} : obj = v
  OBVIOUS
<1>4. PICK y : y = CreateMemoryObject(h, t, m, size, size, type, obj)
  OBVIOUS
<1>5. PICK K : K = Kept(h)
  OBVIOUS
<1>6. Whole(h, K)
  BY <1>5 DEF Intact
<1>7. Whole(y, K) /\ SameTasks(y, h)
  BY <1>2, <1>3, <1>4, <1>6, CreateWhole
<1>8. Intact(y)
  BY <1>5, <1>7, TasksSpaces, IntactSame
<1>9. PICK p \in Spaces : p = h.cap[sp].obj
  BY DEF Intact, Whole, Sound, ObjectsNamed
<1>10. y.owner[p] = Nil /\ y.state[v] = "unused"
  BY <1>7, <1>9 DEF SameTasks
<1>11. x = InitTask(y, v, p)
  BY <1>1, <1>2, <1>3, <1>4, <1>9, Zenon DEF CreateTaskObject
<1> QED BY <1>8, <1>10, <1>11, InitTaskIntact

LEMMA CreateTaskGood ==
  ASSUME Good(heap), ~ReuseSpaces, NEW t \in Tasks, NEW m \in LookupType(heap, t, "mem"),
         NEW sp \in LookupType(heap, t, "cap_space"), CreateTask(t, m, sp)
  PROVE  Good(heap') /\ fault' \notin Failures
<1>1. PICK e : e = Entered(t)
  OBVIOUS
<1>2. PICK K : K = Kept(heap)
  OBVIOUS
<1>3. Whole(e, K) /\ SameTasks(e, heap) /\ e.cap = heap.cap /\ e.free = heap.free
  BY <1>1, <1>2, EnteredWhole
<1>4. Intact(e)
  BY <1>2, <1>3, TasksSpaces, IntactSame DEF Good
<1>5. PICK fresh : fresh = {v \in Tasks : heap.state[v] = "unused"}
  OBVIOUS
<1>6. PICK new : new = CHOOSE v \in fresh : TRUE
  OBVIOUS
<1>7. PICK g : g = GiveBack(e, t)
  OBVIOUS
<1>8. PICK r : r = Require(e, FALSE, "create_task_object: page tables")
  OBVIOUS
<1>9. PICK x : x = CreateTaskObject(e, t, m, sp, new)
  OBVIOUS
<1>10. /\ e.free[t] # Nil /\ fresh # {} /\ MayGive(heap.cap[sp].obj)
       /\ Commit(g) \/ Commit(r) \/ Commit(x)
  BY <1>1, <1>3, <1>5, <1>6, <1>7, <1>8, <1>9 DEF CreateTask
<1>11. m \in Slots /\ e.cap[m].type = "mem" /\ sp \in Slots /\ e.cap[sp].type = "cap_space"
  BY <1>3, LookupSlot
<1>12. new \in Tasks /\ e.state[new] = "unused"
  BY <1>3, <1>5, <1>6, <1>10 DEF SameTasks
<1>13. e.owner[e.cap[sp].obj] = Nil
  BY <1>3, <1>10 DEF MayGive, SameTasks
<1>14. Intact(x)
  BY <1>4, <1>9, <1>10, <1>11, <1>12, <1>13, TaskObjectIntact
<1>15. Intact(g)
  <2>1. Whole(g, K) /\ SameTasks(g, e)
    BY <1>3, <1>7, <1>10, GiveBackWhole
  <2>2. SameSpaces(g, heap)
    BY <1>3, <2>1, TasksSpaces, TasksStep
  <2> QED BY <1>2, <2>1, <2>2, IntactSame DEF Good
<1>16. Intact(r)
  <2>1. PICK why \in Halts \ Failures : why = "create_task_object: page tables"
    BY DEF Halts, Failures
  <2>2. r = e \/ r = [e EXCEPT !.halt = why]
    BY <1>8, <2>1 DEF Require
  <2>3. Whole(r, K) /\ SameTasks(r, e)
    BY <1>3, <2>2, HaltWhole
  <2>4. SameSpaces(r, heap)
    BY <1>3, <2>3, TasksSpaces, TasksStep
  <2> QED BY <1>2, <2>3, <2>4, IntactSame DEF Good
<1> QED BY <1>10, <1>14, <1>15, <1>16, CommitGood

(* Only the state of a task, the tasks that keep their locks and the       *)
(* extensions of cap spaces change.                                        *)
TaskStates == {"unused", "suspended", "active", "killed"}

StillUsed(st, h) == \A u \in Tasks : st[u] = "unused" => h.state[u] = "unused"
WithStates(h, st, stuck) == [h EXCEPT !.state = st, !.stuck = stuck]

LEMMA StateWhole ==
  ASSUME NEW h, NEW K, Whole(h, K), NEW st \in [Tasks -> TaskStates], NEW stuck \in SUBSET Tasks,
         StillUsed(st, h), NEW x, x = WithStates(h, st, stuck)
  PROVE  Whole(x, K) /\ SameSpaces(x, h)
<1>1. h \in HeapType /\ h.halt \notin Failures
  BY DEF Whole, Sound
<1>2. /\ x \in HeapType /\ SameSlots(x, h) /\ x.halt = h.halt /\ x.state = st
  BY <1>1 DEF HeapType, SameSlots, TaskStates, WithStates
<1>3. Whole(x, K)
  BY <1>1, <1>2, WholeSame
<1> QED BY <1>2, <1>3 DEF SameSpaces, SameSlots, StillUsed

LEMMA StateGood ==
  ASSUME Good(heap), NEW t, NEW v \in Tasks, NEW l, l = Lock(Entered(t), v),
         NEW state \in TaskStates \ {"unused"}, NEW stuck \in SUBSET Tasks,
         NEW x, x = [l EXCEPT !.state[v] = state, !.stuck = stuck], Commit(x)
  PROVE  Good(heap') /\ fault' \notin Failures
<1>1. PICK e : e = Entered(t)
  OBVIOUS
<1>2. PICK K : K = Kept(heap)
  OBVIOUS
<1>3. Whole(e, K) /\ SameTasks(e, heap)
  BY <1>1, <1>2, EnteredWhole
<1>4. Whole(l, K) /\ SameTasks(l, e)
  BY <1>1, <1>3, LockWhole
<1>5. l \in HeapType
  BY <1>4 DEF Whole, Sound
<1>6. PICK st : st = [l.state EXCEPT ![v] = state]
  OBVIOUS
<1>7. st \in [Tasks -> TaskStates] /\ StillUsed(st, l)
  BY <1>5, <1>6 DEF HeapType, TaskStates, StillUsed
<1>8. x = WithStates(l, st, stuck)
  BY <1>5, <1>6 DEF HeapType, WithStates
<1>9. Whole(x, K) /\ SameSpaces(x, l)
  BY <1>4, <1>7, <1>8, StateWhole
<1>10. SameSpaces(x, heap)
  BY <1>3, <1>4, <1>9, TasksStep, SpacesStep
<1> QED BY <1>2, <1>9, <1>10, StepGood

LEMMA LockStuck ==
  ASSUME Good(heap), NEW t, NEW v, NEW l, l = Lock(Entered(t), v)
  PROVE  l \in HeapType /\ l.stuck = heap.stuck /\ l.stuck \in SUBSET Tasks
<1>1. PICK e : e = Entered(t)
  OBVIOUS
<1>2. PICK K : K = Kept(heap)
  OBVIOUS
<1>3. Whole(e, K) /\ SameTasks(e, heap)
  BY <1>1, <1>2, EnteredWhole
<1>4. Whole(l, K) /\ SameTasks(l, e)
  BY <1>1, <1>3, LockWhole
<1>5. l \in HeapType
  BY <1>4 DEF Whole, Sound
<1> QED BY <1>3, <1>4, <1>5 DEF SameTasks, HeapType

LEMMA ResumeGood ==
  ASSUME Good(heap), NEW t \in Tasks, NEW v \in Tasks, ResumeTask(t, v)
  PROVE  Good(heap') /\ fault' \notin Failures
<1>1. PICK l : l = Lock(Entered(t), v)
  OBVIOUS
<1>2. l \in HeapType /\ l.stuck \in SUBSET Tasks
  BY <1>1, LockStuck
<1>3. PICK state \in TaskStates \ {"unused"} : state = "active"
  BY DEF TaskStates
<1>4. PICK stuck \in SUBSET Tasks : stuck = l.stuck
  BY <1>2
<1>5. PICK x : x = [l EXCEPT !.state[v] = state, !.stuck = stuck]
  OBVIOUS
<1>6. x = [l EXCEPT !.state[v] = "active"]
  BY <1>2, <1>3, <1>4, <1>5 DEF HeapType
<1>7. Commit(x)
  BY <1>1, <1>6 DEF ResumeTask
<1> QED BY <1>1, <1>5, <1>7, StateGood

LEMMA SuspendGood ==
  ASSUME Good(heap), NEW t \in Tasks, NEW v \in Tasks, SuspendTask(t, v)
  PROVE  Good(heap') /\ fault' \notin Failures
<1>1. PICK l : l = Lock(Entered(t), v)
  OBVIOUS
<1>2. l \in HeapType /\ l.stuck \in SUBSET Tasks
  BY <1>1, LockStuck
<1>3. PICK state \in TaskStates \ {"unused"} : state = "suspended"
  BY DEF TaskStates
<1>4. PICK stuck \in SUBSET Tasks : stuck = IF v = t THEN l.stuck \cup {t} ELSE l.stuck
  BY <1>2
<1>5. PICK x : x = [l EXCEPT !.state[v] = state, !.stuck = stuck]
  OBVIOUS
<1>6. x = [l EXCEPT !.state[v] = "suspended", !.stuck = IF v = t THEN @ \cup {t} ELSE @]
  BY <1>2, <1>3, <1>4, <1>5 DEF HeapType
<1>7. Commit(x)
  BY <1>1, <1>6 DEF SuspendTask
<1> QED BY <1>1, <1>5, <1>7, StateGood

LEMMA KillGood ==
  ASSUME Good(heap), NEW t \in Tasks, NEW v \in Tasks, Kill(t, v)
  PROVE  Good(heap') /\ fault' \notin Failures
<1>1. PICK e : e = Entered(t)
  OBVIOUS
<1>2. PICK K : K = Kept(heap)
  OBVIOUS
<1>3. Whole(e, K) /\ SameTasks(e, heap)
  BY <1>1, <1>2, EnteredWhole
<1>4. PICK held \in SUBSET Tasks : held = {}
  OBVIOUS
<1>5. PICK x : x = KillTask(e, t, v, held)
  OBVIOUS
<1>6. Commit(x)
  BY <1>1, <1>4, <1>5 DEF Kill
<1>7. Whole(x, K) /\ SameSpaces(x, e)
  BY <1>3, <1>5, KillWhole
<1>8. SameSpaces(x, heap)
  BY <1>3, <1>7, SpacesStep
<1> QED BY <1>2, <1>6, <1>7, <1>8, StepGood

LEMMA HandOverGood ==
  ASSUME Good(heap), NEW t \in Tasks, NEW v \in Tasks, NEW s \in LookupHandled(t),
         TransferCap(t, v, s) \/ DelegateCap(t, v, s)
  PROVE  Good(heap') /\ fault' \notin Failures
<1>1. PICK e : e = Entered(t)
  OBVIOUS
<1>2. PICK K : K = Kept(heap)
  OBVIOUS
<1>3. Whole(e, K) /\ SameTasks(e, heap) /\ e.cap = heap.cap /\ e.free = heap.free
  BY <1>1, <1>2, EnteredWhole
<1>4. PICK x : Commit(x) /\ (x = Transfer(e, v, s) \/ x = Delegate(e, v, s))
  BY <1>1 DEF TransferCap, DelegateCap
<1>5. e.free[v] # Nil /\ ~IsZombie(e.cap[s])
  BY <1>3 DEF TransferCap, DelegateCap, CanHandOver, CanPass, CanInsertCap
<1>6. s \in Slots /\ ~IsEmpty(e.cap[s])
  BY <1>3, HandledSlot
<1>7. Whole(x, K) /\ SameTasks(x, e)
  BY <1>3, <1>4, <1>5, <1>6, TransferWhole, DelegateWhole
<1>8. SameSpaces(x, heap)
  BY <1>3, <1>7, TasksSpaces, TasksStep
<1> QED BY <1>2, <1>4, <1>7, <1>8, StepGood

(* A cap space, or a page table, is marked used.                           *)
LEMMA MarkWhole ==
  ASSUME NEW h, NEW K, Whole(h, K), NEW s \in Slots, ~IsEmpty(h.cap[s]),
         NEW x, x = [h EXCEPT !.cap[s].flag = TRUE]
  PROVE  Whole(x, K) /\ SameTasks(x, h)
<1>1. h \in HeapType /\ h.cap[s] \in CapSet
  BY DEF Whole, Sound, HeapType
<1>2. PICK c : c = [h.cap[s] EXCEPT !.flag = TRUE]
  OBVIOUS
<1>3. c \in CapSet /\ c.type = h.cap[s].type /\ c.obj = h.cap[s].obj
  BY <1>1, <1>2 DEF CapSet
<1>4. Valid(c)
  <2>1. Valid(h.cap[s])
    BY HeldValid DEF Whole
  <2> QED BY <1>3, <2>1 DEF Valid, IsEmpty
<1>5. x = [h EXCEPT !.cap[s] = c]
  BY <1>1, <1>2
<1>6. Sound(x, K) /\ Updated(x, h, [h.cap EXCEPT ![s] = c], h.next, h.prev, h.free, h.count)
  BY <1>4, <1>5, ChangeSound DEF Whole
<1>7. \A u \in Slots : x.cap[u] = IF u = s THEN c ELSE h.cap[u]
  BY <1>1, <1>6 DEF Updated, HeapType
<1>8. x.next = h.next /\ SameTasks(x, h)
  BY <1>6 DEF Updated
<1> QED BY <1>3, <1>6, <1>7, <1>8 DEF Whole, ZombiesLead, IsZombie

LEMMA InsertSpaceGood ==
  ASSUME Good(heap), ~ReuseSpaces, NEW t \in Tasks, NEW v \in Tasks,
         NEW sp \in LookupType(heap, t, "cap_space"), InsertSpace(t, v, sp)
  PROVE  Good(heap') /\ fault' \notin Failures
<1>1. PICK e : e = Entered(t)
  OBVIOUS
<1>2. Whole(e, Kept(heap)) /\ SameTasks(e, heap) /\ e.cap = heap.cap
  BY <1>1, EnteredWhole
<1>3. Intact(e)
  BY <1>2, TasksSpaces, IntactSame DEF Good
<1>4. sp \in Slots /\ ~IsEmpty(heap.cap[sp]) /\ heap.cap[sp].type = "cap_space"
  BY LookupSlot
<1>5. PICK p \in Spaces : p = heap.cap[sp].obj
  BY <1>4 DEF Good, Intact, Whole, Sound, ObjectsNamed
<1>6. PICK y : y = InsertCapSpace(e, v, p)
  OBVIOUS
<1>7. PICK x : x = [y EXCEPT !.cap[sp].flag = TRUE]
  OBVIOUS
<1>8. heap.state[v] # "unused" /\ MayGive(p) /\ Commit(x)
  BY <1>1, <1>5, <1>6, <1>7 DEF InsertSpace
<1>9. e.state[v] # "unused" /\ e.owner[p] = Nil
  BY <1>2, <1>8 DEF SameTasks, MayGive
<1>10. Intact(y) /\ SameCaps(y, e)
  BY <1>3, <1>6, <1>9, InsertSpaceIntact
<1>11. ~IsEmpty(y.cap[sp])
  BY <1>2, <1>4, <1>10 DEF SameCaps
<1>12. PICK K : K = Kept(y)
  OBVIOUS
<1>13. Whole(y, K)
  BY <1>10, <1>12 DEF Intact
<1>14. Whole(x, K) /\ SameTasks(x, y)
  BY <1>4, <1>7, <1>11, <1>13, MarkWhole
<1>15. Intact(x)
  BY <1>10, <1>12, <1>14, TasksSpaces, IntactSame
<1> QED BY <1>8, <1>15, CommitGood

LEMMA ExtendWhole ==
  ASSUME NEW h, NEW K, Whole(h, K), NEW v \in Tasks, NEW x, x = ExtendCapSpace(h, v)
  PROVE  Whole(x, K) /\ SameSpaces(x, h) /\ x.cap = h.cap
<1>1. PICK l : l = Lock(h, v)
  OBVIOUS
<1>2. Whole(l, K) /\ SameTasks(l, h) /\ l.cap = h.cap
  BY <1>1, LockWhole
<1>3. l \in HeapType /\ l.halt \notin Failures
  BY <1>2 DEF Whole, Sound
<1>4. PICK n \in Nat : n = l.ext[v] + 1
  <2>1. l.ext[v] \in Nat
    BY <1>3 DEF HeapType
  <2> QED BY <2>1, NatSucc
<1>5. PICK q : q = [l.ext EXCEPT ![v] = n]
  OBVIOUS
<1>6. q \in [Tasks -> Nat]
  BY <1>3, <1>5 DEF HeapType
<1>7. x = [l EXCEPT !.ext = q]
  BY <1>1, <1>3, <1>4, <1>5 DEF ExtendCapSpace, HeapType
<1>8. x \in HeapType /\ SameSlots(x, l) /\ x.halt = l.halt /\ x.state = l.state
  BY <1>3, <1>6, <1>7 DEF HeapType, SameSlots
<1>9. Whole(x, K)
  BY <1>2, <1>3, <1>8, WholeSame
<1> QED BY <1>2, <1>8, <1>9 DEF SameSlots, SameTasks, SameSpaces

LEMMA ExtendSpaceGood ==
  ASSUME Good(heap), NEW t \in Tasks, NEW v \in Tasks,
         NEW pt \in LookupType(heap, t, "page_table"), ExtendSpace(t, v, pt)
  PROVE  Good(heap') /\ fault' \notin Failures
<1>1. PICK e : e = Entered(t)
  OBVIOUS
<1>2. PICK K : K = Kept(heap)
  OBVIOUS
<1>3. Whole(e, K) /\ SameTasks(e, heap) /\ e.cap = heap.cap
  BY <1>1, <1>2, EnteredWhole
<1>4. pt \in Slots /\ ~IsEmpty(heap.cap[pt])
  BY LookupSlot
<1>5. PICK y : y = ExtendCapSpace(e, v)
  OBVIOUS
<1>6. PICK x : x = [y EXCEPT !.cap[pt].flag = TRUE]
  OBVIOUS
<1>7. Commit(x)
  BY <1>1, <1>5, <1>6 DEF ExtendSpace
<1>8. Whole(y, K) /\ SameSpaces(y, e) /\ y.cap = e.cap
  BY <1>3, <1>5, ExtendWhole
<1>9. Whole(x, K) /\ SameTasks(x, y)
  BY <1>3, <1>4, <1>6, <1>8, MarkWhole
<1>10. SameSpaces(x, heap)
  BY <1>3, <1>8, <1>9 DEF SameSpaces, SameTasks
<1> QED BY <1>2, <1>7, <1>9, <1>10, StepGood

-----------------------------------------------------------------------------
(* The heap the root task boots with.                                      *)

LEMMA EmptyHeapIntact == Intact(EmptyHeap) /\ Idle(EmptyHeap)
<1>1. PICK h : h = EmptyHeap
  OBVIOUS
<1>2. /\ h.cap = [s \in Slots |-> NullCap] /\ h.prev = [s \in Slots |-> Nil]
      /\ h.next = [s \in Slots |-> Nil] /\ h.owner = [p \in Spaces |-> Nil]
      /\ h.state = [t \in Tasks |-> "unused"] /\ h.free = [t \in Tasks |-> Nil]
      /\ h.count = [t \in Tasks |-> 0] /\ h.spaces = [t \in Tasks |-> <<>>]
      /\ h.stuck = {} /\ h.halt = NoFault
  BY <1>1 DEF EmptyHeap
<1>3. h \in HeapType
  <2>1. NoFault \in Halts /\ NullCap \in CapSet /\ <<>> \in Seq(Spaces)
    BY NullCapType DEF Halts
  <2> QED BY <1>1, <2>1 DEF EmptyHeap, HeapType
<1>4. \A s \in Slots : IsEmpty(h.cap[s]) /\ h.next[s] = Nil /\ h.prev[s] = Nil /\ OwnerOf(h, s) = Nil
  BY <1>2, NullCapType DEF OwnerOf, Slots
<1>5. \A s \in Slots : h.cap[s].type = "null"
  BY <1>4 DEF IsEmpty
<1>6. Kept(h) = Slots
  <2>1. Kept(h) = Slots \cup {<<h.spaces[t][1], 0>> : t \in {u \in Tasks : h.spaces[u] # <<>>}}
    BY <1>4 DEF Kept
  <2>2. {u \in Tasks : h.spaces[u] # <<>>} = {}
    BY <1>2
  <2> QED BY <2>1, <2>2
<1>7. Sound(h, Slots)
  <2>1. h.halt \notin Failures
    BY <1>2, FaultsApart
  <2>2. ObjectsNamed(h)
    BY <1>5 DEF ObjectsNamed
  <2>3. Inverses(h.next, h.prev) /\ Acyclic(h.next) /\ Unmixed(h)
    BY <1>4, NilApart DEF Inverses, Acyclic, Unmixed
  <2>4. KeptBack(h, Slots) /\ FreeHeads(h, Slots) /\ NoOtherHead(h, Slots)
    BY <1>2, <1>4 DEF KeptBack, FreeHeads, NoOtherHead, IsUnused, IsIsolated, IsHead, IsTail
  <2>5. Counted(h, Slots)
    <3>1. \A t : EmptySlots(h, t, Slots) = {}
      BY DEF EmptySlots
    <3> QED BY <1>2, <3>1, FS_EmptySet, ZenonT(30) DEF Counted
  <2> QED BY <1>3, <2>1, <2>2, <2>3, <2>4, <2>5 DEF Sound
<1>8. ZombiesLead(h)
  BY <1>5 DEF ZombiesLead, IsZombie
<1>9. SpacesOwned(h)
  BY <1>2, NilApart DEF SpacesOwned, SpacesOf, Range
<1> QED BY <1>1, <1>2, <1>3, <1>6, <1>7, <1>8, <1>9 DEF Intact, Whole, Idle

(* insert_cap into a slot of the root task while it boots                  *)
Empty(h, s) == IsEmpty(h.cap[s])

LEMMA BootInsert ==
  ASSUME NEW h, NEW K, Whole(h, K), Idle(h), NEW s \in Slots \ K, OwnerOf(h, s) = Root, Empty(h, s),
         NEW c, Valid(c), ~IsZombie(c), NEW x, x = InsertCap(h, Root, c)
  PROVE  /\ Whole(x, K) /\ SameTasks(x, h) /\ Idle(x)
         /\ \A u \in Slots : u # h.free[Root] /\ Empty(h, u) => Empty(x, u)
<1>1. Root \in Tasks
  BY CapAssumption
<1>2. s \in EmptySlots(h, Root, K)
  BY DEF EmptySlots, Empty
<1>3. h.free[Root] # Nil
  BY <1>1, <1>2, FreeExists DEF Whole
<1>4. Whole(x, K) /\ SameTasks(x, h)
  BY <1>1, <1>3, InsertCapWhole
<1>5. h.free[Root] \in Slots /\ x.cap = [h.cap EXCEPT ![h.free[Root]] = c]
  <2>1. Sound(h, K)
    BY DEF Whole
  <2> QED BY <1>1, <1>3, <2>1, InsertCapSound
<1>6. Idle(x)
  <2>1. x \in HeapType /\ x.stuck = h.stuck
    BY <1>4 DEF Whole, Sound, SameTasks
  <2> QED BY <1>1, <1>5, <2>1, IdleInsertCap
<1>7. h \in HeapType
  BY DEF Idle
<1>8. \A u \in Slots : u # h.free[Root] => x.cap[u] = h.cap[u]
  BY <1>5, <1>7 DEF HeapType
<1> QED BY <1>4, <1>6, <1>8 DEF Empty

LEMMA BootGood == Good(BootHeap)
<1>1. Root \in Tasks /\ RootSpace \in Spaces
  BY CapAssumption
<1>2. PICK h : h = InitTask(EmptyHeap, Root, RootSpace)
  OBVIOUS
<1>3. PICK b : b = EmptyHeap
  OBVIOUS
<1>4. /\ Intact(b) /\ Idle(b) /\ b.state[Root] = "unused" /\ b.owner[RootSpace] = Nil
      /\ \A s \in Slots : IsEmpty(b.cap[s])
  BY <1>1, <1>3, EmptyHeapIntact, NullCapType DEF EmptyHeap
<1>5. Intact(h) /\ SameCaps(h, b) /\ h.owner[RootSpace] = Root /\ StaysIdle(h, b)
  <2>1. h = InitTask(b, Root, RootSpace)
    BY <1>2, <1>3
  <2> QED BY <1>1, <1>4, <2>1, InitTaskIntact
<1>6. Idle(h) /\ \A s \in Slots : Empty(h, s)
  BY <1>4, <1>5 DEF StaysIdle, SameCaps, Empty
<1>7. PICK K : K = Kept(h)
  OBVIOUS
<1>8. Whole(h, K)
  BY <1>5, <1>7 DEF Intact
<1>9. \A i \in 1..3 : <<RootSpace, i>> \in Slots \ K /\ OwnerOf(h, <<RootSpace, i>>) = Root
  <2> SUFFICES ASSUME NEW i \in 1..3
               PROVE  <<RootSpace, i>> \in Slots \ K /\ OwnerOf(h, <<RootSpace, i>>) = Root
    OBVIOUS
  <2>1. <<RootSpace, i>> \in Slots
    BY <1>1, CapAssumption DEF Slots
  <2>2. OwnerOf(h, <<RootSpace, i>>) = Root /\ Root # Nil
    BY <1>1, <1>5, NilApart DEF OwnerOf
  <2>3. \A p : <<RootSpace, i>> # <<p, 0>>
    OBVIOUS
  <2> QED BY <1>7, <2>1, <2>2, <2>3 DEF Kept
<1>10. PICK s1 \in Slots, s2 \in Slots, s3 \in Slots :
         /\ s1 # s2 /\ s2 # s3 /\ s1 # s3
         /\ s1 \notin K /\ s2 \notin K /\ s3 \notin K
         /\ OwnerOf(h, s1) = Root /\ OwnerOf(h, s2) = Root /\ OwnerOf(h, s3) = Root
  <2>1. <<RootSpace, 1>> # <<RootSpace, 2>> /\ <<RootSpace, 2>> # <<RootSpace, 3>>
        /\ <<RootSpace, 1>> # <<RootSpace, 3>> /\ 1 \in 1..3 /\ 2 \in 1..3 /\ 3 \in 1..3
    OBVIOUS
  <2> QED BY <1>9, <2>1
<1>11. PICK c1 : c1 = MakeCap("task", Root, 0, 0)
  OBVIOUS
<1>12. PICK c2 : c2 = [MakeCap("cap_space", RootSpace, 0, 0) EXCEPT !.flag = TRUE]
  OBVIOUS
<1>13. PICK c3 : c3 = MakeCap("mem", Nil, MemBase, MemSize)
  OBVIOUS
<1>14. Valid(c1) /\ ~IsZombie(c1)
  BY <1>1, <1>11 DEF Valid, IsZombie, IsEmpty, MakeCap, CapSet, CapType
<1>15. Valid(c2) /\ ~IsZombie(c2)
  BY <1>1, <1>12 DEF Valid, IsZombie, IsEmpty, MakeCap, CapSet, CapType
<1>16. Valid(c3) /\ ~IsZombie(c3)
  BY <1>13, CapAssumption DEF Valid, IsZombie, IsEmpty, MakeCap, CapSet, CapType
<1>17. PICK x : x = InsertCap(h, Root, c1)
  OBVIOUS
<1>18. /\ Whole(x, K) /\ SameTasks(x, h) /\ Idle(x)
       /\ \A u \in Slots : u # h.free[Root] => Empty(x, u)
  <2>1. s1 \in Slots \ K
    BY <1>10
  <2>2. /\ Whole(x, K) /\ SameTasks(x, h) /\ Idle(x)
        /\ \A u \in Slots : u # h.free[Root] /\ Empty(h, u) => Empty(x, u)
    BY <1>6, <1>8, <1>10, <1>14, <1>17, <2>1, BootInsert
  <2> QED BY <1>6, <2>2
<1>19. PICK y : y = InsertCap(x, Root, c2)
  OBVIOUS
<1>20. /\ Whole(y, K) /\ SameTasks(y, x) /\ Idle(y)
       /\ \A u \in Slots : u # h.free[Root] /\ u # x.free[Root] => Empty(y, u)
  <2>1. PICK s \in Slots \ K : s # h.free[Root] /\ OwnerOf(h, s) = Root
    BY <1>10
  <2>2. Empty(x, s) /\ OwnerOf(x, s) = Root
    BY <1>18, <2>1 DEF OwnerOf, SameTasks
  <2>3. /\ Whole(y, K) /\ SameTasks(y, x) /\ Idle(y)
        /\ \A u \in Slots : u # x.free[Root] /\ Empty(x, u) => Empty(y, u)
    BY <1>15, <1>18, <1>19, <2>2, BootInsert
  <2> QED BY <1>18, <2>3
<1>21. PICK z : z = InsertCap(y, Root, c3)
  OBVIOUS
<1>22. Whole(z, K) /\ SameTasks(z, y) /\ Idle(z)
  <2>1. PICK s \in Slots \ K : s # h.free[Root] /\ s # x.free[Root] /\ OwnerOf(h, s) = Root
    BY <1>10
  <2>2. Empty(y, s) /\ OwnerOf(y, s) = Root
    BY <1>18, <1>20, <2>1 DEF OwnerOf, SameTasks
  <2> QED BY <1>16, <1>20, <1>21, <2>2, BootInsert
<1>23. SameSpaces(z, h)
  BY <1>18, <1>20, <1>22, TasksStep, TasksSpaces
<1>24. Intact(z)
  BY <1>5, <1>7, <1>22, <1>23, IntactSame
<1>25. BootHeap = z
  BY <1>2, <1>11, <1>12, <1>13, <1>17, <1>19, <1>21, Zenon DEF BootHeap
<1> QED BY <1>22, <1>24, <1>25 DEF Good, Idle

-----------------------------------------------------------------------------
(* Every step.                                                             *)

ByCaller(t) == CreateId(t) \/ Query(t) \/ \E v \in Tasks : Message(t, v)
OnSlot(t) == \E s \in LookupHandled(t) : CopyCap(t, s) \/ RevokeCap(t, s) \/ DestroyCap(t, s)
OnMemory(t) ==
  \E m \in LookupType(heap, t, "mem") :
    \/ CreateMem(t, m) \/ CreateCapSpace(t, m)
    \/ \E type \in {"endpoint", "page_table"} : CreateOf(type, t, m, Nil)
    \/ \E sp \in LookupType(heap, t, "cap_space") : CreateTask(t, m, sp)
OnTask(t, v) ==
  \/ ResumeTask(t, v) \/ SuspendTask(t, v) \/ Kill(t, v)
  \/ \E s \in LookupHandled(t) : TransferCap(t, v, s) \/ DelegateCap(t, v, s)
  \/ \E sp \in LookupType(heap, t, "cap_space") : InsertSpace(t, v, sp)
  \/ \E pt \in LookupType(heap, t, "page_table") : ExtendSpace(t, v, pt)

LEMMA NextCases ==
  ASSUME Next
  PROVE  \/ \E t \in Tasks : ByCaller(t) \/ OnSlot(t) \/ OnMemory(t)
         \/ \E t \in Tasks : \E tc \in LookupType(heap, t, "task") : OnTask(t, heap.cap[tc].obj)
         \/ Halted
BY Zenon DEF Next, ByCaller, OnSlot, OnMemory, OnTask

LEMMA OnMemoryGood ==
  ASSUME Good(heap), ~ReuseSpaces, NEW t \in Tasks, OnMemory(t)
  PROVE  Good(heap') /\ fault' \notin Failures
<1>1. PICK m \in LookupType(heap, t, "mem") :
        \/ CreateMem(t, m) \/ CreateCapSpace(t, m)
        \/ \E type \in {"endpoint", "page_table"} : CreateOf(type, t, m, Nil)
        \/ \E sp \in LookupType(heap, t, "cap_space") : CreateTask(t, m, sp)
  BY DEF OnMemory
<1>2. CASE CreateMem(t, m)
  BY <1>2, CreateMemGood
<1>3. CASE CreateCapSpace(t, m)
  BY <1>3, CreateCapSpaceGood
<1>4. CASE \E type \in {"endpoint", "page_table"} : CreateOf(type, t, m, Nil)
  BY <1>4, CreatePlainGood
<1>5. CASE \E sp \in LookupType(heap, t, "cap_space") : CreateTask(t, m, sp)
  BY <1>5, CreateTaskGood
<1> QED BY <1>1, <1>2, <1>3, <1>4, <1>5

LEMMA OnTaskGood ==
  ASSUME Good(heap), ~ReuseSpaces, NEW t \in Tasks, NEW v \in Tasks, OnTask(t, v)
  PROVE  Good(heap') /\ fault' \notin Failures
<1>1. CASE ResumeTask(t, v)
  BY <1>1, ResumeGood
<1>2. CASE SuspendTask(t, v)
  BY <1>2, SuspendGood
<1>3. CASE Kill(t, v)
  BY <1>3, KillGood
<1>4. CASE \E s \in LookupHandled(t) : TransferCap(t, v, s) \/ DelegateCap(t, v, s)
  BY <1>4, HandOverGood
<1>5. CASE \E sp \in LookupType(heap, t, "cap_space") : InsertSpace(t, v, sp)
  BY <1>5, InsertSpaceGood
<1>6. CASE \E pt \in LookupType(heap, t, "page_table") : ExtendSpace(t, v, pt)
  BY <1>6, ExtendSpaceGood
<1> QED BY <1>1, <1>2, <1>3, <1>4, <1>5, <1>6 DEF OnTask

LEMMA NextGood ==
  ASSUME Good(heap), ~ReuseSpaces, fault \notin Failures, [Next]_vars
  PROVE  Good(heap') /\ fault' \notin Failures
<1>1. CASE UNCHANGED vars
  BY <1>1 DEF vars
<1>2. CASE Halted
  BY <1>2 DEF Halted, vars
<1>3. CASE \E t \in Tasks : ByCaller(t) \/ OnSlot(t) \/ OnMemory(t)
  <2>1. PICK t \in Tasks : ByCaller(t) \/ OnSlot(t) \/ OnMemory(t)
    BY <1>3
  <2>2. CASE ByCaller(t)
    BY <2>2, CreateIdGood, QueryGood, MessageGood DEF ByCaller
  <2>3. CASE OnSlot(t)
    BY <2>3, CopyCapGood, RevokeCapGood, DestroyCapGood DEF OnSlot
  <2>4. CASE OnMemory(t)
    BY <2>4, OnMemoryGood
  <2> QED BY <2>1, <2>2, <2>3, <2>4
<1>4. CASE \E t \in Tasks : \E tc \in LookupType(heap, t, "task") : OnTask(t, heap.cap[tc].obj)
  <2>0. PICK t \in Tasks : \E tc \in LookupType(heap, t, "task") : OnTask(t, heap.cap[tc].obj)
    BY <1>4
  <2>1. PICK tc \in LookupType(heap, t, "task") : OnTask(t, heap.cap[tc].obj)
    BY <2>0
  <2>2. tc \in Slots /\ heap.cap[tc].type = "task"
    BY LookupSlot
  <2>3. PICK v \in Tasks : v = heap.cap[tc].obj
    BY <2>2 DEF Good, Intact, Whole, Sound, ObjectsNamed
  <2> QED BY <2>1, <2>3, OnTaskGood
<1> QED BY <1>1, <1>2, <1>3, <1>4, NextCases

(* Whatever tasks create, copy, transfer, delegate, revoke and destroy, in *)
(* whatever order: every slot is in one sound list, each list is one       *)
(* derivation list or the free list of one task, free_slots_count is       *)
(* exact, and no zombie ends its list (cap_space.cpp, task.cpp, cap.cpp).  *)
THEOREM SlotsStaySound ==
  ASSUME ~ReuseSpaces
  PROVE  Spec => []SlotInvariant
<1> DEFINE I == Good(heap) /\ fault \notin Failures
<1>1. Init => I
  BY BootGood, FaultsApart DEF Init
<1>2. I /\ [Next]_vars => I'
  BY NextGood
<1>3. I => SlotInvariant
  BY InvariantIsGood
<1> QED BY <1>1, <1>2, <1>3, PTL DEF Spec

(* None of the assertions of cap_space.cpp, cap.cpp and task.cpp about the *)
(* lists can fail, as long as no cap space is given to two tasks.          *)
THEOREM AssertionsAlwaysHold ==
  ASSUME ~ReuseSpaces
  PROVE  Spec => []AssertionsHold
<1> DEFINE I == Good(heap) /\ fault \notin Failures
<1>1. Init => I
  BY BootGood, FaultsApart DEF Init
<1>2. I /\ [Next]_vars => I'
  BY NextGood
<1>3. I => AssertionsHold
  BY DEF AssertionsHold
<1> QED BY <1>1, <1>2, <1>3, PTL DEF Spec

(* Slots, tasks and counts have their types.                               *)
THEOREM HeapTypeCorrect ==
  ASSUME ~ReuseSpaces
  PROVE  Spec => []TypeOK
<1>1. SlotInvariant => TypeOK
  <2> SUFFICES ASSUME Good(heap) PROVE TypeOK
    BY InvariantIsGood
  <2>1. heap \in HeapType /\ ObjectsNamed(heap) /\ Counted(heap, Kept(heap)) /\ heap.halt = NoFault
    BY DEF Good, Intact, Whole, Sound
  <2>2. ASSUME NEW s \in Slots
        PROVE  /\ heap.cap[s] \in CapSet
               /\ heap.prev[s] \in Slots \cup {Nil} /\ heap.next[s] \in Slots \cup {Nil}
    BY <2>1 DEF HeapType
  <2>3. ASSUME NEW t \in Tasks
        PROVE  /\ heap.state[t] \in {"unused", "suspended", "active", "killed"}
               /\ heap.free[t] \in Slots \cup {Nil} /\ heap.ext[t] \in Nat
               /\ heap.spaces[t] \in Seq(Spaces)
    BY <2>1 DEF HeapType
  <2>4. ASSUME NEW t \in Tasks PROVE heap.count[t] \in Nat
    BY <2>1, EmptyFinite DEF Counted
  <2>5. heap.stuck \subseteq Tasks
    BY <2>1 DEF HeapType
  <2>6. ASSUME NEW s \in Slots
        PROVE  LET c == heap.cap[s]
               IN  /\ c.type \in CapType /\ {c.base, c.size, c.used} \subseteq Nat
                   /\ c.type = "task" => c.obj \in Tasks
                   /\ c.type = "cap_space" => c.obj \in Spaces
                   /\ c.flag \in BOOLEAN
    BY <2>1, <2>2 DEF CapSet, ObjectsNamed
  <2> QED BY <2>1, <2>2, <2>3, <2>4, <2>5, <2>6 DEF TypeOK
<1> QED BY <1>1, SlotsStaySound, PTL

(* What follows a zombie in its list leads to the capability it stands     *)
(* for, so that a delegation can be revoked (revoke_cap, is_same_object).  *)
THEOREM DelegationsBacked ==
  ASSUME ~ReuseSpaces
  PROVE  Spec => []ZombieBacked
<1>1. SlotInvariant => ZombieBacked
  <2> SUFFICES ASSUME Good(heap), NEW s \in Slots PROVE Resolve(heap, s) # Nil
    BY InvariantIsGood DEF ZombieBacked
  <2>1. PICK K : Whole(heap, K)
    BY DEF Good, Intact
  <2>2. PICK c : c = Chain(heap, s)
    OBVIOUS
  <2>3. PICK i \in 1..Len(c) : Resolve(heap, s) = c[i]
    BY <2>1, <2>2, ResolveExists
  <2>4. IsChain(heap.next, s, c)
    BY <2>1, <2>2, ChainFacts, HeapLinks DEF Whole, Sound
  <2> QED BY <2>3, <2>4, NilApart DEF IsChain
<1> QED BY <1>1, SlotsStaySound, PTL

(* next and prev are inverse of each other, no list is a cycle and none    *)
(* mixes free slots with capabilities (erase_this, insert_before,          *)
(* insert_after, replace).                                                 *)
THEOREM ListsStayLinked ==
  ASSUME ~ReuseSpaces
  PROVE  Spec => []ListsLinked
<1>1. SlotInvariant => ListsLinked
  <2> SUFFICES ASSUME Good(heap), NEW s \in Slots, heap.next[s] # Nil
               PROVE  /\ heap.prev[heap.next[s]] = s
                      /\ s \notin Range(Chain(heap, heap.next[s]))
                      /\ IsEmpty(heap.cap[s]) <=> IsEmpty(heap.cap[heap.next[s]])
    BY InvariantIsGood DEF ListsLinked
  <2>1. /\ heap \in HeapType /\ Inverses(heap.next, heap.prev) /\ Acyclic(heap.next)
        /\ Unmixed(heap)
    BY DEF Good, Intact, Whole, Sound
  <2>2. heap.next \in LinkFns
    BY <2>1, HeapLinks
  <2>3. PICK n \in Slots : n = heap.next[s]
    BY <2>2 DEF LinkFns
  <2>4. PICK c : c = Chain(heap, n)
    OBVIOUS
  <2>5. IsChain(heap.next, n, c)
    BY <2>1, <2>2, <2>4, ChainFacts
  <2>6. PICK l \in Nat : l = Len(c) /\ l > 0
    BY <2>5 DEF IsChain
  <2>7. s \notin Range(c)
    <3> SUFFICES ASSUME s \in Range(c) PROVE FALSE
      OBVIOUS
    <3>1. DOMAIN c = 1..l
      BY <2>5, <2>6, LenProperties DEF IsChain
    <3>2. PICK i \in 1..l : c[i] = s
      BY <3>1 DEF Range
    <3>3. CASE i = l
      BY <2>3, <2>5, <2>6, <3>2, <3>3, NilApart DEF IsChain
    <3>4. CASE i # l
      <4>1. i \in 1..(l - 1) /\ i + 1 \in 1..l /\ 1 \in 1..l /\ i + 1 # 1
        BY <3>4
      <4>2. c[i + 1] = c[1]
        BY <2>3, <2>5, <2>6, <3>2, <4>1 DEF IsChain
      <4> QED BY <2>5, <2>6, <4>1, <4>2 DEF IsChain
    <3> QED BY <3>3, <3>4
  <2> QED BY <2>1, <2>3, <2>4, <2>7 DEF Inverses, Unmixed
<1> QED BY <1>1, SlotsStaySound, PTL

(* The list behind free_slots is exactly the empty slots of its task.      *)
LEMMA FreeListHolds ==
  ASSUME NEW h, NEW K, Sound(h, K), NEW t \in Tasks, NEW s \in Slots, s = h.free[t],
         NEW c, c = Chain(h, s)
  PROVE  IsChain(h.next, s, c) /\ \A i \in 1..Len(c) : c[i] \in EmptySlots(h, t, K)
<1>1. h.next \in LinkFns /\ Acyclic(h.next) /\ Unmixed(h) /\ h.prev \in LinkFns
      /\ Inverses(h.next, h.prev)
  BY HeapLinks DEF Sound
<1>2. IsChain(h.next, s, c)
  BY <1>1, ChainFacts
<1>3. PICK n \in Nat : n = Len(c) /\ n > 0
  BY <1>2 DEF IsChain
<1>4. /\ c[1] = s /\ \A i \in 1..n : c[i] \in Slots
      /\ \A i \in 1..(n - 1) : h.next[c[i]] = c[i + 1]
  BY <1>2, <1>3 DEF IsChain
<1>5. s \in EmptySlots(h, t, K)
  BY NilApart DEF Sound, FreeHeads, EmptySlots
<1>6. ASSUME NEW u \in EmptySlots(h, t, K), NEW q \in Slots, h.next[u] = q
      PROVE  q \in EmptySlots(h, t, K)
  <2>1. u \in Slots /\ IsEmpty(h.cap[u]) /\ OwnerOf(h, u) = t /\ q # Nil
    BY NilApart DEF EmptySlots
  <2>2. IsEmpty(h.cap[q]) /\ OwnerOf(h, q) = t /\ h.prev[q] = u
    BY <1>1, <1>6, <2>1 DEF Unmixed, Inverses
  <2>3. q \notin K
    BY <2>1, <2>2, NilApart DEF Sound, KeptBack, IsUnused, IsIsolated, IsHead
  <2> QED BY <2>2, <2>3 DEF EmptySlots
<1> DEFINE bad == {i \in 1..n : c[i] \notin EmptySlots(h, t, K)}
<1>7. bad = {}
  <2> SUFFICES ASSUME bad # {} PROVE FALSE
    OBVIOUS
  <2>1. bad \in SUBSET Nat
    OBVIOUS
  <2>2. PICK i \in bad : \A j \in bad : i <= j
    BY <2>1, LeastOf
  <2>3. i \in 1..n /\ i # 1 /\ c[i] \notin EmptySlots(h, t, K)
    BY <1>4, <1>5, <2>2
  <2>4. i - 1 \in 1..(n - 1) /\ i - 1 \in 1..n /\ i - 1 + 1 = i /\ ~(i <= i - 1)
    BY <2>3
  <2>5. i - 1 \notin bad
    <3> HIDE DEF bad
    <3> QED BY <2>2, <2>4
  <2>6. c[i - 1] \in EmptySlots(h, t, K)
    BY <2>4, <2>5
  <2>7. h.next[c[i - 1]] = c[i] /\ c[i] \in Slots
    BY <1>4, <2>3, <2>4
  <2> QED BY <1>6, <2>3, <2>6, <2>7
<1> QED BY <1>2, <1>3, <1>7

LEMMA FreeListExact ==
  ASSUME NEW h, NEW K, Sound(h, K), NEW t \in Tasks, NEW s \in Slots, s = h.free[t],
         NEW c, c = Chain(h, s)
  PROVE  Range(c) = EmptySlots(h, t, K) /\ Len(c) = Cardinality(EmptySlots(h, t, K))
<1>1. IsChain(h.next, s, c) /\ \A i \in 1..Len(c) : c[i] \in EmptySlots(h, t, K)
  BY FreeListHolds
<1>2. PICK n \in Nat : n = Len(c) /\ n > 0
  BY <1>1 DEF IsChain
<1>3. /\ c[1] = s /\ h.next[c[n]] = Nil
      /\ \A i \in 1..(n - 1) : h.next[c[i]] = c[i + 1]
      /\ \A i, j \in 1..n : c[i] = c[j] => i = j
  BY <1>1, <1>2 DEF IsChain
<1>4. DOMAIN c = 1..n /\ c \in [1..n -> Slots]
  BY <1>1, <1>2, LenProperties DEF IsChain
<1>5. PICK E : E = EmptySlots(h, t, K)
  OBVIOUS
<1>6. Range(c) \subseteq E
  BY <1>1, <1>2, <1>4, <1>5 DEF Range
<1>7. \A i \in 1..n : c[i] \in Range(c)
  BY <1>4 DEF Range
<1>8. E \subseteq Range(c)
  <2> SUFFICES ASSUME E \ Range(c) # {} PROVE FALSE
    OBVIOUS
  <2>1. h.next \in LinkFns /\ h.prev \in LinkFns /\ Inverses(h.next, h.prev) /\ Acyclic(h.next)
    BY HeapLinks DEF Sound
  <2>2. E \ Range(c) \in SUBSET Slots
    BY <1>5 DEF EmptySlots
  <2>3. PICK u \in E \ Range(c) : h.prev[u] \notin E \ Range(c)
    BY <2>1, <2>2, Rooted
  <2>4. u \in Slots \ K /\ OwnerOf(h, u) = t /\ IsEmpty(h.cap[u]) /\ u \notin Range(c)
    BY <1>5, <2>3 DEF EmptySlots
  <2>5. h.prev[u] # Nil
    <3> SUFFICES ASSUME h.prev[u] = Nil PROVE FALSE
      OBVIOUS
    <3>1. h.free[t] = u
      BY <2>4 DEF Sound, NoOtherHead, IsHead
    <3>2. 1 \in 1..n
      BY <1>2
    <3> QED BY <1>3, <1>7, <2>4, <3>1, <3>2
  <2>6. PICK p \in Slots : p = h.prev[u]
    BY <2>1, <2>4, <2>5 DEF LinkFns
  <2>7. h.next[p] = u /\ u # Nil
    BY <2>1, <2>4, <2>5, <2>6, NilApart DEF Inverses
  <2>8. p \in E
    <3>1. IsEmpty(h.cap[p]) /\ OwnerOf(h, p) = t
      BY <2>4, <2>6, <2>7 DEF Sound, Unmixed
    <3>2. p \notin K
      BY <2>7 DEF Sound, KeptBack, IsUnused, IsIsolated, IsTail
    <3> QED BY <1>5, <2>6, <3>1, <3>2 DEF EmptySlots
  <2>9. PICK i \in 1..n : c[i] = p
    BY <1>4, <2>3, <2>6, <2>8 DEF Range
  <2>10. CASE i = n
    BY <1>3, <2>7, <2>9, <2>10
  <2>11. CASE i # n
    <3>1. i \in 1..(n - 1) /\ i + 1 \in 1..n
      BY <2>11
    <3>2. c[i + 1] = u
      BY <1>3, <2>7, <2>9, <3>1
    <3> QED BY <1>7, <2>4, <3>1, <3>2
  <2> QED BY <2>10, <2>11
<1>9. Range(c) = E
  BY <1>6, <1>8
<1>10. ExistsBijection(1..n, E)
  <2>1. c \in Bijection(1..n, E)
    <3>1. c \in [1..n -> E]
      BY <1>1, <1>2, <1>4, <1>5
    <3>2. \A e \in E : \E i \in 1..n : c[i] = e
      BY <1>4, <1>9 DEF Range
    <3>3. IsInjective(c)
      BY <1>3, <1>4 DEF IsInjective
    <3> QED BY <3>1, <3>2, <3>3, Zenon DEF Bijection, Injection, Surjection
  <2> QED BY <2>1 DEF ExistsBijection
<1>11. IsFiniteSet(1..n) /\ Cardinality(1..n) = n
  <2>1. IsFiniteSet(1..n) /\ Cardinality(1..n) = IF 1 > n THEN 0 ELSE n - 1 + 1
    BY FS_Interval
  <2> QED BY <1>2, <2>1
<1>12. Cardinality(E) = n
  BY <1>10, <1>11, FS_Bijection
<1> QED BY <1>2, <1>5, <1>9, <1>12

(* The only slot of a task that is kept back is its first.                 *)
LEMMA KeptSlots ==
  ASSUME NEW h \in HeapType, SpacesOwned(h), NEW t \in Tasks, NEW s \in Slots, OwnerOf(h, s) = t
  PROVE  s \in Kept(h) <=> s = <<h.spaces[t][1], 0>>
<1>1. \A u \in Tasks : h.spaces[u] \in Seq(Spaces)
  BY DEF HeapType
<1>2. ASSUME NEW u \in Tasks, h.spaces[u] # <<>>
      PROVE  h.spaces[u][1] \in Spaces /\ h.owner[h.spaces[u][1]] = u
  <2>1. PICK q \in Seq(Spaces) : q = h.spaces[u]
    BY <1>1
  <2>2. 1 \in DOMAIN q /\ q[1] \in Spaces
    BY <1>2, <2>1, EmptySeq, LenProperties
  <2>3. q[1] \in Range(q)
    BY <2>2 DEF Range
  <2> QED BY <2>1, <2>2, <2>3 DEF SpacesOwned, SpacesOf
<1>3. s[1] \in Spaces /\ h.owner[s[1]] = t /\ t # Nil
  BY NilApart DEF Slots, OwnerOf
<1>4. h.spaces[t] # <<>>
  BY <1>3 DEF SpacesOwned, SpacesOf, Range
<1>5. CASE s = <<h.spaces[t][1], 0>>
  BY <1>4, <1>5 DEF Kept
<1>6. CASE s \in Kept(h)
  <2>1. PICK u \in Tasks : h.spaces[u] # <<>> /\ s = <<h.spaces[u][1], 0>>
    BY <1>3, <1>6 DEF Kept, OwnerOf
  <2>2. s[1] = h.spaces[u][1]
    BY <2>1
  <2>3. u = t
    BY <1>2, <1>3, <2>1, <2>2
  <2> QED BY <1>6, <2>1, <2>3
<1> QED BY <1>5, <1>6

(* The free list of a task is exactly the empty slots of its spaces, less  *)
(* the first of all, and free_slots_count counts it: no slot is lost and   *)
(* none is handed out twice (push_free_slots, pop_free_slots).             *)
THEOREM SlotsStayAccounted ==
  ASSUME ~ReuseSpaces
  PROVE  Spec => []SlotsAccounted
<1>1. SlotInvariant => SlotsAccounted
  <2> SUFFICES ASSUME Good(heap), NEW t \in Tasks, NEW free,
                      free = IF heap.free[t] = Nil THEN <<>> ELSE Chain(heap, heap.free[t])
               PROVE  /\ heap.count[t] = Len(free)
                      /\ heap.free[t] # Nil => IsHead(heap, heap.free[t])
                      /\ Range(free) =
                            {s \in Slots : /\ OwnerOf(heap, s) = t /\ IsEmpty(heap.cap[s])
                                           /\ s # <<heap.spaces[t][1], 0>>}
    BY InvariantIsGood DEF SlotsAccounted
  <2>1. PICK K : K = Kept(heap)
    OBVIOUS
  <2>2. /\ heap \in HeapType /\ SpacesOwned(heap) /\ Sound(heap, K)
        /\ FreeHeads(heap, K) /\ Counted(heap, K)
    BY <2>1 DEF Good, Intact, Whole, Sound
  <2>3. EmptySlots(heap, t, K) =
          {s \in Slots : /\ OwnerOf(heap, s) = t /\ IsEmpty(heap.cap[s])
                         /\ s # <<heap.spaces[t][1], 0>>}
    BY <2>1, <2>2, KeptSlots DEF EmptySlots
  <2>4. heap.free[t] # Nil => IsHead(heap, heap.free[t])
    BY <2>2 DEF FreeHeads
  <2>5. Range(free) = EmptySlots(heap, t, K) /\ Len(free) = Cardinality(EmptySlots(heap, t, K))
    <3>1. CASE heap.free[t] = Nil
      <4>1. EmptySlots(heap, t, K) = {}
        BY <2>2, <3>1, FreeExists
      <4>2. free = <<>> /\ Len(<<>>) = 0 /\ Range(<<>>) = {}
        BY <3>1 DEF Range
      <4> QED BY <4>1, <4>2, FS_EmptySet
    <3>2. CASE heap.free[t] # Nil
      <4>1. PICK s \in Slots : s = heap.free[t]
        BY <2>2, <3>2 DEF HeapType
      <4>2. free = Chain(heap, s)
        BY <3>2, <4>1
      <4> QED BY <2>2, <4>1, <4>2, FreeListExact
    <3> QED BY <3>1, <3>2
  <2>6. heap.count[t] = Len(free)
    BY <2>2, <2>5 DEF Counted
  <2> QED BY <2>3, <2>4, <2>5, <2>6
<1> QED BY <1>1, SlotsStaySound, PTL
=============================================================================
