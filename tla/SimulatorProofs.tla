--------------------------- MODULE SimulatorProofs ---------------------------
(***************************************************************************)
(* The two deterministic simulators of the experiments.  Topic 45's flash  *)
(* translation layer, for any number of pages in a block, of blocks, and   *)
(* of spare blocks from the reserve up: the maps and the counters stay     *)
(* consistent, nothing is written over, the device never panics, and every *)
(* collection keeps the logical pages and gains space.  Topic 35's         *)
(* overload simulator, for any simulation and any policy: the server is    *)
(* first-in first-out and never idles while an attempt waits, and the      *)
(* attempts of a request follow one another at its timeouts.               *)
(***************************************************************************)
EXTENDS Ftl, Overload, TLAPS, WellFoundedInduction, SequenceTheorems, FiniteSetTheorems

-----------------------------------------------------------------------------
(* The flash translation layer *)

Offsets == 0..(PagesPerBlock - 1)

\* The positions of block b that the map f gives a logical page.
MappedIn(f, b) == {i \in Offsets : f[PageOf(b, i)] # None}

\* What a collection has done so far, and why it will not run out: the pages
\* of the victim already looked at are no longer mapped, and if no erased
\* block is left, the rest of the active block holds the victim's valid pages.
CollectionHasRoom ==
  IF victim = None
  THEN free # <<>>
  ELSE /\ victim # active
       /\ \A i \in 0..(next - 1) : p2l[PageOf(victim, i)] = None
       /\ free # <<>> \/ valid[victim] <= PagesPerBlock - wp

IInv == TypeOK /\ MappingIsConsistent /\ ErasedSpaceIsEmpty /\ CollectionHasRoom

-----------------------------------------------------------------------------
(* Pages and blocks *)

\* A nonempty set of naturals has a least one.
LEMMA MinExists ==
  ASSUME NEW T, T \subseteq Nat, T # {}
  PROVE  \E x \in T : \A y \in T : x <= y
<1> DEFINE R == OpToRel(<, Nat)
<1>1. \A x, y \in Nat : <<y, x>> \in R <=> y < x
  BY DEF OpToRel
<1>2. PICK x \in T : \A y \in T : ~ (<<y, x>> \in R)
  <2>1. IsWellFoundedOn(R, Nat)
    BY NatLessThanWellFounded DEF R
  <2> HIDE DEF R
  <2> QED BY <2>1, WFMin
<1>3. \A y \in T : ~ (y < x)
  <2> HIDE DEF R
  <2> QED BY <1>1, <1>2
<1> HIDE DEF R
<1> QED BY <1>3

\* Facts about quotients, for a block size P.
LEMMA QuotientOfPosition ==
  ASSUME NEW P \in Nat \ {0}, NEW b \in Nat, NEW i \in 0..(P - 1)
  PROVE  (b * P + i) \div P = b
OBVIOUS

LEMMA PositionIsUnique ==
  ASSUME NEW P \in Nat \ {0}, NEW b \in Nat, NEW c \in Nat,
         NEW i \in 0..(P - 1), NEW j \in 0..(P - 1), b * P + i = c * P + j
  PROVE  b = c /\ i = j
OBVIOUS

LEMMA QuotientAndRest ==
  ASSUME NEW P \in Nat \ {0}, NEW p \in Nat
  PROVE  p % P \in 0..(P - 1) /\ p = (p \div P) * P + (p % P)
OBVIOUS

LEMMA BlocksAreNat ==
  /\ LogicalBlocks \in Nat /\ OpBlocks \in Nat /\ PagesPerBlock \in Nat \ {0}
  /\ Blocks \subseteq Nat /\ Pages \subseteq Nat
BY PagesArePositive, LogicalBlocksArePositive, OpBlocksCoverReserve DEF Blocks, Pages

\* A page has one block and one position in it.
LEMMA PagesAreUnique ==
  ASSUME NEW b \in Blocks, NEW i \in Offsets
  PROVE  /\ PageOf(b, i) \in Pages
         /\ BlockOf(PageOf(b, i)) = b
         /\ \A c \in Blocks, j \in Offsets : PageOf(b, i) = PageOf(c, j) => b = c /\ i = j
<1>1. i \in 0..(PagesPerBlock - 1) /\ b \in 0..(LogicalBlocks + OpBlocks - 1) /\ b \in Nat
  BY BlocksAreNat DEF Offsets, Blocks
<1>2. PageOf(b, i) \in Pages
  <2> DEFINE N == LogicalBlocks + OpBlocks
  <2>1. N \in Nat /\ PagesPerBlock \in Nat \ {0} /\ b \in 0..(N - 1)
    BY <1>1, BlocksAreNat
  <2>2. b * PagesPerBlock + i \in 0..(N * PagesPerBlock - 1)
    <3> HIDE DEF N
    <3> QED BY <1>1, <2>1
  <2> QED BY <2>2 DEF PageOf, Pages
<1>3. BlockOf(PageOf(b, i)) = b
  BY <1>1, BlocksAreNat, QuotientOfPosition DEF PageOf, BlockOf
<1>4. ASSUME NEW c \in Blocks, NEW j \in Offsets, PageOf(b, i) = PageOf(c, j)
      PROVE  b = c /\ i = j
  <2>1. c \in Nat /\ j \in 0..(PagesPerBlock - 1)
    BY BlocksAreNat DEF Offsets
  <2> QED BY <1>1, <1>4, <2>1, BlocksAreNat, PositionIsUnique DEF PageOf
<1> QED BY <1>2, <1>3, <1>4

\* Every page is a position of its block.
LEMMA PagesAreInBlocks ==
  ASSUME NEW p \in Pages
  PROVE  BlockOf(p) \in Blocks /\ \E i \in Offsets : p = PageOf(BlockOf(p), i)
<1>1. BlockOf(p) \in Blocks
  <2> DEFINE N == LogicalBlocks + OpBlocks
  <2>1. N \in Nat /\ PagesPerBlock \in Nat \ {0} /\ p \in 0..(N * PagesPerBlock - 1)
    BY BlocksAreNat DEF Pages
  <2>2. p \div PagesPerBlock \in 0..(N - 1)
    <3> HIDE DEF N
    <3> QED BY <2>1
  <2> QED BY <2>2, BlocksAreNat DEF BlockOf, Blocks
<1>2. p \in Nat
  BY BlocksAreNat
<1>3. p % PagesPerBlock \in Offsets /\ p = PageOf(BlockOf(p), p % PagesPerBlock)
  BY <1>2, BlocksAreNat, QuotientAndRest DEF Offsets, PageOf, BlockOf
<1> QED BY <1>1, <1>3

\* The first n numbers can be counted.
LEMMA CountBelow ==
  ASSUME NEW n \in Nat
  PROVE  IsFiniteSet(0..(n - 1)) /\ Cardinality(0..(n - 1)) = n
<1>1. 0 \in Int /\ n - 1 \in Int
  OBVIOUS
<1>2. IsFiniteSet(0..(n - 1)) /\ Cardinality(0..(n - 1)) = IF 0 > n - 1 THEN 0 ELSE (n - 1) - 0 + 1
  BY <1>1, FS_Interval
<1> QED BY <1>2

LEMMA OffsetsAreFinite == IsFiniteSet(Offsets) /\ Cardinality(Offsets) = PagesPerBlock
BY BlocksAreNat, CountBelow DEF Offsets

\* A block's mapped positions can be counted.
LEMMA MappedIsFinite ==
  ASSUME NEW f, NEW b
  PROVE  /\ IsFiniteSet(MappedIn(f, b))
         /\ Cardinality(MappedIn(f, b)) \in 0..PagesPerBlock
         /\ Cardinality(MappedIn(f, b)) = 0 => MappedIn(f, b) = {}
<1>1. PagesPerBlock \in Nat \ {0}
  BY PagesArePositive
<1>2. IsFiniteSet(Offsets) /\ Cardinality(Offsets) = PagesPerBlock
  BY OffsetsAreFinite
<1>3. MappedIn(f, b) \in SUBSET Offsets
  BY DEF MappedIn
<1>4. /\ IsFiniteSet(MappedIn(f, b))
      /\ Cardinality(MappedIn(f, b)) <= Cardinality(Offsets)
  BY <1>2, <1>3, FS_Subset
<1>5. Cardinality(MappedIn(f, b)) \in Nat
  BY <1>4, FS_CardinalityType
<1> QED BY <1>1, <1>2, <1>4, <1>5, FS_EmptySet

\* Unmapping a page takes one position from its block.
LEMMA OneLess ==
  ASSUME NEW f \in [Pages -> Lbas \cup {None}], NEW p \in Pages, f[p] # None,
         NEW c \in Blocks
  PROVE  Cardinality(MappedIn([f EXCEPT ![p] = None], c))
           = IF c = BlockOf(p) THEN Cardinality(MappedIn(f, c)) - 1
                               ELSE Cardinality(MappedIn(f, c))
<1> DEFINE g == [f EXCEPT ![p] = None]
<1>1. PICK i \in Offsets : p = PageOf(BlockOf(p), i)
  BY PagesAreInBlocks
<1>2. BlockOf(p) \in Blocks
  BY PagesAreInBlocks
<1>3. \A j \in Offsets : PageOf(c, j) \in Pages /\ (PageOf(c, j) = p <=> c = BlockOf(p) /\ j = i)
  BY <1>1, <1>2, PagesAreUnique
<1>4. CASE c = BlockOf(p)
  <2>1. MappedIn(g, c) = MappedIn(f, c) \ {i}
    BY <1>3, <1>4 DEF MappedIn
  <2>2. i \in MappedIn(f, c)
    BY <1>3, <1>4 DEF MappedIn
  <2>3. Cardinality(MappedIn(f, c) \ {i}) = Cardinality(MappedIn(f, c)) - 1
    BY <2>2, MappedIsFinite, FS_RemoveElement
  <2> QED BY <1>4, <2>1, <2>3
<1>5. CASE c # BlockOf(p)
  <2>1. MappedIn(g, c) = MappedIn(f, c)
    BY <1>3, <1>5 DEF MappedIn
  <2> QED BY <1>5, <2>1
<1> QED BY <1>4, <1>5

\* The map f with page p given to l, and the number of positions f maps in c.
WithPage(f, p, l) == [f EXCEPT ![p] = l]
Count(f, c) == Cardinality(MappedIn(f, c))

\* Mapping an unmapped page adds one position to its block.
LEMMA OneMore ==
  ASSUME NEW f \in [Pages -> Lbas \cup {None}], NEW b \in Blocks, NEW i \in Offsets,
         f[PageOf(b, i)] = None, NEW l \in Lbas, NEW c \in Blocks
  PROVE  /\ c = b => Count(WithPage(f, PageOf(b, i), l), c) = Count(f, c) + 1
         /\ c # b => Count(WithPage(f, PageOf(b, i), l), c) = Count(f, c)
<1> USE DEF Count, WithPage
<1> DEFINE g == [f EXCEPT ![PageOf(b, i)] = l]
<1>1. \A j \in Offsets : /\ PageOf(c, j) \in Pages
                         /\ PageOf(c, j) = PageOf(b, i) <=> c = b /\ j = i
  BY PagesAreUnique
<1>2. l # None
  BY DEF Lbas, None
<1>3. CASE c = b
  <2>1. MappedIn(g, c) = MappedIn(f, c) \cup {i}
    BY <1>1, <1>2, <1>3 DEF MappedIn
  <2>2. i \notin MappedIn(f, c)
    BY <1>3 DEF MappedIn
  <2>3. Cardinality(MappedIn(f, c) \cup {i}) = Cardinality(MappedIn(f, c)) + 1
    BY <2>2, MappedIsFinite, FS_AddElement
  <2> QED BY <1>3, <2>1, <2>3
<1>4. CASE c # b
  <2>1. MappedIn(g, c) = MappedIn(f, c)
    BY <1>1, <1>4 DEF MappedIn
  <2> QED BY <1>4, <2>1
<1> QED BY <1>3, <1>4

\* In a consistent state a block without valid pages maps nothing.
LEMMA EmptyBlock ==
  ASSUME MappingIsConsistent, NEW b \in Blocks, valid[b] = 0, NEW i \in Offsets
  PROVE  p2l[PageOf(b, i)] = None
<1>1. Cardinality(MappedIn(p2l, b)) = 0
  BY DEF MappingIsConsistent, MappedIn, Offsets
<1>2. MappedIn(p2l, b) = {}
  BY <1>1, MappedIsFinite
<1> QED BY <1>2 DEF MappedIn

-----------------------------------------------------------------------------
(* Writing a page *)

\* Invalidating the old copy of a logical page keeps the counters exact.
LEMMA InvalidateCounts ==
  ASSUME TypeOK, MappingIsConsistent, NEW lba \in Lbas
  PROVE  /\ Unmapped(lba) \in [Pages -> Lbas \cup {None}]
         /\ \A p \in Pages : Unmapped(lba)[p] = IF p2l[p] = lba THEN None ELSE p2l[p]
         /\ ValidWithout(lba) \in [Blocks -> 0..PagesPerBlock]
         /\ \A b \in Blocks :
              /\ ValidWithout(lba)[b] = Cardinality(MappedIn(Unmapped(lba), b))
              /\ ValidWithout(lba)[b] <= valid[b]
              /\ l2p[lba] # None /\ b = BlockOf(l2p[lba]) => ValidWithout(lba)[b] = valid[b] - 1
<1>1. lba # None
  BY DEF Lbas, None
<1>2. CASE l2p[lba] = None
  <2>1. Unmapped(lba) = p2l /\ ValidWithout(lba) = valid
    BY <1>2 DEF Unmapped, ValidWithout
  <2>2. \A p \in Pages : p2l[p] # lba
    BY <1>1, <1>2 DEF MappingIsConsistent, TypeOK, Pages, None
  <2>3. \A b \in Blocks : valid[b] = Cardinality(MappedIn(p2l, b)) /\ valid[b] \in 0..PagesPerBlock
    BY DEF MappingIsConsistent, MappedIn, Offsets, TypeOK
  <2> QED BY <1>2, <2>1, <2>2, <2>3, PagesArePositive DEF TypeOK
<1>3. CASE l2p[lba] # None
  <2> DEFINE p0 == l2p[lba]
  <2>1. p0 \in Pages /\ p2l[p0] = lba /\ p2l[p0] # None /\ BlockOf(p0) \in Blocks
    BY <1>1, <1>3, PagesAreInBlocks DEF TypeOK, MappingIsConsistent
  <2>2. Unmapped(lba) = [p2l EXCEPT ![p0] = None]
    BY <1>3 DEF Unmapped
  <2>3. ValidWithout(lba) = [valid EXCEPT ![BlockOf(p0)] = valid[BlockOf(p0)] - 1]
    BY <1>3 DEF ValidWithout
  <2>4. \A p \in Pages : p2l[p] = lba => p = p0
    BY <1>1 DEF MappingIsConsistent
  <2>5. p2l \in [Pages -> Lbas \cup {None}] /\ valid \in [Blocks -> 0..PagesPerBlock]
    BY DEF TypeOK
  <2> HIDE DEF p0
  <2>6. ASSUME NEW b \in Blocks
        PROVE  Cardinality(MappedIn(Unmapped(lba), b)) = IF b = BlockOf(p0) THEN valid[b] - 1 ELSE valid[b]
    <3>1. valid[b] = Cardinality(MappedIn(p2l, b))
      BY DEF MappingIsConsistent, MappedIn, Offsets
    <3>2. Cardinality(MappedIn([p2l EXCEPT ![p0] = None], b))
            = IF b = BlockOf(p0) THEN Cardinality(MappedIn(p2l, b)) - 1
                                 ELSE Cardinality(MappedIn(p2l, b))
      BY <2>1, <2>5, OneLess
    <3> QED BY <2>2, <3>1, <3>2
  <2>7. \A b \in Blocks : Cardinality(MappedIn(Unmapped(lba), b)) \in 0..PagesPerBlock
    BY MappedIsFinite
  <2>8. \A b \in Blocks : ValidWithout(lba)[b] = IF b = BlockOf(p0) THEN valid[b] - 1 ELSE valid[b]
    BY <2>3, <2>5
  <2>9. ValidWithout(lba) = [b \in Blocks |-> ValidWithout(lba)[b]]
    BY <2>3, <2>5
  <2>10. \A b \in Blocks : ValidWithout(lba)[b] \in 0..PagesPerBlock
    BY <2>6, <2>7, <2>8
  <2>11. \A b \in Blocks : valid[b] \in Nat
    BY <2>5, PagesArePositive
  <2>12. Unmapped(lba) \in [Pages -> Lbas \cup {None}]
    BY <2>1, <2>2, <2>5
  <2>13. \A p \in Pages : Unmapped(lba)[p] = IF p2l[p] = lba THEN None ELSE p2l[p]
    BY <2>1, <2>2, <2>4, <2>5
  <2>14. ValidWithout(lba) \in [Blocks -> 0..PagesPerBlock]
    BY <2>9, <2>10
  <2>15. p0 = l2p[lba]
    BY DEF p0
  <2> QED BY <2>6, <2>8, <2>11, <2>12, <2>13, <2>14, <2>15
<1> QED BY <1>2, <1>3

\* Placing a logical page in an unmapped one keeps the maps consistent.  No
\* other page becomes mapped and no other block gains a valid page; the block
\* that held the old copy, if it is another, loses one.
LEMMA PlaceKeepsMapping ==
  ASSUME TypeOK, MappingIsConsistent,
         NEW lba \in Lbas, NEW b \in Blocks, NEW i \in Offsets,
         p2l[PageOf(b, i)] = None, Place(lba, b, i)
  PROVE  /\ l2p' \in [Lbas -> Pages \cup {None}]
         /\ p2l' \in [Pages -> Lbas \cup {None}]
         /\ valid' \in [Blocks -> 0..PagesPerBlock]
         /\ active' = b /\ wp' = i + 1 /\ wp' \in 0..PagesPerBlock
         /\ MappingIsConsistent'
         /\ \A p \in Pages : p # PageOf(b, i) /\ p2l'[p] # None => p2l'[p] = p2l[p] /\ p2l[p] # lba
         /\ \A c \in Blocks : c # b => valid'[c] <= valid[c]
         /\ l2p[lba] # None /\ BlockOf(l2p[lba]) # b =>
              valid'[BlockOf(l2p[lba])] = valid[BlockOf(l2p[lba])] - 1
<1> DEFINE q == PageOf(b, i)
           f == Unmapped(lba)
           v == ValidWithout(lba)
<1>1. /\ f \in [Pages -> Lbas \cup {None}]
      /\ v \in [Blocks -> 0..PagesPerBlock]
      /\ \A p \in Pages : f[p] = IF p2l[p] = lba THEN None ELSE p2l[p]
      /\ \A c \in Blocks :
           /\ v[c] = Cardinality(MappedIn(f, c))
           /\ v[c] <= valid[c]
           /\ l2p[lba] # None /\ c = BlockOf(l2p[lba]) => v[c] = valid[c] - 1
  BY InvalidateCounts
<1>2. q \in Pages /\ f[q] = None /\ lba # None
  BY <1>1, PagesAreUnique DEF Lbas, None
<1>3. /\ l2p' = [l2p EXCEPT ![lba] = q]
      /\ p2l' = [f EXCEPT ![q] = lba]
      /\ valid' = [v EXCEPT ![b] = v[b] + 1]
      /\ active' = b /\ wp' = i + 1
  BY DEF Place
<1>4. l2p \in [Lbas -> Pages \cup {None}] /\ PagesPerBlock \in Nat \ {0}
  BY PagesArePositive DEF TypeOK
<1>5. \A c \in Blocks : Cardinality(MappedIn(p2l', c)) = IF c = b THEN v[c] + 1 ELSE v[c]
  <2> HIDE DEF f, v
  <2>1. ASSUME NEW c \in Blocks
        PROVE  /\ c = b => Count(WithPage(f, q, lba), c) = Count(f, c) + 1
               /\ c # b => Count(WithPage(f, q, lba), c) = Count(f, c)
    BY <1>1, <1>2, OneMore
  <2>2. p2l' = WithPage(f, q, lba) /\ \A c \in Blocks : v[c] = Count(f, c)
    BY <1>1, <1>3 DEF WithPage, Count
  <2>3. \A c \in Blocks : Count(p2l', c) = IF c = b THEN v[c] + 1 ELSE v[c]
    BY <2>1, <2>2
  <2> QED BY <2>3 DEF Count
<1> HIDE DEF f, v, q
<1>6. \A c \in Blocks : valid'[c] = Cardinality(MappedIn(p2l', c))
  BY <1>1, <1>3, <1>5
<1>7. valid' = [c \in Blocks |-> valid'[c]]
  BY <1>1, <1>3
<1>8. valid' \in [Blocks -> 0..PagesPerBlock]
  BY <1>6, <1>7, MappedIsFinite
<1>9. l2p' \in [Lbas -> Pages \cup {None}] /\ p2l' \in [Pages -> Lbas \cup {None}]
  BY <1>1, <1>2, <1>3, <1>4
<1>10. MappingIsConsistent'
  <2>1. ASSUME NEW l \in Lbas, l2p'[l] # None PROVE p2l'[l2p'[l]] = l
    <3>1. CASE l = lba
      BY <1>1, <1>2, <1>3, <1>4, <3>1
    <3>2. CASE l # lba
      <4>1. l2p'[l] = l2p[l] /\ l2p[l] \in Pages /\ p2l[l2p[l]] = l
        BY <1>3, <1>4, <2>1, <3>2 DEF MappingIsConsistent
      <4>2. l # None
        BY DEF Lbas, None
      <4>3. l2p[l] # q
        BY <4>1, <4>2 DEF q
      <4> QED BY <1>1, <1>3, <3>2, <4>1, <4>3
    <3> QED BY <3>1, <3>2
  <2>2. ASSUME NEW p \in Pages, p2l'[p] # None PROVE l2p'[p2l'[p]] = p
    <3>1. CASE p = q
      BY <1>1, <1>2, <1>3, <1>4, <3>1
    <3>2. CASE p # q
      <4>1. p2l'[p] = f[p]
        BY <1>1, <1>3, <3>2
      <4>2. p2l'[p] = p2l[p] /\ p2l[p] # lba
        BY <1>1, <2>2, <4>1
      <4>3. p2l[p] \in Lbas /\ l2p[p2l[p]] = p
        BY <2>2, <4>2 DEF MappingIsConsistent, TypeOK
      <4> QED BY <1>3, <1>4, <4>2, <4>3
    <3> QED BY <3>1, <3>2
  <2> QED BY <1>6, <2>1, <2>2 DEF MappingIsConsistent, MappedIn, Offsets
<1>11. \A p \in Pages : p # q /\ p2l'[p] # None => p2l'[p] = p2l[p] /\ p2l[p] # lba
  BY <1>1, <1>3
<1>12. \A c \in Blocks : c # b => valid'[c] = v[c]
  BY <1>1, <1>3
<1>13. \A c \in Blocks : c # b => valid'[c] <= valid[c]
  BY <1>1, <1>12
<1>14. l2p[lba] # None => BlockOf(l2p[lba]) \in Blocks
  BY <1>4, PagesAreInBlocks
<1>15. l2p[lba] # None /\ BlockOf(l2p[lba]) # b =>
         valid'[BlockOf(l2p[lba])] = valid[BlockOf(l2p[lba])] - 1
  BY <1>1, <1>12, <1>14
<1>16. wp' \in 0..PagesPerBlock
  BY <1>3, <1>4 DEF Offsets
<1> QED BY <1>3, <1>8, <1>9, <1>10, <1>11, <1>13, <1>15, <1>16 DEF q

-----------------------------------------------------------------------------
(* The free list *)

\* The queue of erased blocks loses its first and gains a last.
LEMMA FreeListTail ==
  ASSUME free \in Seq(Blocks), free # <<>>
  PROVE  /\ Head(free) \in Blocks /\ Head(free) = free[1] /\ 1 \in DOMAIN free
         /\ Tail(free) \in Seq(Blocks)
         /\ \A i \in DOMAIN Tail(free) : i + 1 \in DOMAIN free /\ Tail(free)[i] = free[i + 1] /\ i \in Nat \ {0}
  OBVIOUS

\* program(): where the page goes, and what it leaves.
LEMMA ProgramKeepsIInv ==
  ASSUME IInv, NEW lba \in Lbas, Program(lba), next' \in 0..PagesPerBlock, victim' = victim
  PROVE  /\ TypeOK' /\ MappingIsConsistent' /\ ErasedSpaceIsEmpty'
         /\ \A p \in Pages : BlockOf(p) = victim /\ p2l'[p] # None => p2l'[p] = p2l[p] /\ p2l[p] # lba
         /\ victim # None => victim # active'
         /\ victim # None /\ l2p[lba] # None /\ BlockOf(l2p[lba]) = victim =>
              /\ valid'[victim] = valid[victim] - 1
              /\ \/ free' # <<>>
                 \/ valid'[victim] <= PagesPerBlock - wp'
         /\ Len(free') >= Len(free) - 1
<1>1. /\ l2p \in [Lbas -> Pages \cup {None}] /\ p2l \in [Pages -> Lbas \cup {None}]
      /\ valid \in [Blocks -> 0..PagesPerBlock]
      /\ free \in Seq(Blocks) /\ active \in Blocks /\ wp \in 0..PagesPerBlock
      /\ victim \in Blocks \cup {None}
      /\ PagesPerBlock \in Nat \ {0} /\ Len(free) \in Nat
  BY PagesArePositive DEF IInv, TypeOK
<1>2. TypeOK /\ MappingIsConsistent
  BY DEF IInv
<1>3. CASE wp < PagesPerBlock /\ Place(lba, active, wp) /\ UNCHANGED free
  <2>1. wp \in Offsets /\ wp \in wp..(PagesPerBlock - 1)
    BY <1>1, <1>3 DEF Offsets
  <2>2. p2l[PageOf(active, wp)] = None
    BY <2>1 DEF IInv, ErasedSpaceIsEmpty
  <2>3. /\ l2p' \in [Lbas -> Pages \cup {None}] /\ p2l' \in [Pages -> Lbas \cup {None}]
        /\ valid' \in [Blocks -> 0..PagesPerBlock]
        /\ active' = active /\ wp' = wp + 1 /\ wp' \in 0..PagesPerBlock
        /\ MappingIsConsistent'
        /\ \A p \in Pages : p # PageOf(active, wp) /\ p2l'[p] # None => p2l'[p] = p2l[p] /\ p2l[p] # lba
        /\ \A c \in Blocks : c # active => valid'[c] <= valid[c]
        /\ l2p[lba] # None /\ BlockOf(l2p[lba]) # active =>
             valid'[BlockOf(l2p[lba])] = valid[BlockOf(l2p[lba])] - 1
    BY <1>1, <1>2, <1>3, <2>1, <2>2, PlaceKeepsMapping
  <2>4. TypeOK'
    BY <1>1, <1>3, <2>3 DEF TypeOK
  <2>5. ErasedSpaceIsEmpty'
    <3>1. ASSUME NEW i \in DOMAIN free
          PROVE  /\ valid'[free[i]] = 0 /\ free[i] # active' /\ free[i] # victim'
                 /\ \A j \in DOMAIN free : free[i] = free[j] => i = j
      <4>1. /\ valid[free[i]] = 0 /\ free[i] # active /\ free[i] # victim
            /\ \A j \in DOMAIN free : free[i] = free[j] => i = j
        BY DEF IInv, ErasedSpaceIsEmpty
      <4>2. free[i] \in Blocks
        BY <1>1
      <4>3. valid'[free[i]] <= 0 /\ valid'[free[i]] \in 0..PagesPerBlock
        BY <2>3, <4>1, <4>2
      <4> QED BY <1>1, <2>3, <4>1, <4>3
    <3>2. ASSUME NEW i \in wp'..(PagesPerBlock - 1) PROVE p2l'[PageOf(active', i)] = None
      <4>1. i \in wp..(PagesPerBlock - 1) /\ i \in Offsets /\ i # wp
        BY <1>1, <2>3 DEF Offsets
      <4>2. p2l[PageOf(active, i)] = None
        BY <4>1 DEF IInv, ErasedSpaceIsEmpty
      <4>3. PageOf(active, i) \in Pages /\ PageOf(active, i) # PageOf(active, wp)
        BY <1>1, <2>1, <4>1, PagesAreUnique
      <4> QED BY <2>3, <4>2, <4>3
    <3> QED BY <1>3, <3>1, <3>2 DEF ErasedSpaceIsEmpty
  <2>6. victim # None => victim # active
    BY DEF IInv, CollectionHasRoom
  <2>7. ASSUME NEW p \in Pages, BlockOf(p) = victim, p2l'[p] # None
        PROVE  p2l'[p] = p2l[p] /\ p2l[p] # lba
    <3>1. BlockOf(PageOf(active, wp)) = active /\ victim # None
      BY <1>1, <2>1, <2>7, PagesAreUnique, PagesAreInBlocks, BlocksAreNat DEF None
    <3> QED BY <2>3, <2>6, <2>7, <3>1
  <2>8. ASSUME victim # None, l2p[lba] # None, BlockOf(l2p[lba]) = victim
        PROVE  /\ valid'[victim] = valid[victim] - 1
               /\ free' # <<>> \/ valid'[victim] <= PagesPerBlock - wp'
    <3>1. valid'[victim] = valid[victim] - 1
      BY <2>3, <2>6, <2>8
    <3>2. free # <<>> \/ valid[victim] <= PagesPerBlock - wp
      BY <2>8 DEF IInv, CollectionHasRoom
    <3>3. valid[victim] \in Nat
      BY <1>1, <2>8
    <3> QED BY <1>1, <1>3, <2>3, <3>1, <3>2, <3>3
  <2> QED BY <1>1, <1>3, <2>3, <2>4, <2>5, <2>6, <2>7, <2>8
<1>4. CASE wp = PagesPerBlock /\ free # <<>> /\ Place(lba, Head(free), 0) /\ free' = Tail(free)
  <2> DEFINE b == Head(free)
  <2>1. /\ b \in Blocks /\ b = free[1] /\ 1 \in DOMAIN free
        /\ Tail(free) \in Seq(Blocks)
        /\ \A i \in DOMAIN Tail(free) : i + 1 \in DOMAIN free /\ Tail(free)[i] = free[i + 1] /\ i \in Nat \ {0}
    BY <1>1, <1>4, FreeListTail
  <2>2. 0 \in Offsets
    BY <1>1 DEF Offsets
  <2>3. valid[b] = 0 /\ b # victim
    BY <2>1 DEF IInv, ErasedSpaceIsEmpty
  <2>4. \A i \in Offsets : p2l[PageOf(b, i)] = None
    BY <1>2, <2>1, <2>3, EmptyBlock
  <2> HIDE DEF b
  <2>5. /\ l2p' \in [Lbas -> Pages \cup {None}] /\ p2l' \in [Pages -> Lbas \cup {None}]
        /\ valid' \in [Blocks -> 0..PagesPerBlock]
        /\ active' = b /\ wp' = 0 + 1 /\ wp' \in 0..PagesPerBlock
        /\ MappingIsConsistent'
        /\ \A p \in Pages : p # PageOf(b, 0) /\ p2l'[p] # None => p2l'[p] = p2l[p] /\ p2l[p] # lba
        /\ \A c \in Blocks : c # b => valid'[c] <= valid[c]
        /\ l2p[lba] # None /\ BlockOf(l2p[lba]) # b =>
             valid'[BlockOf(l2p[lba])] = valid[BlockOf(l2p[lba])] - 1
    <3>1. Place(lba, b, 0) /\ p2l[PageOf(b, 0)] = None
      BY <1>4, <2>2, <2>4 DEF b
    <3> QED BY <1>2, <2>1, <2>2, <3>1, PlaceKeepsMapping
  <2>6. TypeOK'
    BY <1>1, <1>4, <2>1, <2>5 DEF TypeOK
  <2>7. ErasedSpaceIsEmpty'
    <3>1. ASSUME NEW i \in DOMAIN free'
          PROVE  /\ valid'[free'[i]] = 0 /\ free'[i] # active' /\ free'[i] # victim'
                 /\ \A j \in DOMAIN free' : free'[i] = free'[j] => i = j
      <4>1. i + 1 \in DOMAIN free /\ free'[i] = free[i + 1] /\ i \in Nat \ {0}
        BY <1>4, <2>1
      <4>2. /\ valid[free[i + 1]] = 0 /\ free[i + 1] # victim
            /\ \A j \in DOMAIN free : free[i + 1] = free[j] => i + 1 = j
        BY <4>1 DEF IInv, ErasedSpaceIsEmpty
      <4>3. free[i + 1] # b
        BY <2>1, <4>1, <4>2
      <4>4. valid'[free[i + 1]] <= 0 /\ valid'[free[i + 1]] \in 0..PagesPerBlock
        BY <1>1, <2>5, <4>1, <4>2, <4>3
      <4>5. \A j \in DOMAIN free' : free'[i] = free'[j] => i = j
        BY <1>4, <2>1, <4>1, <4>2
      <4> QED BY <1>1, <2>5, <4>1, <4>2, <4>3, <4>4, <4>5
    <3>2. ASSUME NEW i \in wp'..(PagesPerBlock - 1) PROVE p2l'[PageOf(active', i)] = None
      <4>1. i \in Offsets /\ i # 0
        BY <1>1, <2>5 DEF Offsets
      <4>2. PageOf(b, i) \in Pages /\ PageOf(b, i) # PageOf(b, 0)
        BY <2>1, <2>2, <4>1, PagesAreUnique
      <4> QED BY <2>4, <2>5, <4>1, <4>2
    <3> QED BY <3>1, <3>2 DEF ErasedSpaceIsEmpty
  <2>8. ASSUME NEW p \in Pages, BlockOf(p) = victim, p2l'[p] # None
        PROVE  p2l'[p] = p2l[p] /\ p2l[p] # lba
    <3>1. BlockOf(PageOf(b, 0)) = b
      BY <2>1, <2>2, PagesAreUnique
    <3> QED BY <2>3, <2>5, <2>8, <3>1
  <2>9. ASSUME victim # None, l2p[lba] # None, BlockOf(l2p[lba]) = victim
        PROVE  /\ valid'[victim] = valid[victim] - 1
               /\ free' # <<>> \/ valid'[victim] <= PagesPerBlock - wp'
    <3>1. valid'[victim] = valid[victim] - 1
      BY <2>3, <2>5, <2>9
    <3>2. valid[victim] \in 0..PagesPerBlock
      BY <1>1, <2>9
    <3> QED BY <1>1, <2>5, <3>1, <3>2
  <2>10. Len(free') = Len(free) - 1
    BY <1>1, <1>4
  <2> QED BY <1>1, <2>3, <2>5, <2>6, <2>7, <2>8, <2>9, <2>10
<1> QED BY <1>3, <1>4 DEF Program

\* Fewer erased blocks than the reserve leave a block to collect, and the
\* greedy choice is one with the fewest valid pages.
LEMMA VictimExists ==
  ASSUME TypeOK, Len(free) < GcReserve
  PROVE  /\ Candidates # {} /\ Greedy \in Candidates
         /\ \A c \in Candidates : valid[Greedy] < valid[c] \/ valid[Greedy] = valid[c]
<1>1. {0, 1, 2} \subseteq Blocks
  BY LogicalBlocksArePositive, OpBlocksCoverReserve DEF Blocks, GcReserve
<1>2. free \in Seq(Blocks) /\ Len(free) \in {0, 1} /\ DOMAIN free = 1..Len(free)
  <2>1. free \in Seq(Blocks)
    BY DEF TypeOK
  <2>2. Len(free) \in Nat /\ DOMAIN free = 1..Len(free)
    BY <2>1
  <2> QED BY <2>1, <2>2 DEF GcReserve
<1>3. \A i \in DOMAIN free : i = 1
  BY <1>2
<1>4. PICK written \in {0, 1, 2} : written # active /\ ~ IsFree(written)
  <2>1. CASE DOMAIN free = {}
    BY <2>1 DEF IsFree
  <2>2. CASE DOMAIN free # {}
    BY <1>3, <2>2 DEF IsFree
  <2> QED BY <2>1, <2>2
<1>5. Candidates # {}
  BY <1>1, <1>4 DEF Candidates
<1> DEFINE V == {valid[b] : b \in Candidates}
<1>6. \A b \in Candidates : valid[b] \in Nat /\ b \in Nat
  BY BlocksAreNat DEF Candidates, TypeOK
<1>7. PICK v \in V : \A w \in V : v <= w
  <2>1. V \subseteq Nat /\ V # {}
    BY <1>5, <1>6
  <2> HIDE DEF V
  <2> QED BY <2>1, MinExists
<1> DEFINE B == {b \in Candidates : valid[b] = v}
<1>8. PICK first \in B : \A c \in B : first <= c
  <2>1. B \subseteq Nat /\ B # {}
    BY <1>6, <1>7
  <2> HIDE DEF B
  <2> QED BY <2>1, MinExists
<1>9. \A c \in Candidates : valid[first] < valid[c] \/ (valid[first] = valid[c] /\ first <= c)
  <2> SUFFICES ASSUME NEW c \in Candidates, valid[c] # v
               PROVE  valid[first] < valid[c]
    BY <1>8
  <2>1. v <= valid[c] /\ valid[first] = v /\ valid[c] \in Nat /\ valid[first] \in Nat
    BY <1>6, <1>7
  <2> QED BY <2>1
<1>10. first \in Candidates
  OBVIOUS
<1> HIDE DEF V, B
<1> QED BY <1>5, <1>9, <1>10 DEF Greedy

-----------------------------------------------------------------------------
(* The invariant *)

LEMMA InitIInv == ASSUME Init PROVE IInv
<1> DEFINE N == LogicalBlocks + OpBlocks
<1>1. /\ LogicalBlocks \in Nat \ {0} /\ OpBlocks \in Nat /\ OpBlocks >= 2
      /\ PagesPerBlock \in Nat \ {0} /\ N \in Nat /\ N >= 3
      /\ Blocks = 0..(N - 1)
  BY PagesArePositive, LogicalBlocksArePositive, OpBlocksCoverReserve DEF GcReserve, Blocks
<1>2. /\ l2p = [l \in Lbas |-> None] /\ p2l = [p \in Pages |-> None]
      /\ valid = [b \in Blocks |-> 0] /\ free = [i \in 1..(N - 1) |-> i]
      /\ active = 0 /\ wp = 0 /\ victim = None /\ next = 0
  BY <1>1 DEF Init
<1> HIDE DEF N
<1>3. free \in Seq(Blocks) /\ Len(free) = N - 1 /\ DOMAIN free = 1..(N - 1)
  BY <1>1, <1>2
<1>4. TypeOK
  BY <1>1, <1>2, <1>3 DEF TypeOK
<1>5. MappingIsConsistent
  <2>1. ASSUME NEW b \in Blocks PROVE Cardinality(MappedIn(p2l, b)) = 0
    <3>1. MappedIn(p2l, b) = {}
      BY <1>2, PagesAreUnique DEF MappedIn
    <3> QED BY <3>1, FS_EmptySet
  <2> QED BY <1>2, <2>1 DEF MappingIsConsistent, MappedIn, Offsets
<1>6. ErasedSpaceIsEmpty
  <2>1. \A i \in DOMAIN free : free[i] = i /\ i \in Blocks /\ i # 0 /\ i # None
    BY <1>1, <1>2, <1>3 DEF None
  <2>2. 0 \in Blocks
    BY <1>1
  <2>3. \A i \in 0..(PagesPerBlock - 1) : PageOf(0, i) \in Pages
    BY <2>2, PagesAreUnique DEF Offsets
  <2> QED BY <1>2, <2>1, <2>3 DEF ErasedSpaceIsEmpty
<1>7. CollectionHasRoom
  <2>1. Len(free) # 0
    BY <1>1, <1>3
  <2>2. free # <<>>
    BY <2>1
  <2> QED BY <1>2, <2>2 DEF CollectionHasRoom
<1> QED BY <1>4, <1>5, <1>6, <1>7 DEF IInv

\* The host writes a page.
LEMMA WriteKeepsIInv == ASSUME IInv, NEW lba \in Lbas, Write(lba) PROVE IInv'
<1>1. /\ Program(lba) /\ victim' = victim /\ next' = next
      /\ victim = None /\ Len(free) >= 2
      /\ next' \in 0..PagesPerBlock
  BY DEF Write, Idle, GcReserve, IInv, TypeOK
<1>2. /\ TypeOK' /\ MappingIsConsistent' /\ ErasedSpaceIsEmpty'
      /\ Len(free') >= Len(free) - 1
  BY <1>1, ProgramKeepsIInv
<1>3. Len(free) \in Nat /\ free' \in Seq(Blocks)
  BY <1>2 DEF IInv, TypeOK
<1>4. free' # <<>>
  BY <1>1, <1>2, <1>3
<1> QED BY <1>1, <1>2, <1>4 DEF IInv, CollectionHasRoom

\* The host trims a page.
LEMMA TrimKeepsIInv == ASSUME IInv, NEW lba \in Lbas, Trim(lba) PROVE IInv'
<1>1. /\ l2p' = [l2p EXCEPT ![lba] = None]
      /\ p2l' = Unmapped(lba) /\ valid' = ValidWithout(lba)
      /\ free' = free /\ active' = active /\ wp' = wp /\ victim' = victim /\ next' = next
      /\ victim = None /\ Len(free) >= 2
  BY DEF Trim, Idle, GcReserve
<1>2. /\ Unmapped(lba) \in [Pages -> Lbas \cup {None}]
      /\ \A p \in Pages : Unmapped(lba)[p] = IF p2l[p] = lba THEN None ELSE p2l[p]
      /\ ValidWithout(lba) \in [Blocks -> 0..PagesPerBlock]
      /\ \A b \in Blocks :
           /\ ValidWithout(lba)[b] = Cardinality(MappedIn(Unmapped(lba), b))
           /\ ValidWithout(lba)[b] <= valid[b]
  BY InvalidateCounts DEF IInv
<1>3. /\ l2p \in [Lbas -> Pages \cup {None}] /\ p2l \in [Pages -> Lbas \cup {None}]
      /\ free \in Seq(Blocks) /\ active \in Blocks /\ wp \in 0..PagesPerBlock
      /\ PagesPerBlock \in Nat
  BY PagesArePositive DEF IInv, TypeOK
<1>4. TypeOK'
  BY <1>1, <1>2 DEF IInv, TypeOK
<1>5. MappingIsConsistent'
  <2>1. ASSUME NEW l \in Lbas, l2p'[l] # None PROVE p2l'[l2p'[l]] = l
    <3>1. l # lba /\ l2p'[l] = l2p[l] /\ l2p[l] \in Pages
      BY <1>1, <1>3, <2>1
    <3>2. p2l[l2p[l]] = l
      BY <2>1, <3>1 DEF IInv, MappingIsConsistent
    <3> QED BY <1>1, <1>2, <3>1, <3>2
  <2>2. ASSUME NEW p \in Pages, p2l'[p] # None PROVE l2p'[p2l'[p]] = p
    <3>1. p2l'[p] = p2l[p] /\ p2l[p] # lba /\ p2l[p] \in Lbas
      BY <1>1, <1>2, <1>3, <2>2
    <3>2. l2p[p2l[p]] = p
      BY <2>2, <3>1 DEF IInv, MappingIsConsistent
    <3> QED BY <1>1, <1>3, <3>1, <3>2
  <2>3. \A b \in Blocks : valid'[b] = Cardinality(MappedIn(p2l', b))
    BY <1>1, <1>2
  <2> QED BY <2>1, <2>2, <2>3 DEF MappingIsConsistent, MappedIn, Offsets
<1>6. ErasedSpaceIsEmpty'
  <2>1. ASSUME NEW i \in DOMAIN free PROVE valid'[free[i]] = 0
    <3>1. free[i] \in Blocks /\ valid[free[i]] = 0
      BY <1>3 DEF IInv, ErasedSpaceIsEmpty
    <3>2. valid'[free[i]] <= 0 /\ valid'[free[i]] \in 0..PagesPerBlock
      BY <1>1, <1>2, <3>1
    <3> QED BY <1>3, <3>2
  <2>2. ASSUME NEW i \in wp..(PagesPerBlock - 1) PROVE p2l'[PageOf(active, i)] = None
    <3>1. p2l[PageOf(active, i)] = None
      BY DEF IInv, ErasedSpaceIsEmpty
    <3>2. PageOf(active, i) \in Pages
      BY <1>3, PagesAreUnique DEF Offsets
    <3> QED BY <1>1, <1>2, <3>1, <3>2
  <2> QED BY <1>1, <2>1, <2>2 DEF IInv, ErasedSpaceIsEmpty
<1>7. CollectionHasRoom'
  BY <1>1, <1>3 DEF CollectionHasRoom
<1> QED BY <1>4, <1>5, <1>6, <1>7 DEF IInv

\* A collection starts.
LEMMA StartGcKeepsIInv == ASSUME IInv, StartGc PROVE IInv'
<1>1. /\ l2p' = l2p /\ p2l' = p2l /\ valid' = valid /\ free' = free /\ active' = active /\ wp' = wp
      /\ victim = None /\ Len(free) < GcReserve /\ victim' = Greedy /\ next' = 0
  BY DEF StartGc, hostVars
<1>2. victim' \in Blocks /\ victim' # active /\ ~ IsFree(victim')
  <2>1. Greedy \in Candidates
    BY <1>1, VictimExists DEF IInv
  <2>2. victim' \in Candidates
    BY <1>1, <2>1
  <2> QED BY <2>2 DEF Candidates
<1>3. TypeOK'
  BY <1>1, <1>2, BlocksAreNat DEF IInv, TypeOK
<1>4. MappingIsConsistent'
  BY <1>1 DEF IInv, MappingIsConsistent
<1>5. ErasedSpaceIsEmpty'
  BY <1>1, <1>2 DEF IInv, ErasedSpaceIsEmpty, IsFree
<1>6. CollectionHasRoom'
  <2>1. free # <<>>
    BY <1>1 DEF IInv, CollectionHasRoom
  <2>2. victim' # None
    BY <1>2, BlocksAreNat DEF None
  <2> QED BY <1>1, <1>2, <2>1, <2>2 DEF CollectionHasRoom
<1> QED BY <1>3, <1>4, <1>5, <1>6 DEF IInv

\* A collection looks at one page.
LEMMA RelocateKeepsIInv == ASSUME IInv, Relocate PROVE IInv'
<1> DEFINE p == PageOf(victim, next)
           lba == p2l[p]
<1>1. /\ victim # None /\ victim \in Blocks /\ next \in Offsets
      /\ victim' = victim /\ next' = next + 1 /\ next' \in 0..PagesPerBlock
      /\ next \in Nat /\ PagesPerBlock \in Nat
  BY PagesArePositive DEF Relocate, IInv, TypeOK, Offsets
<1>2. p \in Pages /\ BlockOf(p) = victim
  BY <1>1, PagesAreUnique
<1>3. /\ victim # active
      /\ \A i \in 0..(next - 1) : p2l[PageOf(victim, i)] = None
      /\ free # <<>> \/ valid[victim] <= PagesPerBlock - wp
  BY <1>1 DEF IInv, CollectionHasRoom
<1>4. CASE lba = None
  <2>1. l2p' = l2p /\ p2l' = p2l /\ valid' = valid /\ free' = free /\ active' = active /\ wp' = wp
    BY <1>4 DEF Relocate, hostVars
  <2>2. \A i \in 0..(next' - 1) : p2l[PageOf(victim, i)] = None
    BY <1>1, <1>3, <1>4
  <2>3. TypeOK'
    BY <1>1, <2>1 DEF IInv, TypeOK
  <2>4. MappingIsConsistent'
    <3>1. MappingIsConsistent
      BY DEF IInv
    <3> QED BY <2>1, <3>1 DEF MappingIsConsistent
  <2>5. ErasedSpaceIsEmpty'
    <3>1. ErasedSpaceIsEmpty
      BY DEF IInv
    <3> QED BY <1>1, <2>1, <3>1 DEF ErasedSpaceIsEmpty, IsFree
  <2>6. CollectionHasRoom'
    BY <1>1, <1>3, <2>1, <2>2 DEF CollectionHasRoom
  <2> QED BY <2>3, <2>4, <2>5, <2>6 DEF IInv
<1>5. CASE lba # None
  <2>1. lba \in Lbas /\ l2p[lba] = p /\ l2p[lba] # None /\ Program(lba)
    <3>1. lba \in Lbas \cup {None}
      BY <1>2 DEF IInv, TypeOK
    <3>2. lba \in Lbas /\ p # None
      BY <1>2, <1>5, <3>1, BlocksAreNat DEF None
    <3>3. l2p[lba] = p
      BY <1>2, <1>5, <3>2 DEF IInv, MappingIsConsistent
    <3>4. Program(lba)
      BY <1>5 DEF Relocate
    <3> QED BY <3>2, <3>3, <3>4
  <2> HIDE DEF p, lba
  <2>2. /\ TypeOK' /\ MappingIsConsistent' /\ ErasedSpaceIsEmpty'
        /\ \A q \in Pages : BlockOf(q) = victim /\ p2l'[q] # None => p2l'[q] = p2l[q] /\ p2l[q] # lba
        /\ victim # active'
        /\ free' # <<>> \/ valid'[victim] <= PagesPerBlock - wp'
    BY <1>1, <1>2, <2>1, ProgramKeepsIInv
  <2>3. ASSUME NEW i \in 0..(next' - 1) PROVE p2l'[PageOf(victim, i)] = None
    <3>1. i \in Offsets /\ (i \in 0..(next - 1) \/ i = next)
      BY <1>1 DEF Offsets
    <3>2. PageOf(victim, i) \in Pages /\ BlockOf(PageOf(victim, i)) = victim
      BY <1>1, <3>1, PagesAreUnique
    <3>3. CASE i \in 0..(next - 1)
      BY <1>3, <2>2, <3>2, <3>3
    <3>4. CASE i = next
      BY <2>2, <3>2, <3>4 DEF p, lba
    <3> QED BY <3>1, <3>3, <3>4
  <2>4. CollectionHasRoom'
    BY <1>1, <2>2, <2>3 DEF CollectionHasRoom
  <2> QED BY <2>2, <2>4 DEF IInv
<1> QED BY <1>4, <1>5

\* A collection ends.
LEMMA FinishGcKeepsIInv == ASSUME IInv, FinishGc PROVE IInv'
<1>1. /\ l2p' = l2p /\ p2l' = p2l /\ valid' = valid /\ active' = active /\ wp' = wp /\ next' = next
      /\ victim # None /\ victim \in Blocks /\ next = PagesPerBlock
      /\ free' = Append(free, victim) /\ victim' = None
      /\ free \in Seq(Blocks)
  BY DEF FinishGc, IInv, TypeOK
<1>2. /\ free' \in Seq(Blocks) /\ free' # <<>>
      /\ \A i \in DOMAIN free' :
           \/ i \in DOMAIN free /\ free'[i] = free[i]
           \/ i = Len(free) + 1 /\ free'[i] = victim
  BY <1>1
<1>3. valid[victim] = 0
  <2>1. MappedIn(p2l, victim) = {}
    BY <1>1 DEF IInv, CollectionHasRoom, MappedIn, Offsets
  <2>2. valid[victim] = Cardinality(MappedIn(p2l, victim))
    BY <1>1 DEF IInv, MappingIsConsistent, MappedIn, Offsets
  <2> QED BY <2>1, <2>2, FS_EmptySet
<1>4. victim # active
  BY <1>1 DEF IInv, CollectionHasRoom
<1>5. TypeOK'
  BY <1>1, <1>2 DEF IInv, TypeOK
<1>6. MappingIsConsistent'
  BY <1>1 DEF IInv, MappingIsConsistent
<1>7. ErasedSpaceIsEmpty'
  <2>1. \A i \in DOMAIN free : /\ valid[free[i]] = 0 /\ free[i] # active /\ free[i] # victim
                               /\ \A j \in DOMAIN free : free[i] = free[j] => i = j
    BY DEF IInv, ErasedSpaceIsEmpty
  <2>2. \A i \in wp..(PagesPerBlock - 1) : p2l[PageOf(active, i)] = None
    BY DEF IInv, ErasedSpaceIsEmpty
  <2>3. \A i \in DOMAIN free' : free'[i] \in Blocks
    BY <1>2
  <2>4. \A b \in Blocks : b # None
    BY BlocksAreNat DEF None
  <2>5. \A i \in DOMAIN free' : /\ valid[free'[i]] = 0 /\ free'[i] # active /\ free'[i] # None
                                /\ \A j \in DOMAIN free' : free'[i] = free'[j] => i = j
    BY <1>2, <1>3, <1>4, <2>1, <2>3, <2>4
  <2> QED BY <1>1, <2>2, <2>5 DEF ErasedSpaceIsEmpty
<1>8. CollectionHasRoom'
  BY <1>1, <1>2 DEF CollectionHasRoom
<1> QED BY <1>5, <1>6, <1>7, <1>8 DEF IInv

\* Theorem: the inductive invariant, hence type correctness, the consistency
\* of maps and counters, and the emptiness of what will be written.
THEOREM InvariantHolds == Spec => []IInv
<1>1. Init => IInv
  BY InitIInv
<1>2. IInv /\ [Next]_vars => IInv'
  <2> SUFFICES ASSUME IInv, [Next]_vars PROVE IInv'
    OBVIOUS
  <2>1. CASE \E lba \in Lbas : Write(lba) \/ Trim(lba)
    BY <2>1, WriteKeepsIInv, TrimKeepsIInv
  <2>2. CASE StartGc
    BY <2>2, StartGcKeepsIInv
  <2>3. CASE Relocate
    BY <2>3, RelocateKeepsIInv
  <2>4. CASE FinishGc
    BY <2>4, FinishGcKeepsIInv
  <2>5. CASE UNCHANGED vars
    BY <2>5 DEF vars, IInv, TypeOK, MappingIsConsistent, ErasedSpaceIsEmpty, CollectionHasRoom
  <2> QED BY <2>1, <2>2, <2>3, <2>4, <2>5 DEF Next, GcStep
<1> QED BY <1>1, <1>2, PTL DEF Spec

\* Theorem: l2p, p2l and the valid counters agree, in the middle of a
\* collection too (mapping_is_consistent, ftl.rs).
THEOREM MapsAreConsistent == Spec => []MappingIsConsistent
<1>1. IInv => MappingIsConsistent
  BY DEF IInv
<1> QED BY <1>1, InvariantHolds, PTL

\* Theorem: nothing is ever written over.
THEOREM NothingIsOverwritten == Spec => []ErasedSpaceIsEmpty
<1>1. IInv => ErasedSpaceIsEmpty
  BY DEF IInv
<1> QED BY <1>1, InvariantHolds, PTL

\* Theorem: whatever the geometry, neither "device out of erased blocks" nor
\* "no GC victim" happens; the assumption on OpBlocks is what it takes.
THEOREM DeviceNeverPanics == Spec => []NeverPanics
<1>1. IInv => NeverPanics
  <2> SUFFICES ASSUME IInv PROVE NeverPanics
    OBVIOUS
  <2>1. ASSUME ProgramIsNext, wp = PagesPerBlock PROVE free # <<>>
    <3>1. CASE Idle
      BY <3>1 DEF Idle, GcReserve
    <3>2. CASE victim # None /\ next < PagesPerBlock /\ p2l[PageOf(victim, next)] # None
      <4>1. victim \in Blocks /\ next \in Offsets /\ PagesPerBlock \in Nat
        BY <3>2, PagesArePositive DEF IInv, TypeOK, Offsets
      <4>2. valid[victim] # 0 /\ valid[victim] \in 0..PagesPerBlock
        BY <3>2, <4>1, EmptyBlock DEF IInv, TypeOK
      <4>3. free # <<>> \/ valid[victim] <= PagesPerBlock - wp
        BY <3>2 DEF IInv, CollectionHasRoom
      <4> QED BY <2>1, <4>1, <4>2, <4>3
    <3> QED BY <2>1, <3>1, <3>2 DEF ProgramIsNext
  <2>2. Len(free) < GcReserve => Candidates # {}
    BY VictimExists DEF IInv
  <2> QED BY <2>1, <2>2 DEF NeverPanics
<1> QED BY <1>1, InvariantHolds, PTL

\* Theorem: collection keeps every logical page: no step of it maps or unmaps
\* one.
THEOREM DataIsKept == Spec => CollectionKeepsData
<1>1. IInv /\ [Next]_vars => [GcStep => Mapped' = Mapped]_vars
  <2> SUFFICES ASSUME IInv, GcStep PROVE Mapped' = Mapped
    OBVIOUS
  <2>1. CASE StartGc \/ FinishGc
    BY <2>1 DEF StartGc, FinishGc, hostVars, Mapped
  <2>2. CASE Relocate
    <3> DEFINE lba == p2l[PageOf(victim, next)]
    <3>1. CASE lba = None
      BY <2>2, <3>1 DEF Relocate, hostVars, Mapped
    <3>2. CASE lba # None
      <4>1. /\ victim \in Blocks /\ next \in Offsets /\ free \in Seq(Blocks)
            /\ active \in Blocks /\ wp \in 0..PagesPerBlock /\ PagesPerBlock \in Nat \ {0}
            /\ l2p \in [Lbas -> Pages \cup {None}] /\ p2l \in [Pages -> Lbas \cup {None}]
        BY <2>2, PagesArePositive DEF Relocate, IInv, TypeOK, Offsets
      <4>2. PageOf(victim, next) \in Pages
        BY <4>1, PagesAreUnique
      <4>3. lba \in Lbas /\ l2p[lba] # None /\ Program(lba)
        BY <2>2, <3>2, <4>1, <4>2, BlocksAreNat DEF Relocate, IInv, MappingIsConsistent, None
      <4> HIDE DEF lba
      <4>4. \E q \in Pages : l2p' = [l2p EXCEPT ![lba] = q]
        <5>1. CASE wp < PagesPerBlock /\ Place(lba, active, wp)
          <6>1. PageOf(active, wp) \in Pages
            BY <4>1, <5>1, PagesAreUnique DEF Offsets
          <6> QED BY <5>1, <6>1 DEF Place
        <5>2. CASE free # <<>> /\ Place(lba, Head(free), 0)
          <6>1. Head(free) \in Blocks /\ 0 \in Offsets
            BY <4>1, <5>2, FreeListTail DEF Offsets
          <6>2. PageOf(Head(free), 0) \in Pages
            BY <6>1, PagesAreUnique
          <6> QED BY <5>2, <6>2 DEF Place
        <5> QED BY <4>3, <5>1, <5>2 DEF Program
      <4>5. \A q \in Pages : q # None
        BY BlocksAreNat DEF None
      <4> QED BY <4>1, <4>3, <4>4, <4>5 DEF Mapped
    <3> QED BY <3>1, <3>2
  <2> QED BY <2>1, <2>2 DEF GcStep
<1> QED BY <1>1, InvariantHolds, PTL DEF Spec, CollectionKeepsData

-----------------------------------------------------------------------------
(* Every collection gains. *)

\* While write() collects, the active block holds the page that was written
\* last, so the candidates cannot hold every logical page.
ActiveIsUsed == ~ Idle => \E i \in Offsets : p2l[PageOf(active, i)] # None

\* All blocks but the active one and at most one erased block are candidates.
LEMMA CandidatesAreMany ==
  ASSUME TypeOK, Len(free) < GcReserve
  PROVE  IsFiniteSet(Candidates) /\ Cardinality(Candidates) \in Nat
         /\ Cardinality(Candidates) >= LogicalBlocks
<1> DEFINE U == {active} \cup {free[i] : i \in DOMAIN free}
<1>1. /\ LogicalBlocks \in Nat \ {0} /\ OpBlocks \in Nat /\ OpBlocks >= 2
      /\ active \in Blocks
  BY LogicalBlocksArePositive, OpBlocksCoverReserve DEF GcReserve, TypeOK
<1>2. free \in Seq(Blocks)
  BY DEF TypeOK
<1>3. DOMAIN free = 1..Len(free) /\ Len(free) \in Nat
  BY <1>2
<1>4. \A i \in DOMAIN free : i = 1
  BY <1>3 DEF GcReserve
<1>5. IsFiniteSet(Blocks) /\ Cardinality(Blocks) = LogicalBlocks + OpBlocks
  <2> DEFINE N == LogicalBlocks + OpBlocks
  <2>1. N \in Nat /\ Blocks = 0..(N - 1)
    BY <1>1 DEF Blocks
  <2> HIDE DEF N
  <2>2. IsFiniteSet(Blocks) /\ Cardinality(Blocks) = N
    BY <2>1, CountBelow
  <2> QED BY <2>2 DEF N
<1>6. IsFiniteSet({active, free[1]}) /\ Cardinality({active, free[1]}) <= 2
  <2>1. IsFiniteSet({active}) /\ Cardinality({active}) = 1
    BY FS_Singleton
  <2>2. IsFiniteSet({active} \cup {free[1]})
        /\ Cardinality({active} \cup {free[1]}) = IF free[1] \in {active} THEN 1 ELSE 1 + 1
    BY <2>1, FS_AddElement
  <2>3. {active, free[1]} = {active} \cup {free[1]}
    OBVIOUS
  <2> DEFINE taken == {active} \cup {free[1]}
  <2>4. IsFiniteSet(taken) /\ Cardinality(taken) <= 2
    <3>1. IsFiniteSet(taken) /\ Cardinality(taken) \in {1, 1 + 1}
      BY <2>2
    <3> HIDE DEF taken
    <3> QED BY <3>1
  <2> QED BY <2>3, <2>4
<1>7. U \in SUBSET {active, free[1]}
  BY <1>4
<1>8. Candidates = Blocks \ U
  BY DEF Candidates, IsFree
<1> HIDE DEF U
<1>9. Blocks \cap U \in SUBSET {active, free[1]}
  BY <1>7
<1>10. /\ IsFiniteSet(Blocks \cap U)
       /\ Cardinality(Blocks \cap U) <= Cardinality({active, free[1]})
  BY <1>6, <1>9, FS_Subset
<1>11. Cardinality(Blocks \cap U) \in Nat /\ Cardinality({active, free[1]}) \in Nat
  BY <1>6, <1>10, FS_CardinalityType
<1>12. /\ IsFiniteSet(Candidates)
       /\ Cardinality(Candidates) = Cardinality(Blocks) - Cardinality(Blocks \cap U)
  BY <1>5, <1>8, FS_Difference
<1>13. Cardinality(Candidates) \in Nat
  BY <1>12, FS_CardinalityType
<1> QED BY <1>1, <1>5, <1>6, <1>10, <1>11, <1>12, <1>13

\* The pages of that many full blocks and one more are too many to hold
\* different logical pages.
LEMMA GreedyGains ==
  ASSUME IInv, Len(free) < GcReserve, \E i \in Offsets : p2l[PageOf(active, i)] # None
  PROVE  valid[Greedy] < PagesPerBlock
<1> PICK i0 \in Offsets : p2l[PageOf(active, i0)] # None
  OBVIOUS
<1>1. /\ l2p \in [Lbas -> Pages \cup {None}] /\ p2l \in [Pages -> Lbas \cup {None}]
      /\ valid \in [Blocks -> 0..PagesPerBlock] /\ active \in Blocks
      /\ PagesPerBlock \in Nat \ {0} /\ LogicalBlocks \in Nat
  BY BlocksAreNat DEF IInv, TypeOK
<1> SUFFICES ASSUME ~ (valid[Greedy] < PagesPerBlock) PROVE FALSE
  OBVIOUS
<1>2. /\ Greedy \in Candidates
      /\ \A c \in Candidates : valid[Greedy] < valid[c] \/ valid[Greedy] = valid[c]
  BY VictimExists DEF IInv
<1>3. \A c \in Candidates : c \in Blocks /\ c # active
  BY DEF Candidates
<1>4. \A c \in Candidates : valid[c] = PagesPerBlock
  BY <1>1, <1>2, <1>3
<1>5. IsFiniteSet(Offsets) /\ Cardinality(Offsets) = PagesPerBlock
  BY OffsetsAreFinite
<1>6. ASSUME NEW c \in Candidates, NEW i \in Offsets PROVE p2l[PageOf(c, i)] # None
  <2>1. Cardinality(MappedIn(p2l, c)) = PagesPerBlock
    <3>1. c \in Blocks /\ valid[c] = PagesPerBlock /\ MappingIsConsistent
      BY <1>3, <1>4 DEF IInv
    <3> QED BY <3>1 DEF MappingIsConsistent, MappedIn, Offsets
  <2>2. MappedIn(p2l, c) \in SUBSET Offsets
    BY DEF MappedIn
  <2>3. MappedIn(p2l, c) = Offsets
    BY <1>5, <2>1, <2>2, FS_Subset
  <2> QED BY <2>3 DEF MappedIn
<1> DEFINE Full == Candidates \X Offsets
           S == Full \cup {<<active, i0>>}
           lbaAt == [s \in S |-> p2l[PageOf(s[1], s[2])]]
<1>7. ASSUME NEW s \in S
      PROVE  /\ s[1] \in Blocks /\ s[2] \in Offsets /\ s = <<s[1], s[2]>>
             /\ PageOf(s[1], s[2]) \in Pages
             /\ lbaAt[s] \in Lbas /\ l2p[lbaAt[s]] = PageOf(s[1], s[2])
  <2>1. s[1] \in Blocks /\ s[2] \in Offsets /\ s = <<s[1], s[2]>> /\ p2l[PageOf(s[1], s[2])] # None
    <3>1. CASE s \in Full
      <4>1. s[1] \in Candidates /\ s[2] \in Offsets /\ s = <<s[1], s[2]>>
        BY <3>1
      <4> QED BY <1>3, <1>6, <4>1
    <3>2. CASE s = <<active, i0>>
      BY <1>1, <3>2
    <3> QED BY <3>1, <3>2
  <2>2. PageOf(s[1], s[2]) \in Pages
    BY <2>1, PagesAreUnique
  <2>3. lbaAt[s] = p2l[PageOf(s[1], s[2])]
    OBVIOUS
  <2> HIDE DEF lbaAt, S, Full
  <2> QED BY <1>1, <2>1, <2>2, <2>3 DEF IInv, MappingIsConsistent
<1>8. Cardinality(Lbas) = LogicalBlocks * PagesPerBlock /\ IsFiniteSet(Lbas)
  <2> DEFINE n == LogicalBlocks * PagesPerBlock
  <2>1. n \in Nat
    BY <1>1
  <2>2. Lbas = 0..(n - 1)
    BY DEF Lbas
  <2> HIDE DEF n
  <2>3. IsFiniteSet(Lbas) /\ Cardinality(Lbas) = n
    BY <2>1, <2>2, CountBelow
  <2> QED BY <2>3 DEF n
<1>9. /\ IsFiniteSet(Candidates) /\ Cardinality(Candidates) \in Nat
      /\ Cardinality(Candidates) >= LogicalBlocks
  BY CandidatesAreMany DEF IInv
<1>10. IsFiniteSet(Full) /\ Cardinality(Full) = Cardinality(Candidates) * Cardinality(Offsets)
  BY <1>5, <1>9, FS_Product
<1>11. <<active, i0>> \notin Full
  BY <1>3
<1> HIDE DEF Full
<1>12. IsFiniteSet(S) /\ Cardinality(S) = Cardinality(Full) + 1
  BY <1>10, <1>11, FS_AddElement
<1>13. Cardinality(Lbas) < Cardinality(S)
  <2> DEFINE k == Cardinality(Candidates)
  <2>1. k \in Nat /\ k >= LogicalBlocks
    BY <1>9
  <2>2. Cardinality(S) = k * PagesPerBlock + 1
    BY <1>5, <1>10, <1>12
  <2> HIDE DEF k
  <2>3. LogicalBlocks * PagesPerBlock <= k * PagesPerBlock
    BY <1>1, <2>1
  <2>4. LogicalBlocks * PagesPerBlock \in Nat /\ k * PagesPerBlock \in Nat
    BY <1>1, <2>1
  <2> QED BY <1>8, <2>2, <2>3, <2>4
<1>14. lbaAt \in [S -> Lbas]
  <2>1. lbaAt = [s \in S |-> lbaAt[s]]
    OBVIOUS
  <2> HIDE DEF lbaAt, S
  <2> QED BY <1>7, <2>1
<1> HIDE DEF lbaAt, S
<1>15. PICK x \in S, y \in S : x # y /\ lbaAt[x] = lbaAt[y]
  BY <1>8, <1>12, <1>13, <1>14, FS_PigeonHole
<1>16. PageOf(x[1], x[2]) = PageOf(y[1], y[2])
  BY <1>7, <1>15
<1>17. x[1] = y[1] /\ x[2] = y[2]
  BY <1>7, <1>16, PagesAreUnique
<1> QED BY <1>7, <1>15, <1>17

\* A page that was just programmed is in the active block.
LEMMA ProgramUsesActive ==
  ASSUME IInv, NEW lba \in Lbas, Program(lba)
  PROVE  \E i \in Offsets : p2l'[PageOf(active', i)] # None
<1>1. /\ free \in Seq(Blocks) /\ active \in Blocks /\ wp \in 0..PagesPerBlock
      /\ PagesPerBlock \in Nat \ {0} /\ lba # None
  BY BlocksAreNat DEF IInv, TypeOK, Lbas, None
<1>2. Unmapped(lba) \in [Pages -> Lbas \cup {None}]
  BY InvalidateCounts DEF IInv
<1>3. ASSUME NEW b \in Blocks, NEW i \in Offsets, Place(lba, b, i)
      PROVE  p2l'[PageOf(active', i)] = lba
  <2>1. p2l' = [Unmapped(lba) EXCEPT ![PageOf(b, i)] = lba] /\ active' = b
    BY <1>3 DEF Place
  <2> QED BY <1>2, <2>1, PagesAreUnique
<1>4. CASE wp < PagesPerBlock /\ Place(lba, active, wp)
  BY <1>1, <1>3, <1>4 DEF Offsets
<1>5. CASE free # <<>> /\ Place(lba, Head(free), 0)
  <2>1. Head(free) \in Blocks /\ 0 \in Offsets
    BY <1>1, <1>5, FreeListTail DEF Offsets
  <2> QED BY <1>1, <1>3, <1>5, <2>1
<1> QED BY <1>4, <1>5 DEF Program

\* Theorem: the victim of every collection has an invalid page, so each turn
\* of write()'s loop gains at least one, whatever the geometry.
THEOREM CollectionGains == Spec => []VictimHasInvalidPage
<1> DEFINE Gains == ActiveIsUsed /\ VictimHasInvalidPage
<1>1. Init => Gains
  <2>1. Init => IInv
    BY InitIInv
  <2>2. ASSUME Init PROVE Idle
    <3> DEFINE N == LogicalBlocks + OpBlocks
    <3>1. N \in Nat /\ N >= 3
      BY LogicalBlocksArePositive, OpBlocksCoverReserve DEF GcReserve
    <3>2. free = [i \in 1..(N - 1) |-> i] /\ victim = None
      BY <2>2, <3>1, BlocksAreNat DEF Init
    <3> HIDE DEF N
    <3>3. Len(free) = N - 1
      BY <3>1, <3>2
    <3> QED BY <3>1, <3>2, <3>3 DEF Idle, GcReserve
  <2> QED BY <2>2 DEF ActiveIsUsed, VictimHasInvalidPage, Idle
<1>2. IInv /\ Gains /\ [Next]_vars => Gains'
  <2> SUFFICES ASSUME IInv, Gains, [Next]_vars PROVE Gains'
    OBVIOUS
  <2>1. CASE \E lba \in Lbas : Write(lba)
    <3>1. PICK lba \in Lbas : Write(lba)
      BY <2>1
    <3>2. \E i \in Offsets : p2l'[PageOf(active', i)] # None
      BY <3>1, ProgramUsesActive DEF Write
    <3>3. victim' = None
      BY <3>1 DEF Write, Idle
    <3> QED BY <3>2, <3>3 DEF ActiveIsUsed, VictimHasInvalidPage
  <2>2. CASE \E lba \in Lbas : Trim(lba)
    <3>1. Idle' /\ victim' = None
      BY <2>2 DEF Trim, Idle
    <3> QED BY <3>1 DEF ActiveIsUsed, VictimHasInvalidPage
  <2>3. CASE StartGc
    <3>1. /\ p2l' = p2l /\ valid' = valid /\ active' = active
          /\ victim = None /\ Len(free) < GcReserve /\ victim' = Greedy
      BY <2>3 DEF StartGc, hostVars
    <3>2. Len(free) \in Nat
      BY DEF IInv, TypeOK
    <3>3. \E i \in Offsets : p2l[PageOf(active, i)] # None
      BY <3>1, <3>2 DEF ActiveIsUsed, Idle, GcReserve
    <3>4. valid[Greedy] < PagesPerBlock
      BY <3>1, <3>3, GreedyGains
    <3>5. VictimHasInvalidPage'
      <4>1. valid'[victim'] < PagesPerBlock
        BY <3>1, <3>4
      <4> QED BY <4>1 DEF VictimHasInvalidPage
    <3> QED BY <3>1, <3>3, <3>5 DEF ActiveIsUsed
  <2>4. CASE Relocate
    <3>1. victim # None /\ victim \in Blocks /\ next \in Offsets /\ next' = next + 1 /\ next \in Nat
      BY <2>4, BlocksAreNat DEF Relocate, IInv, TypeOK, Offsets
    <3>2. VictimHasInvalidPage'
      BY <3>1 DEF VictimHasInvalidPage
    <3>3. \E i \in Offsets : p2l'[PageOf(active', i)] # None
      <4> DEFINE lba == p2l[PageOf(victim, next)]
      <4>1. CASE lba = None
        BY <2>4, <3>1, <4>1 DEF Relocate, hostVars, ActiveIsUsed, Idle
      <4>2. CASE lba # None
        <5>1. lba \in Lbas /\ Program(lba)
          BY <2>4, <3>1, <4>2, PagesAreUnique DEF Relocate, IInv, TypeOK
        <5> QED BY <5>1, ProgramUsesActive
      <4> QED BY <4>1, <4>2
    <3> QED BY <3>2, <3>3 DEF ActiveIsUsed
  <2>5. CASE FinishGc
    <3>1. p2l' = p2l /\ active' = active /\ victim # None /\ victim' = None
      BY <2>5 DEF FinishGc
    <3> QED BY <3>1 DEF ActiveIsUsed, Idle, VictimHasInvalidPage
  <2>6. CASE UNCHANGED vars
    BY <2>6 DEF vars, ActiveIsUsed, Idle, VictimHasInvalidPage
  <2> QED BY <2>1, <2>2, <2>3, <2>4, <2>5, <2>6 DEF Next, GcStep
<1>3. Gains => VictimHasInvalidPage
  OBVIOUS
<1> HIDE DEF Gains
<1> QED BY <1>1, <1>2, <1>3, InvariantHolds, PTL DEF Spec

-----------------------------------------------------------------------------
(* The overload simulator *)

Attempts == [arrival : Nat, seq : Nat, left : Nat, prio : Nat, origin : Nat]
Outcomes == {"rejected", "success", "retried", "abandoned"}
Entries == [q : Attempts, outcome : Outcomes, start : Nat]
Windows == [offered : Nat, rejected : Nat, goodput : Nat]
Counts == [successes : Nat, attempts : Nat]

\* The types of the simulation's state.
SimTypeOK ==
  /\ cfg \in Configs
  /\ heap \subseteq Attempts
  /\ seq \in Nat /\ serverFree \in Nat
  /\ windows \in [0..(cfg.duration \div Second - 1) -> Windows]
  /\ perPriority \in [0..(Levels(cfg) - 1) -> Counts]
  /\ log \in Seq(Entries)

\* Attempts are numbered apart.
NumbersAreTaken ==
  /\ \A q \in heap : q.seq < seq
  /\ \A q, r \in heap : q.seq = r.seq => q = r

\* What was popped is in order, and before all that is still to come.
Precedes(q, r) == q.arrival < r.arrival \/ (q.arrival = r.arrival /\ q.seq < r.seq)
PopsAreOrdered ==
  /\ \A i, j \in DOMAIN log : i < j => Precedes(log[i].q, log[j].q)
  /\ \A i \in DOMAIN log, q \in heap : Precedes(log[i].q, q)

\* The server's work so far, up to serverFree: one attempt at a time, in order,
\* without a gap that an attempt waited in.
Covered(t) == InOutage(t) \/ \E j \in Served : WorksAt(j, t)
WorkIsPacked ==
  /\ serverFree = 0 \/ \E i \in Served : serverFree = log[i].start + cfg.service
  /\ \A i \in Served : /\ log[i].start + cfg.service <= serverFree
                       /\ ~ InOutage(log[i].start)
                       /\ \A t \in log[i].q.arrival..(log[i].start - 1) : Covered(t)
  /\ \A i, j \in Served : i < j => log[i].start + cfg.service <= log[j].start

\* Within a window the successes so far are a service time apart.
GoodputIsSpaced ==
  \A w \in DOMAIN windows : windows[w].goodput > 0 =>
    \E d \in 0..serverFree : /\ d \div Second = w
                             /\ w * Second + (windows[w].goodput - 1) * cfg.service <= d

\* The attempts of one request so far, and the one to come, if any.
AttemptInChain(first, i) ==
  LET earlier == {j \in AttemptsOf(first.origin) : j < i}
  IN  /\ log[i].q.prio = first.prio
      /\ log[i].q.arrival = first.arrival + Cardinality(earlier) * cfg.timeout
      /\ \A j \in earlier : log[j].outcome = "retried"
AllRetried(o) == \A i \in AttemptsOf(o) : log[i].outcome = "retried"
NextInChain(first, p) ==
  LET n == Cardinality(AttemptsOf(first.origin))
  IN  /\ p.prio = first.prio
      /\ n + p.left = cfg.retries
      /\ p.arrival = first.arrival + n * cfg.timeout
ChainOf(first) ==
  /\ Cardinality(AttemptsOf(first.origin)) <= cfg.retries + 1
  /\ \A i \in AttemptsOf(first.origin) : AttemptInChain(first, i)
  /\ IF AllRetried(first.origin)
     THEN \E p \in heap : Pending(first.origin) = {p} /\ NextInChain(first, p)
     ELSE Pending(first.origin) = {}
Chains ==
  /\ \A first \in Originals(cfg) : ChainOf(first)
  /\ \A i \in DOMAIN log : \E first \in Originals(cfg) : first.origin = log[i].q.origin
  /\ \A q \in heap : \E first \in Originals(cfg) : first.origin = q.origin

\* What the report counts.
PoppedOf(p) == {i \in DOMAIN log : log[i].q.prio = p}
SuccessesOf(p) == {i \in DOMAIN log : log[i].q.prio = p /\ log[i].outcome = "success"}
ReportCounts ==
  \A p \in DOMAIN perPriority :
    /\ perPriority[p].attempts = Cardinality(PoppedOf(p))
    /\ perPriority[p].successes = Cardinality(SuccessesOf(p))

SimInv == /\ SimTypeOK /\ NumbersAreTaken /\ PopsAreOrdered /\ WorkIsPacked
          /\ GoodputIsSpaced /\ Chains /\ ReportCounts

-----------------------------------------------------------------------------
\* The numbers of a simulation.
LEMMA ConfigFacts ==
  ASSUME NEW c \in Configs
  PROVE  /\ Second \in Nat \ {0} /\ c.service \in Nat \ {0} /\ c.load \in 1..Second
         /\ c.timeout \in Nat /\ c.retries \in Nat /\ c.outageStart \in Nat
         /\ c.outage \in Nat /\ c.duration \in Nat /\ c.levels \in Nat
         /\ Interval(c) \in Nat \ {0} /\ Levels(c) \in Nat \ {0}
<1>1. /\ Second \in Nat \ {0}
      /\ c.service \in Nat \ {0} /\ c.load \in 1..Second
      /\ c.timeout \in Nat /\ c.retries \in Nat /\ c.outageStart \in Nat
      /\ c.outage \in Nat /\ c.duration \in Nat /\ c.levels \in Nat
  BY ConfigsAssumption
<1>2. \A s, l \in Nat \ {0} : l <= s => s \div l \in Nat \ {0}
  OBVIOUS
<1>3. c.load \in Nat \ {0} /\ c.load <= Second
  BY <1>1
<1>4. Interval(c) \in Nat \ {0}
  BY <1>1, <1>2, <1>3 DEF Interval
<1>5. Levels(c) \in Nat \ {0}
  BY <1>1 DEF Levels
<1> QED BY <1>1, <1>4, <1>5

\* Multiples and quotients.
LEMMA MultipleOfInterval ==
  ASSUME NEW I \in Nat \ {0}, NEW t \in Nat
  PROVE  /\ t \div I \in Nat
         /\ t % I = 0 => t = (t \div I) * I
         /\ (t * I) % I = 0 /\ (t * I) \div I = t
         /\ (t \div I) * I <= t
OBVIOUS

\* The larger of two numbers.
LEMMA MaxOfTwo ==
  ASSUME NEW a \in Nat, NEW b \in Nat
  PROVE  Max({a, b}) = IF a >= b THEN a ELSE b
BY DEF Max

\* Where the server starts: not before the attempt is there and the server is
\* free, and after that only later because of the outage.
StartIsRight(q, s) ==
  /\ s \in Nat /\ s >= q.arrival /\ s >= serverFree
  /\ ~ InOutage(s)
  /\ \A t \in Nat : q.arrival <= t /\ serverFree <= t /\ t < s => InOutage(t)
\* What Start computes.
LEMMA StartFacts ==
  ASSUME SimTypeOK, NEW q \in Attempts
  PROVE  StartIsRight(q, Start(q))
<1> DEFINE ready == Max({q.arrival, serverFree})
<1>1. /\ cfg.outageStart \in Nat /\ cfg.outage \in Nat
      /\ q.arrival \in Nat /\ serverFree \in Nat
  BY ConfigFacts DEF SimTypeOK, Attempts
<1>2. ready = IF q.arrival >= serverFree THEN q.arrival ELSE serverFree
  BY <1>1, MaxOfTwo
<1>3. Start(q) = IF ready >= cfg.outageStart /\ ready < cfg.outageStart + cfg.outage
                 THEN cfg.outageStart + cfg.outage ELSE ready
  BY DEF Start
<1> HIDE DEF ready
<1> QED BY <1>1, <1>2, <1>3 DEF StartIsRight, InOutage, OutageEnd

\* One more number on top of a set of smaller ones.
LEMMA OneOnTop ==
  ASSUME NEW n \in Nat, NEW T, T \subseteq 1..n
  PROVE  /\ IsFiniteSet(T) /\ Cardinality(T) \in Nat
         /\ Cardinality(T \cup {n + 1}) = Cardinality(T) + 1
<1>1. IsFiniteSet(1..n)
  BY FS_Interval
<1>2. IsFiniteSet(T)
  BY <1>1, FS_Subset
<1>3. n + 1 \notin T
  OBVIOUS
<1> QED BY <1>2, <1>3, FS_CardinalityType, FS_AddElement

-----------------------------------------------------------------------------
\* The original of a number, and what it is.
OriginalAt(c, t) ==
  [arrival |-> t, seq |-> t \div Interval(c), left |-> c.retries,
   prio |-> (t \div Interval(c)) % Levels(c), origin |-> t \div Interval(c)]
\* Originals have numbers of their own.
LEMMA OriginalFacts ==
  ASSUME NEW c \in Configs
  PROVE  /\ Originals(c) = {OriginalAt(c, t) : t \in Arrivals(c)}
         /\ \A t \in Arrivals(c) : t \in Nat /\ t = (t \div Interval(c)) * Interval(c)
         /\ Originals(c) \subseteq Attempts
         /\ \A q \in Originals(c) : q.seq = q.origin /\ q.left = c.retries
         /\ \A q, r \in Originals(c) : q.origin = r.origin => q = r
<1>1. Originals(c) = {OriginalAt(c, t) : t \in Arrivals(c)}
  BY DEF Originals, OriginalAt
<1>2. Interval(c) \in Nat \ {0} /\ c.duration \in Nat /\ c.retries \in Nat /\ Levels(c) \in Nat \ {0}
  BY ConfigFacts
<1>3. ASSUME NEW t \in Arrivals(c) PROVE t \in Nat /\ t = (t \div Interval(c)) * Interval(c)
  <2>1. t \in Nat /\ t % Interval(c) = 0
    BY <1>2 DEF Arrivals
  <2> QED BY <1>2, <2>1, MultipleOfInterval
<1>4. ASSUME NEW t \in Arrivals(c)
      PROVE  /\ OriginalAt(c, t) \in Attempts
             /\ OriginalAt(c, t).seq = OriginalAt(c, t).origin
             /\ OriginalAt(c, t).left = c.retries
             /\ OriginalAt(c, t).origin = t \div Interval(c)
  <2>1. t \in Nat /\ t \div Interval(c) \in Nat
    BY <1>2, <1>3, MultipleOfInterval
  <2>2. \A k \in Nat, l \in Nat \ {0} : k % l \in Nat
    OBVIOUS
  <2>3. (t \div Interval(c)) % Levels(c) \in Nat
    BY <1>2, <2>1, <2>2
  <2> QED BY <1>2, <2>1, <2>3 DEF OriginalAt, Attempts
<1>5. ASSUME NEW t \in Arrivals(c), NEW u \in Arrivals(c),
             OriginalAt(c, t).origin = OriginalAt(c, u).origin
      PROVE  OriginalAt(c, t) = OriginalAt(c, u)
  <2>1. t = u
    BY <1>3, <1>4, <1>5
  <2> QED BY <2>1
<1>6. Originals(c) \subseteq Attempts
  BY <1>1, <1>4
<1>7. \A q \in Originals(c) : q.seq = q.origin /\ q.left = c.retries
  BY <1>1, <1>4
<1>8. \A q, r \in Originals(c) : q.origin = r.origin => q = r
  BY <1>1, <1>5
<1> QED BY <1>1, <1>3, <1>6, <1>7, <1>8

\* The originals are finitely many, and numbered below their number.
LEMMA OriginalsAreNumbered ==
  ASSUME NEW c \in Configs
  PROVE  /\ IsFiniteSet(Originals(c)) /\ Cardinality(Originals(c)) \in Nat
         /\ \A q \in Originals(c) : q.seq < Cardinality(Originals(c))
<1> DEFINE f == [t \in Arrivals(c) |-> OriginalAt(c, t)]
<1>1. Interval(c) \in Nat \ {0} /\ c.duration \in Nat
  BY ConfigFacts
<1>2. IsFiniteSet(Arrivals(c))
  <2>1. IsFiniteSet(0..(c.duration - 1))
    BY <1>1, FS_Interval
  <2>2. Arrivals(c) \subseteq 0..(c.duration - 1)
    BY DEF Arrivals
  <2> QED BY <2>1, <2>2, FS_Subset
<1>3. f \in Surjection(Arrivals(c), Originals(c))
  <2>1. f \in [Arrivals(c) -> Originals(c)]
    BY OriginalFacts
  <2>2. \A q \in Originals(c) : \E t \in Arrivals(c) : f[t] = q
    BY OriginalFacts
  <2> HIDE DEF f
  <2> QED BY <2>1, <2>2 DEF Surjection
<1>4. IsFiniteSet(Originals(c))
  BY <1>2, <1>3, FS_Surjection
<1>5. Cardinality(Originals(c)) \in Nat
  BY <1>4, FS_CardinalityType
<1>6. ASSUME NEW q \in Originals(c) PROVE q.seq < Cardinality(Originals(c))
  <2>1. PICK t \in Arrivals(c) : q = OriginalAt(c, t)
    BY OriginalFacts
  <2> DEFINE k == t \div Interval(c)
  <2>2. t \in Nat /\ t < c.duration /\ t = k * Interval(c) /\ k \in Nat /\ q.seq = k
    BY <1>1, <2>1, OriginalFacts, MultipleOfInterval DEF Arrivals, OriginalAt
  <2> HIDE DEF k
  <2> DEFINE g == [j \in 0..k |-> OriginalAt(c, j * Interval(c))]
  <2>3. ASSUME NEW j \in 0..k
        PROVE  j * Interval(c) \in Arrivals(c) /\ OriginalAt(c, j * Interval(c)).origin = j
    <3>1. j \in Nat /\ j <= k
      BY <2>2
    <3>2. \A a, b \in Nat, i \in Nat : a <= b => a * i <= b * i /\ a * i \in Nat
      OBVIOUS
    <3>3. j * Interval(c) \in Nat /\ j * Interval(c) <= t
      BY <1>1, <2>2, <3>1, <3>2
    <3>4. (j * Interval(c)) % Interval(c) = 0 /\ (j * Interval(c)) \div Interval(c) = j
      BY <1>1, <3>1, MultipleOfInterval
    <3>5. j * Interval(c) \in 0..(c.duration - 1)
      BY <1>1, <2>2, <3>3
    <3> QED BY <3>4, <3>5 DEF Arrivals, OriginalAt
  <2>4. g \in Injection(0..k, Originals(c))
    <3>1. g \in [0..k -> Originals(c)]
      BY <2>3, OriginalFacts
    <3>2. \A i, j \in 0..k : g[i] = g[j] => i = j
      <4>1. \A j \in 0..k : g[j].origin = j
        BY <2>3
      <4> HIDE DEF g
      <4> QED BY <4>1
    <3> HIDE DEF g
    <3> QED BY <3>1, <3>2 DEF Injection, IsInjective
  <2>5. Cardinality(0..k) = k + 1
    BY <2>2, FS_Interval
  <2>6. Cardinality(0..k) <= Cardinality(Originals(c))
    <3> HIDE DEF g
    <3> QED BY <1>4, <2>4, FS_Injection
  <2> QED BY <1>5, <2>2, <2>5, <2>6
<1> QED BY <1>4, <1>5, <1>6

-----------------------------------------------------------------------------
\* The originals pass: nothing has been popped.
LEMMA InitIsGood == ASSUME SimInit PROVE SimInv
<1>1. /\ cfg \in Configs /\ heap = Originals(cfg) /\ seq = Cardinality(heap) /\ log = <<>>
      /\ serverFree = 0
  BY DEF SimInit
<1>2. DOMAIN log = {}
  BY <1>1
<1>3. SimTypeOK
  <2>1. heap \subseteq Attempts /\ seq \in Nat
    BY <1>1, OriginalFacts, OriginalsAreNumbered
  <2>2. log \in Seq(Entries)
    BY <1>1
  <2>3. windows \in [0..(cfg.duration \div Second - 1) -> Windows]
    BY DEF SimInit, Windows
  <2>4. perPriority \in [0..(Levels(cfg) - 1) -> Counts]
    BY DEF SimInit, Counts
  <2> QED BY <1>1, <2>1, <2>2, <2>3, <2>4 DEF SimTypeOK
<1>4. NumbersAreTaken
  BY <1>1, OriginalFacts, OriginalsAreNumbered DEF NumbersAreTaken
<1>5. PopsAreOrdered
  BY <1>2 DEF PopsAreOrdered
<1>6. WorkIsPacked
  BY <1>1, <1>2 DEF WorkIsPacked, Served
<1>7. GoodputIsSpaced
  BY DEF SimInit, GoodputIsSpaced
<1>8. Chains
  <2>1. ASSUME NEW first \in Originals(cfg) PROVE ChainOf(first)
    <3> DEFINE o == first.origin
    <3>1. AttemptsOf(o) = {} /\ Cardinality(AttemptsOf(o)) = 0
      BY <1>2, FS_EmptySet DEF AttemptsOf
    <3>2. first \in heap /\ Pending(o) = {first}
      BY <1>1, OriginalFacts DEF Pending
    <3>3. cfg.retries \in Nat /\ cfg.timeout \in Nat /\ first \in Attempts
      BY <1>1, ConfigFacts, OriginalFacts
    <3>4. first.arrival \in Nat /\ first.left = cfg.retries
      BY <1>1, <3>3, OriginalFacts DEF Attempts
    <3>5. NextInChain(first, first)
      BY <3>1, <3>3, <3>4 DEF NextInChain
    <3> QED BY <3>1, <3>2, <3>3, <3>5 DEF ChainOf, AllRetried
  <2> QED BY <1>1, <1>2, <2>1 DEF Chains
<1>9. ReportCounts
  <2>1. \A p : PoppedOf(p) = {} /\ SuccessesOf(p) = {}
    BY <1>2 DEF PoppedOf, SuccessesOf
  <2> QED BY <2>1, FS_EmptySet DEF ReportCounts, SimInit
<1> QED BY <1>3, <1>4, <1>5, <1>6, <1>7, <1>8, <1>9 DEF SimInv

-----------------------------------------------------------------------------
\* What an iteration does: the first attempt q is popped and logged as e.
HeapAfter(q, e) ==
  \/ /\ e.outcome = "retried" /\ q.left > 0
     /\ heap' = (heap \ {q}) \cup {Retry(q)} /\ seq' = seq + 1
  \/ /\ e.outcome # "retried"
     /\ heap' = heap \ {q} /\ seq' = seq
ServerAfter(q, e) ==
  \/ e.outcome = "rejected" /\ serverFree' = serverFree
  \/ /\ e.outcome # "rejected" /\ e.start = Start(q)
     /\ serverFree' = Start(q) + cfg.service
GoodputAfter(q, e, w) ==
  windows'[w].goodput =
    IF e.outcome = "success" /\ w = (Start(q) + cfg.service) \div Second
    THEN windows[w].goodput + 1 ELSE windows[w].goodput
CountsAfter(q, e, p) ==
  /\ perPriority'[p].attempts = IF p = q.prio THEN perPriority[p].attempts + 1
                                ELSE perPriority[p].attempts
  /\ perPriority'[p].successes = IF p = q.prio /\ e.outcome = "success"
                                 THEN perPriority[p].successes + 1 ELSE perPriority[p].successes
ReportAfter(q, e) ==
  /\ windows' \in [DOMAIN windows -> Windows]
  /\ perPriority' \in [DOMAIN perPriority -> Counts]
  /\ \A w \in DOMAIN windows : GoodputAfter(q, e, w)
  /\ \A p \in DOMAIN perPriority : CountsAfter(q, e, p)
Popped(q, e) ==
  /\ e \in Entries /\ e.q = q /\ log' = Append(log, e) /\ cfg' = cfg
  /\ HeapAfter(q, e) /\ ServerAfter(q, e) /\ ReportAfter(q, e)

\* Bumping a window's count.
LEMMA BumpFacts ==
  ASSUME NEW D, NEW ws \in [D -> Windows], NEW time \in Nat,
         NEW field \in {"offered", "rejected", "goodput"}
  PROVE  /\ Bump(ws, time, field) \in [D -> Windows]
         /\ \A w \in D : Bump(ws, time, field)[w].goodput =
               IF field = "goodput" /\ w = time \div Second THEN ws[w].goodput + 1
               ELSE ws[w].goodput
<1>1. \A r \in Windows : /\ [r EXCEPT !.offered = @ + 1] \in Windows
                         /\ [r EXCEPT !.offered = @ + 1].goodput = r.goodput
                         /\ [r EXCEPT !.rejected = @ + 1] \in Windows
                         /\ [r EXCEPT !.rejected = @ + 1].goodput = r.goodput
                         /\ [r EXCEPT !.goodput = @ + 1] \in Windows
                         /\ [r EXCEPT !.goodput = @ + 1].goodput = r.goodput + 1
  BY DEF Windows
<1>2. ASSUME NEW w \in D
      PROVE  Bump(ws, time, field)[w] =
               IF w = time \div Second THEN [ws[w] EXCEPT ![field] = @ + 1] ELSE ws[w]
  BY <1>2 DEF Bump
<1>3. ASSUME NEW r \in Windows
      PROVE  /\ [r EXCEPT ![field] = @ + 1] \in Windows
             /\ [r EXCEPT ![field] = @ + 1].goodput =
                   IF field = "goodput" THEN r.goodput + 1 ELSE r.goodput
  <2>1. CASE field = "offered"
    <3>1. [r EXCEPT ![field] = @ + 1] = [r EXCEPT !.offered = @ + 1]
      BY <2>1
    <3>2. field # "goodput"
      BY <2>1
    <3> QED BY <1>1, <3>1, <3>2
  <2>2. CASE field = "rejected"
    <3>1. [r EXCEPT ![field] = @ + 1] = [r EXCEPT !.rejected = @ + 1]
      BY <2>2
    <3>2. field # "goodput"
      BY <2>2
    <3> QED BY <1>1, <3>1, <3>2
  <2>3. CASE field = "goodput"
    <3>1. [r EXCEPT ![field] = @ + 1] = [r EXCEPT !.goodput = @ + 1]
      BY <2>3
    <3>2. /\ [r EXCEPT !.goodput = @ + 1] \in Windows
          /\ [r EXCEPT !.goodput = @ + 1].goodput = r.goodput + 1
      BY <1>1
    <3> QED BY <2>3, <3>1, <3>2, Zenon
  <2> QED BY <2>1, <2>2, <2>3
<1>4. \A w \in D : Bump(ws, time, field)[w] \in Windows
  BY <1>2, <1>3
<1>5. Bump(ws, time, field) = [w \in D |-> Bump(ws, time, field)[w]]
  BY DEF Bump
<1>6. Bump(ws, time, field) \in [D -> Windows]
  BY <1>4, <1>5
<1>7. ASSUME NEW w \in D
      PROVE  Bump(ws, time, field)[w].goodput =
               IF field = "goodput" /\ w = time \div Second THEN ws[w].goodput + 1
               ELSE ws[w].goodput
  BY <1>2, <1>3
<1> QED BY <1>6, <1>7

\* Counting an attempt and a success.
CountIsUp(D, f, k) ==
  /\ [f EXCEPT ![k].attempts = @ + 1] \in [D -> Counts]
  /\ [f EXCEPT ![k].successes = @ + 1] \in [D -> Counts]
  /\ \A p \in D :
       /\ [f EXCEPT ![k].attempts = @ + 1][p].attempts =
             IF p = k THEN f[p].attempts + 1 ELSE f[p].attempts
       /\ [f EXCEPT ![k].attempts = @ + 1][p].successes = f[p].successes
       /\ [f EXCEPT ![k].successes = @ + 1][p].successes =
             IF p = k THEN f[p].successes + 1 ELSE f[p].successes
       /\ [f EXCEPT ![k].successes = @ + 1][p].attempts = f[p].attempts
\* Counting keeps the type and changes the one entry.
LEMMA CountFacts ==
  ASSUME NEW D, NEW f \in [D -> Counts], NEW k
  PROVE  CountIsUp(D, f, k)
<1> DEFINE a == [f EXCEPT ![k].attempts = @ + 1]
           s == [f EXCEPT ![k].successes = @ + 1]
<1>1. \A r \in Counts : /\ [r EXCEPT !.attempts = @ + 1] \in Counts
                        /\ [r EXCEPT !.attempts = @ + 1].attempts = r.attempts + 1
                        /\ [r EXCEPT !.attempts = @ + 1].successes = r.successes
                        /\ [r EXCEPT !.successes = @ + 1] \in Counts
                        /\ [r EXCEPT !.successes = @ + 1].successes = r.successes + 1
                        /\ [r EXCEPT !.successes = @ + 1].attempts = r.attempts
  BY DEF Counts
<1>2. ASSUME NEW p \in D
      PROVE  /\ a[p] = IF p = k THEN [f[p] EXCEPT !.attempts = @ + 1] ELSE f[p]
             /\ s[p] = IF p = k THEN [f[p] EXCEPT !.successes = @ + 1] ELSE f[p]
  BY <1>2
<1>3. a = [p \in D |-> a[p]] /\ s = [p \in D |-> s[p]]
  OBVIOUS
<1> HIDE DEF a, s
<1>4. ASSUME NEW p \in D PROVE a[p] \in Counts /\ s[p] \in Counts
  <2>1. f[p] \in Counts
    OBVIOUS
  <2> QED BY <1>1, <1>2, <2>1
<1>5. a \in [D -> Counts] /\ s \in [D -> Counts]
  BY <1>3, <1>4
<1>6. ASSUME NEW p \in D
      PROVE  /\ a[p].attempts = IF p = k THEN f[p].attempts + 1 ELSE f[p].attempts
             /\ a[p].successes = f[p].successes
             /\ s[p].successes = IF p = k THEN f[p].successes + 1 ELSE f[p].successes
             /\ s[p].attempts = f[p].attempts
  BY <1>1, <1>2
<1> QED BY <1>5, <1>6 DEF a, s, CountIsUp

\* Every iteration pops its attempt, whatever the policy answers.
LEMMA StepIsPop ==
  ASSUME SimTypeOK, NEW q \in heap, Reject(q) \/ Serve(q)
  PROVE  \E e : Popped(q, e)
<1>1. /\ q \in Attempts /\ q.arrival \in Nat
      /\ cfg.service \in Nat /\ Start(q) \in Nat
  BY StartFacts, ConfigFacts DEF SimTypeOK, Attempts, StartIsRight
<1>2. windows \in [DOMAIN windows -> Windows] /\ perPriority \in [DOMAIN perPriority -> Counts]
  BY DEF SimTypeOK
<1>3. /\ Offered(q) \in [DOMAIN windows -> Windows]
      /\ \A w \in DOMAIN windows : Offered(q)[w].goodput = windows[w].goodput
  BY <1>1, <1>2, BumpFacts DEF Offered
<1>4. /\ Attempted(q) \in [DOMAIN perPriority -> Counts]
      /\ \A p \in DOMAIN perPriority :
           /\ Attempted(q)[p].attempts = IF p = q.prio THEN perPriority[p].attempts + 1
                                         ELSE perPriority[p].attempts
           /\ Attempted(q)[p].successes = perPriority[p].successes
  <2> DEFINE D == DOMAIN perPriority
  <2>1. perPriority \in [D -> Counts]
    BY <1>2
  <2> HIDE DEF D
  <2>2. CountIsUp(D, perPriority, q.prio)
    BY <2>1, CountFacts
  <2> QED BY <2>2 DEF Attempted, D, CountIsUp
<1>5. CASE Reject(q)
  <2> DEFINE e == [q |-> q, outcome |-> "rejected", start |-> q.arrival]
  <2>1. e \in Entries /\ e.q = q /\ e.outcome = "rejected"
    BY <1>1 DEF Entries, Outcomes
  <2>2. log' = Append(log, e) /\ cfg' = cfg
    BY <1>5 DEF Reject, Logged
  <2> HIDE DEF e
  <2>3. HeapAfter(q, e) /\ ServerAfter(q, e)
    BY <1>5, <2>1 DEF Reject, HeapAfter, ServerAfter
  <2>4. /\ windows' \in [DOMAIN windows -> Windows]
        /\ \A w \in DOMAIN windows : GoodputAfter(q, e, w)
    <3>1. windows' = Bump(Offered(q), q.arrival, "rejected")
      BY <1>5 DEF Reject
    <3>2. /\ windows' \in [DOMAIN windows -> Windows]
          /\ \A w \in DOMAIN windows : windows'[w].goodput = Offered(q)[w].goodput
      BY <1>1, <1>3, <3>1, BumpFacts
    <3> QED BY <1>3, <2>1, <3>2 DEF GoodputAfter
  <2>5. /\ perPriority' \in [DOMAIN perPriority -> Counts]
        /\ \A p \in DOMAIN perPriority : CountsAfter(q, e, p)
    BY <1>4, <1>5, <2>1 DEF Reject, CountsAfter
  <2> QED BY <2>1, <2>2, <2>3, <2>4, <2>5 DEF Popped, ReportAfter
<1> DEFINE done == Start(q) + cfg.service
<1>6. done \in Nat
  BY <1>1
<1>7. CASE Serve(q) /\ log' = Append(log, [q |-> q, outcome |-> "success", start |-> Start(q)])
           /\ heap' = heap \ {q} /\ UNCHANGED seq
           /\ windows' = Bump(Offered(q), done, "goodput")
           /\ perPriority' = [Attempted(q) EXCEPT ![q.prio].successes = @ + 1]
  <2> DEFINE e == [q |-> q, outcome |-> "success", start |-> Start(q)]
  <2>1. e \in Entries /\ e.q = q /\ e.outcome = "success" /\ e.start = Start(q)
    BY <1>1 DEF Entries, Outcomes
  <2>2. log' = Append(log, e) /\ cfg' = cfg
    BY <1>7 DEF Serve
  <2>3. serverFree' = done
    BY <1>7 DEF Serve
  <2> HIDE DEF e
  <2>4. HeapAfter(q, e) /\ ServerAfter(q, e)
    BY <1>7, <2>1, <2>3 DEF HeapAfter, ServerAfter
  <2>5. /\ windows' \in [DOMAIN windows -> Windows]
        /\ \A w \in DOMAIN windows : GoodputAfter(q, e, w)
    <3>1. windows' = Bump(Offered(q), done, "goodput")
      BY <1>7
    <3>2. /\ windows' \in [DOMAIN windows -> Windows]
          /\ \A w \in DOMAIN windows : windows'[w].goodput =
               IF w = done \div Second THEN Offered(q)[w].goodput + 1 ELSE Offered(q)[w].goodput
      <4> HIDE DEF done
      <4> QED BY <1>3, <1>6, <3>1, BumpFacts
    <3> QED BY <1>3, <2>1, <3>2 DEF GoodputAfter
  <2>6. /\ perPriority' \in [DOMAIN perPriority -> Counts]
        /\ \A p \in DOMAIN perPriority : CountsAfter(q, e, p)
    <3> DEFINE f == Attempted(q)
    <3>1. f \in [DOMAIN perPriority -> Counts] /\ perPriority' = [f EXCEPT ![q.prio].successes = @ + 1]
      BY <1>4, <1>7
    <3>2. /\ perPriority' \in [DOMAIN perPriority -> Counts]
          /\ \A p \in DOMAIN perPriority :
               /\ perPriority'[p].successes = IF p = q.prio THEN f[p].successes + 1 ELSE f[p].successes
               /\ perPriority'[p].attempts = f[p].attempts
      <4> DEFINE D == DOMAIN perPriority
      <4> HIDE DEF f, D
      <4>1. f \in [D -> Counts]
        BY <3>1 DEF D
      <4>2. CountIsUp(D, f, q.prio)
        BY <4>1, CountFacts
      <4> QED BY <3>1, <4>2 DEF D, CountIsUp
    <3> QED BY <1>4, <2>1, <3>2 DEF CountsAfter
  <2> QED BY <2>1, <2>2, <2>4, <2>5, <2>6 DEF Popped, ReportAfter
<1>8. CASE Serve(q) /\ windows' = Offered(q) /\ perPriority' = Attempted(q)
           /\ \E outcome \in {"retried", "abandoned"} :
                 /\ log' = Append(log, [q |-> q, outcome |-> outcome, start |-> Start(q)])
                 /\ \/ outcome = "retried" /\ q.left > 0
                       /\ heap' = (heap \ {q}) \cup {Retry(q)} /\ seq' = seq + 1
                    \/ outcome = "abandoned" /\ heap' = heap \ {q} /\ UNCHANGED seq
  <2> PICK outcome \in {"retried", "abandoned"} :
                 /\ log' = Append(log, [q |-> q, outcome |-> outcome, start |-> Start(q)])
                 /\ \/ outcome = "retried" /\ q.left > 0
                       /\ heap' = (heap \ {q}) \cup {Retry(q)} /\ seq' = seq + 1
                    \/ outcome = "abandoned" /\ heap' = heap \ {q} /\ UNCHANGED seq
    BY <1>8
  <2> DEFINE e == [q |-> q, outcome |-> outcome, start |-> Start(q)]
  <2>1. e \in Entries /\ e.q = q /\ e.outcome = outcome /\ e.start = Start(q)
    BY <1>1 DEF Entries, Outcomes
  <2>2. log' = Append(log, e) /\ cfg' = cfg
    BY <1>8 DEF Serve
  <2>3. serverFree' = done
    BY <1>8 DEF Serve
  <2> HIDE DEF e
  <2>4. HeapAfter(q, e) /\ ServerAfter(q, e)
    BY <2>1, <2>3 DEF HeapAfter, ServerAfter
  <2>5. ReportAfter(q, e)
    BY <1>3, <1>4, <1>8, <2>1 DEF ReportAfter, GoodputAfter, CountsAfter
  <2> QED BY <2>1, <2>2, <2>4, <2>5 DEF Popped
<1>9. CASE Serve(q)
  <2> USE <1>9
  <2>1. \/ /\ heap' = heap \ {q} /\ windows' = Bump(Offered(q), done, "goodput")
           /\ perPriority' = [Attempted(q) EXCEPT ![q.prio].successes = @ + 1]
           /\ Logged(q, "success", Start(q)) /\ UNCHANGED seq
        \/ /\ windows' = Offered(q) /\ perPriority' = Attempted(q)
           /\ \/ q.left > 0 /\ heap' = (heap \ {q}) \cup {Retry(q)} /\ seq' = seq + 1
                 /\ Logged(q, "retried", Start(q))
              \/ heap' = heap \ {q} /\ Logged(q, "abandoned", Start(q)) /\ UNCHANGED seq
    BY Zenon DEF Serve
  <2> QED BY <1>7, <1>8, <2>1 DEF Logged
<1> QED BY <1>5, <1>9

\* The log after a pop.
LogGrows(e) ==
  /\ Len(log) \in Nat /\ DOMAIN log = 1..Len(log) /\ DOMAIN log' = 1..(Len(log) + 1)
  /\ log' \in Seq(Entries)
  /\ \A i \in DOMAIN log : log'[i] = log[i] /\ log[i] \in Entries
  /\ log'[Len(log) + 1] = e
\* A pop appends to the log.
LEMMA LogAfter ==
  ASSUME SimTypeOK, NEW q, NEW e, Popped(q, e)
  PROVE  LogGrows(e)
<1>1. log \in Seq(Entries) /\ e \in Entries /\ log' = Append(log, e)
  BY DEF SimTypeOK, Popped
<1>2. Len(log) \in Nat /\ DOMAIN log = 1..Len(log)
  BY <1>1
<1>3. /\ log' \in Seq(Entries) /\ Len(log') = Len(log) + 1
      /\ \A i \in 1..Len(log) : log'[i] = log[i]
      /\ log'[Len(log) + 1] = e
  BY <1>1, AppendProperties
<1>4. DOMAIN log' = 1..(Len(log) + 1)
  BY <1>3
<1>5. \A i \in 1..Len(log) : log[i] \in Entries
  BY <1>1, ElementOfSeq
<1> QED BY <1>2, <1>3, <1>4, <1>5 DEF LogGrows

\* The retry of an attempt.
RetryIsSent(q) ==
  /\ Retry(q) \in Attempts
  /\ Retry(q).arrival = q.arrival + cfg.timeout /\ Retry(q).seq = seq
  /\ Retry(q).left = q.left - 1 /\ Retry(q).prio = q.prio /\ Retry(q).origin = q.origin
\* What Retry computes.
LEMMA RetryFacts ==
  ASSUME SimTypeOK, NEW q \in Attempts, q.left > 0
  PROVE  RetryIsSent(q)
<1>1. cfg.timeout \in Nat /\ seq \in Nat
  BY ConfigFacts DEF SimTypeOK
<1>2. /\ q.arrival \in Nat /\ q.left \in Nat /\ q.prio \in Nat /\ q.origin \in Nat
      /\ q = [arrival |-> q.arrival, seq |-> q.seq, left |-> q.left, prio |-> q.prio,
              origin |-> q.origin]
  BY DEF Attempts
<1>3. Retry(q) = [arrival |-> q.arrival + cfg.timeout, seq |-> seq, left |-> q.left - 1,
                  prio |-> q.prio, origin |-> q.origin]
  <2> DEFINE a == [q EXCEPT !.arrival = q.arrival + cfg.timeout]
             s == [a EXCEPT !.seq = seq]
  <2>1. a = [arrival |-> q.arrival + cfg.timeout, seq |-> q.seq, left |-> q.left,
             prio |-> q.prio, origin |-> q.origin]
    BY <1>2
  <2>2. Retry(q) = [s EXCEPT !.left = q.left - 1]
    BY DEF Retry
  <2> HIDE DEF a
  <2>3. s = [arrival |-> q.arrival + cfg.timeout, seq |-> seq, left |-> q.left,
             prio |-> q.prio, origin |-> q.origin]
    BY <2>1
  <2> HIDE DEF s
  <2> QED BY <2>2, <2>3
<1>4. q.arrival + cfg.timeout \in Nat /\ q.left - 1 \in Nat
  BY <1>1, <1>2
<1> QED BY <1>1, <1>2, <1>3, <1>4 DEF RetryIsSent, Attempts

\* Types are kept.
LEMMA PopKeepsTypes ==
  ASSUME SimTypeOK, NEW q \in heap, NEW e, Popped(q, e)
  PROVE  SimTypeOK'
<1>1. cfg' = cfg /\ log' \in Seq(Entries)
  BY LogAfter DEF Popped, LogGrows
<1>2. q \in Attempts /\ heap \subseteq Attempts /\ seq \in Nat /\ serverFree \in Nat /\ cfg \in Configs
  BY DEF SimTypeOK
<1>3. heap' \subseteq Attempts /\ seq' \in Nat
  BY <1>2, RetryFacts DEF Popped, HeapAfter, RetryIsSent
<1>4. serverFree' \in Nat
  BY <1>2, StartFacts, ConfigFacts DEF Popped, ServerAfter, StartIsRight
<1>5. /\ windows' \in [0..(cfg.duration \div Second - 1) -> Windows]
      /\ perPriority' \in [0..(Levels(cfg) - 1) -> Counts]
  <2>1. DOMAIN windows = 0..(cfg.duration \div Second - 1) /\ DOMAIN perPriority = 0..(Levels(cfg) - 1)
    BY DEF SimTypeOK
  <2> QED BY <2>1 DEF Popped, ReportAfter
<1> QED BY <1>1, <1>2, <1>3, <1>4, <1>5 DEF SimTypeOK

-----------------------------------------------------------------------------
\* The numbers stay apart, and pops in order.
LEMMA PopKeepsOrder ==
  ASSUME SimTypeOK, NumbersAreTaken, PopsAreOrdered, NEW q \in heap, NEW e, IsFirst(q), Popped(q, e)
  PROVE  NumbersAreTaken' /\ PopsAreOrdered'
<1>1. /\ q \in Attempts /\ q.arrival \in Nat /\ q.seq \in Nat /\ seq \in Nat
      /\ cfg.timeout \in Nat /\ e.q = q
  BY ConfigFacts DEF SimTypeOK, Attempts, Popped
<1>2. \A r \in heap : r.arrival \in Nat /\ r.seq \in Nat /\ r.seq < seq
  BY DEF SimTypeOK, NumbersAreTaken, Attempts
<1>3. HeapAfter(q, e)
  BY DEF Popped
<1>4. q.left > 0 => /\ Retry(q).arrival = q.arrival + cfg.timeout
                    /\ Retry(q).seq = seq
  BY <1>1, RetryFacts DEF RetryIsSent
<1>5. NumbersAreTaken'
  <2>1. CASE heap' = heap \ {q} /\ seq' = seq
    BY <2>1 DEF NumbersAreTaken
  <2>2. CASE q.left > 0 /\ heap' = (heap \ {q}) \cup {Retry(q)} /\ seq' = seq + 1
    <3>1. \A r \in heap' : r.seq < seq'
      BY <1>1, <1>2, <1>4, <2>2
    <3>2. \A r, s \in heap' : r.seq = s.seq => r = s
      BY <1>1, <1>2, <1>4, <2>2 DEF NumbersAreTaken
    <3> QED BY <3>1, <3>2 DEF NumbersAreTaken
  <2> QED BY <1>3, <2>1, <2>2 DEF HeapAfter
<1>6. \A r \in heap \ {q} : Precedes(q, r)
  BY <1>1, <1>2 DEF IsFirst, NumbersAreTaken, Precedes
<1>7. \A r \in heap' : Precedes(q, r)
  <2>1. q.left > 0 => Precedes(q, Retry(q))
    BY <1>1, <1>2, <1>4 DEF Precedes
  <2> QED BY <1>3, <1>6, <2>1 DEF HeapAfter
<1>8. LogGrows(e)
  BY LogAfter
<1>9. \A i \in DOMAIN log : Precedes(log[i].q, q)
  BY DEF PopsAreOrdered
<1>10. \A i \in DOMAIN log : log[i].q.arrival \in Nat /\ log[i].q.seq \in Nat
  BY <1>8 DEF LogGrows, Entries, Attempts
<1>11. ASSUME NEW i \in DOMAIN log, NEW r \in heap' PROVE Precedes(log[i].q, r)
  <2>1. r.arrival \in Nat /\ r.seq \in Nat
    BY PopKeepsTypes DEF SimTypeOK, Attempts
  <2>2. Precedes(log[i].q, q) /\ Precedes(q, r)
    BY <1>7, <1>9
  <2>3. log[i].q.arrival \in Nat /\ log[i].q.seq \in Nat
    BY <1>10
  <2> QED BY <1>1, <2>1, <2>2, <2>3 DEF Precedes
<1>12. ASSUME NEW i \in DOMAIN log', NEW j \in DOMAIN log', i < j
       PROVE  Precedes(log'[i].q, log'[j].q)
  <2>1. i \in DOMAIN log /\ log'[i] = log[i]
    BY <1>8, <1>12 DEF LogGrows
  <2>2. CASE j \in DOMAIN log
    BY <1>8, <1>12, <2>1, <2>2 DEF LogGrows, PopsAreOrdered
  <2>3. CASE j \notin DOMAIN log
    <3>1. log'[j].q = q
      BY <1>1, <1>8, <2>3 DEF LogGrows
    <3> QED BY <1>9, <2>1, <3>1
  <2> QED BY <2>2, <2>3
<1>13. ASSUME NEW i \in DOMAIN log', NEW r \in heap' PROVE Precedes(log'[i].q, r)
  <2>1. CASE i \in DOMAIN log
    BY <1>8, <1>11, <2>1 DEF LogGrows
  <2>2. CASE i \notin DOMAIN log
    <3>1. log'[i].q = q
      BY <1>1, <1>8, <2>2 DEF LogGrows
    <3> QED BY <1>7, <3>1
  <2> QED BY <2>1, <2>2
<1>14. PopsAreOrdered'
  BY <1>12, <1>13 DEF PopsAreOrdered, Precedes
<1> QED BY <1>5, <1>14

\* The server's work stays packed.
LEMMA PopKeepsWork ==
  ASSUME SimTypeOK, PopsAreOrdered, WorkIsPacked, NEW q \in heap, NEW e, Popped(q, e)
  PROVE  WorkIsPacked'
<1> DEFINE N == Len(log) + 1
<1>1. LogGrows(e) /\ cfg' = cfg
  BY LogAfter DEF Popped
<1>2. /\ N \in Nat /\ N \notin DOMAIN log /\ DOMAIN log' = DOMAIN log \cup {N}
      /\ log'[N] = e /\ \A i \in DOMAIN log : log'[i] = log[i] /\ i < N
  BY <1>1 DEF LogGrows
<1>3. \A i \in DOMAIN log : /\ i \in Nat /\ log[i].start \in Nat /\ log[i].q.arrival \in Nat
  <2>1. \A i \in DOMAIN log : i \in Nat /\ log[i] \in Entries
    BY <1>1 DEF LogGrows
  <2>2. \A x \in Entries : x.start \in Nat /\ x.q.arrival \in Nat
    BY DEF Entries, Attempts
  <2> QED BY <2>1, <2>2
<1> HIDE DEF N
<1>4. cfg.service \in Nat \ {0} /\ serverFree \in Nat
  BY ConfigFacts DEF SimTypeOK
<1>5. \A t : InOutage(t)' = InOutage(t)
  BY <1>1 DEF InOutage, OutageEnd
<1>6. Served \subseteq Served' /\ \A i \in Served : i \in DOMAIN log
  BY <1>2 DEF Served
<1>7. \A t : Covered(t) => Covered(t)'
  <2>1. \A t : \A i \in Served : WorksAt(i, t) => i \in Served' /\ WorksAt(i, t)'
    BY <1>1, <1>2, <1>6 DEF WorksAt
  <2> QED BY <1>5, <2>1 DEF Covered
<1>8. ServerAfter(q, e)
  BY DEF Popped
<1>9. CASE e.outcome = "rejected"
  <2>1. Served' = Served /\ serverFree' = serverFree
    BY <1>2, <1>8, <1>9 DEF Served, ServerAfter
  <2>2. serverFree' = 0 \/ \E i \in Served' : serverFree' = log'[i].start + cfg'.service
    BY <1>1, <1>2, <1>6, <2>1 DEF WorkIsPacked
  <2>3. ASSUME NEW i \in Served'
        PROVE  /\ log'[i].start + cfg'.service <= serverFree'
               /\ ~ InOutage(log[i].start)'
               /\ \A t \in log'[i].q.arrival..(log'[i].start - 1) : Covered(t)'
    <3>1. i \in Served /\ log'[i] = log[i]
      BY <1>2, <1>6, <2>1
    <3>2. ~ InOutage(log[i].start)
      BY <3>1 DEF WorkIsPacked
    <3>3. ~ InOutage(log[i].start)'
      BY <1>1, <3>1, <3>2 DEF InOutage, OutageEnd
    <3> QED BY <1>1, <1>7, <2>1, <3>1, <3>3 DEF WorkIsPacked
  <2>4. \A i, j \in Served' : i < j => log'[i].start + cfg'.service <= log'[j].start
    BY <1>1, <1>2, <1>6, <2>1 DEF WorkIsPacked
  <2> QED BY <2>2, <2>3, <2>4 DEF WorkIsPacked
<1>10. CASE e.outcome # "rejected"
  <2> DEFINE s == Start(q)
  <2>1. e.start = s /\ serverFree' = s + cfg.service /\ e.q = q
    BY <1>8, <1>10 DEF ServerAfter, Popped
  <2>2. StartIsRight(q, s) /\ q \in Attempts /\ q.arrival \in Nat
    BY StartFacts DEF SimTypeOK, Attempts
  <2>3. s \in Nat /\ s >= serverFree /\ s >= q.arrival
    BY <2>2 DEF StartIsRight
  <2> HIDE DEF s
  <2>4. Served' = Served \cup {N}
    BY <1>2, <1>10 DEF Served
  <2>5. \E i \in Served' : serverFree' = log'[i].start + cfg'.service
    BY <1>1, <1>2, <2>1, <2>4
  <2>6. ASSUME NEW i \in Served
        PROVE  /\ log'[i] = log[i] /\ i < N /\ log[i].start \in Nat
               /\ log[i].start + cfg.service <= serverFree
               /\ ~ InOutage(log[i].start)
               /\ \A t \in log[i].q.arrival..(log[i].start - 1) : Covered(t)
    BY <1>2, <1>3, <1>6 DEF WorkIsPacked
  <2>7. ASSUME NEW i \in Served'
        PROVE  log'[i].start + cfg'.service <= serverFree' /\ ~ InOutage(log[i].start)'
    <3>1. CASE i \in Served
      <4>1. log'[i].start + cfg'.service <= serverFree'
        BY <1>1, <1>4, <2>1, <2>3, <2>6, <3>1
      <4>2. ~ InOutage(log[i].start) /\ log'[i] = log[i]
        BY <2>6, <3>1
      <4>3. ~ InOutage(log[i].start)'
        BY <1>1, <4>2 DEF InOutage, OutageEnd
      <4> QED BY <4>1, <4>3
    <3>2. CASE i = N
      <4>1. log'[i].start = s
        BY <1>2, <2>1, <3>2
      <4>2. ~ InOutage(s)
        BY <2>2 DEF StartIsRight
      <4>3. ~ InOutage(log[i].start)'
        BY <1>1, <4>1, <4>2 DEF InOutage, OutageEnd
      <4>4. log'[i].start + cfg'.service <= serverFree'
        BY <1>1, <1>4, <2>1, <2>3, <4>1
      <4> QED BY <4>3, <4>4
    <3> QED BY <2>4, <3>1, <3>2
  <2>8. ASSUME NEW i \in Served', NEW t \in log'[i].q.arrival..(log'[i].start - 1)
        PROVE  Covered(t)'
    <3>1. CASE i \in Served
      BY <1>7, <2>6, <2>8, <3>1
    <3>2. CASE i = N
      <4>1. t \in q.arrival..(s - 1) /\ t \in Nat /\ q.arrival <= t /\ t < s
        BY <1>2, <2>1, <2>2, <2>3, <2>8, <3>2
      <4>2. CASE serverFree <= t
        BY <1>7, <2>2, <4>1, <4>2 DEF StartIsRight, Covered
      <4>3. CASE t < serverFree
        <5>1. PICK j \in Served : serverFree = log[j].start + cfg.service
          BY <4>1, <4>3 DEF WorkIsPacked
        <5>2. log[j].q.arrival <= q.arrival /\ log[j].q.arrival \in Nat /\ log[j].start \in Nat
          <6>1. j \in DOMAIN log
            BY <1>6
          <6>2. Precedes(log[j].q, q)
            BY <6>1 DEF PopsAreOrdered
          <6> QED BY <1>3, <2>2, <6>1, <6>2 DEF Precedes
        <5>3. CASE t < log[j].start
          <6>1. t \in log[j].q.arrival..(log[j].start - 1)
            BY <2>2, <4>1, <5>2, <5>3
          <6> QED BY <1>7, <2>6, <6>1
        <5>4. CASE log[j].start <= t
          <6>1. WorksAt(j, t)
            BY <4>3, <5>1, <5>4 DEF WorksAt
          <6> QED BY <1>7, <6>1 DEF Covered
        <5> QED BY <4>1, <5>2, <5>3, <5>4
      <4> QED BY <1>4, <4>1, <4>2, <4>3
    <3> QED BY <2>4, <3>1, <3>2
  <2>9. ASSUME NEW i \in Served', NEW j \in Served', i < j
        PROVE  log'[i].start + cfg'.service <= log'[j].start
    <3>1. i \in Served
      BY <1>2, <1>3, <1>6, <2>4, <2>9
    <3>2. CASE j \in Served
      <4>1. log[i].start + cfg.service <= log[j].start
        BY <2>9, <3>1, <3>2 DEF WorkIsPacked
      <4> QED BY <1>1, <2>6, <3>1, <3>2, <4>1
    <3>3. CASE j = N
      <4>1. log'[j].start = s
        BY <1>2, <2>1, <3>3
      <4> QED BY <1>1, <1>4, <2>3, <2>6, <3>1, <4>1
    <3> QED BY <2>4, <3>2, <3>3
  <2> QED BY <2>5, <2>7, <2>8, <2>9 DEF WorkIsPacked
<1> QED BY <1>9, <1>10

\* Within a window the successes stay a service time apart.
LEMMA PopKeepsSpacing ==
  ASSUME SimTypeOK, GoodputIsSpaced, NEW q \in heap, NEW e, Popped(q, e)
  PROVE  GoodputIsSpaced'
<1> DEFINE done == Start(q) + cfg.service
<1>1. /\ cfg.service \in Nat \ {0} /\ serverFree \in Nat /\ Second \in Nat \ {0}
      /\ Start(q) \in Nat /\ Start(q) >= serverFree /\ done \in Nat /\ done >= serverFree
      /\ cfg' = cfg
  BY StartFacts, ConfigFacts DEF SimTypeOK, StartIsRight, Popped
<1>2. ServerAfter(q, e) /\ ReportAfter(q, e)
  BY DEF Popped
<1>3. serverFree' \in Nat /\ serverFree' >= serverFree
      /\ (e.outcome = "success" => serverFree' = done)
  BY <1>1, <1>2 DEF ServerAfter
<1>4. DOMAIN windows' = DOMAIN windows
  BY <1>2 DEF ReportAfter
<1>5. \A w \in DOMAIN windows : w \in Nat /\ windows[w].goodput \in Nat
  BY DEF SimTypeOK, Windows
<1> DEFINE Spaced(w, g, f) == \E d \in 0..f : d \div Second = w /\ w * Second + (g - 1) * cfg.service <= d
<1>6. ASSUME NEW w \in DOMAIN windows, windows'[w].goodput > 0
      PROVE  Spaced(w, windows'[w].goodput, serverFree')
  <2> DEFINE g == windows[w].goodput
  <2>1. GoodputAfter(q, e, w) /\ g \in Nat /\ w \in Nat
    BY <1>2, <1>5 DEF ReportAfter
  <2>2. CASE windows'[w].goodput = g
    <3>1. PICK d \in 0..serverFree : d \div Second = w /\ w * Second + (g - 1) * cfg.service <= d
      BY <1>6, <2>2 DEF GoodputIsSpaced
    <3>2. d \in 0..serverFree'
      BY <1>1, <1>3
    <3> QED BY <2>2, <3>1, <3>2
  <2>3. CASE e.outcome = "success" /\ w = done \div Second /\ windows'[w].goodput = g + 1
    <3> HIDE DEF done, g
    <3>1. done \in 0..serverFree'
      BY <1>1, <1>3, <2>3
    <3>2. w * Second + g * cfg.service <= done
      <4>1. CASE g = 0
        <5>1. (done \div Second) * Second <= done
          BY <1>1, MultipleOfInterval
        <5>2. g * cfg.service = 0
          BY <1>1, <4>1
        <5>3. w * Second \in Nat
          BY <1>1, <2>1
        <5> QED BY <1>1, <2>3, <5>1, <5>2, <5>3
      <4>2. CASE g > 0
        <5>1. PICK d \in 0..serverFree : d \div Second = w /\ w * Second + (g - 1) * cfg.service <= d
          BY <4>2 DEF GoodputIsSpaced, g
        <5>2. \A a \in Nat \ {0}, b \in Nat : a * b = (a - 1) * b + b /\ (a - 1) * b \in Nat
          OBVIOUS
        <5>3. g * cfg.service = (g - 1) * cfg.service + cfg.service /\ (g - 1) * cfg.service \in Nat
          BY <1>1, <2>1, <4>2, <5>2
        <5>4. w * Second \in Nat
          BY <1>1, <2>1
        <5>5. d + cfg.service <= done
          BY <1>1 DEF done
        <5> QED BY <1>1, <5>1, <5>3, <5>4, <5>5
      <4> QED BY <2>1, <4>1, <4>2
    <3>3. windows'[w].goodput - 1 = g
      BY <2>1, <2>3
    <3> QED BY <2>3, <3>1, <3>2, <3>3
  <2> QED BY <2>1, <2>2, <2>3 DEF GoodputAfter
<1> QED BY <1>1, <1>4, <1>6 DEF GoodputIsSpaced

-----------------------------------------------------------------------------
\* The attempts of a request other than q's are as before.
LEMMA PopKeepsOthers ==
  ASSUME SimTypeOK, NEW q \in heap, NEW e, Popped(q, e),
         NEW first \in Originals(cfg), first.origin # q.origin, ChainOf(first)
  PROVE  ChainOf(first)'
<1> DEFINE o == first.origin
           A == AttemptsOf(o)
<1>1. LogGrows(e) /\ cfg' = cfg /\ e.q = q /\ q \in Attempts
  BY LogAfter DEF Popped, SimTypeOK
<1>2. AttemptsOf(o)' = A /\ \A i \in A : log'[i] = log[i]
  BY <1>1 DEF AttemptsOf, LogGrows
<1>3. Pending(o)' = Pending(o)
  <2>1. q.left > 0 => Retry(q).origin = q.origin
    BY <1>1, RetryFacts DEF RetryIsSent
  <2> QED BY <2>1 DEF Pending, Popped, HeapAfter
<1>4. AllRetried(o)' = AllRetried(o)
  BY <1>2 DEF AllRetried
<1>5. \A i \in A : AttemptInChain(first, i)'
  <2>1. ASSUME NEW i \in A PROVE AttemptInChain(first, i)'
    <3> DEFINE earlier == {j \in A : j < i}
    <3>1. AttemptInChain(first, i)
      BY <2>1 DEF ChainOf
    <3>2. {j \in AttemptsOf(o)' : j < i} = earlier
      BY <1>2
    <3>3. /\ log'[i].q.prio = first.prio
          /\ log'[i].q.arrival = first.arrival + Cardinality(earlier) * cfg'.timeout
          /\ \A j \in earlier : log'[j].outcome = "retried"
      BY <1>1, <1>2, <3>1 DEF AttemptInChain
    <3> QED BY <3>2, <3>3 DEF AttemptInChain
  <2> QED BY <2>1
<1>6. CASE AllRetried(o)
  <2>1. PICK p \in heap : Pending(o) = {p} /\ NextInChain(first, p)
    BY <1>6 DEF ChainOf
  <2>2. p \in heap'
    <3>1. p.origin = o /\ p \in heap
      BY <2>1 DEF Pending
    <3> QED BY <3>1 DEF Popped, HeapAfter
  <2>3. NextInChain(first, p)'
    BY <1>1, <1>2, <2>1 DEF NextInChain
  <2>4. Pending(o)' = {p}
    BY <1>3, <2>1
  <2>5. Cardinality(AttemptsOf(o)') <= cfg'.retries + 1
    BY <1>1, <1>2 DEF ChainOf
  <2> QED BY <1>2, <1>4, <1>5, <1>6, <2>2, <2>3, <2>4, <2>5 DEF ChainOf
<1>7. CASE ~ AllRetried(o)
  <2>1. Pending(o)' = {}
    BY <1>3, <1>7 DEF ChainOf
  <2>2. Cardinality(AttemptsOf(o)') <= cfg'.retries + 1
    BY <1>1, <1>2 DEF ChainOf
  <2> QED BY <1>2, <1>4, <1>5, <1>7, <2>1, <2>2 DEF ChainOf
<1> QED BY <1>6, <1>7

\* The chain of q's own request grows by q, and by the retry.
LEMMA PopExtendsChain ==
  ASSUME SimTypeOK, NEW q \in heap, NEW e, Popped(q, e),
         NEW first \in Originals(cfg), first.origin = q.origin, ChainOf(first)
  PROVE  ChainOf(first)'
<1> DEFINE o == first.origin
           A == AttemptsOf(o)
           n == Cardinality(A)
           N == Len(log) + 1
<1>1. LogGrows(e) /\ cfg' = cfg /\ e.q = q /\ q \in Attempts /\ HeapAfter(q, e)
  BY LogAfter DEF Popped, SimTypeOK
<1>2. /\ cfg.retries \in Nat /\ cfg.timeout \in Nat /\ q.left \in Nat
      /\ first.arrival \in Nat
  BY <1>1, ConfigFacts, OriginalFacts DEF SimTypeOK, Attempts
<1>3. /\ A \subseteq 1..Len(log) /\ Len(log) \in Nat
      /\ AttemptsOf(o)' = A \cup {N}
      /\ \A i \in A : log'[i] = log[i] /\ i < N /\ i \in Nat
      /\ log'[N] = e /\ N \in Nat
  BY <1>1 DEF AttemptsOf, LogGrows
<1>4. n \in Nat /\ Cardinality(AttemptsOf(o)') = n + 1
  <2> HIDE DEF A
  <2> QED BY <1>3, OneOnTop
<1> HIDE DEF A, n, N
<1>5. /\ AllRetried(o) /\ Pending(o) = {q} /\ NextInChain(first, q)
  <2>1. q \in Pending(o)
    BY DEF Pending
  <2>2. AllRetried(o)
    BY <2>1 DEF ChainOf
  <2>3. PICK p \in heap : Pending(o) = {p} /\ NextInChain(first, p)
    BY <2>2 DEF ChainOf
  <2> QED BY <2>1, <2>2, <2>3
<1>6. /\ q.prio = first.prio /\ n + q.left = cfg.retries
      /\ q.arrival = first.arrival + n * cfg.timeout
  BY <1>5 DEF NextInChain, n, A
<1>7. \A i \in A : log[i].outcome = "retried" /\ AttemptInChain(first, i)
  BY <1>5 DEF AllRetried, A, ChainOf
<1>8. ASSUME NEW i \in A PROVE AttemptInChain(first, i)'
  <2> DEFINE earlier == {j \in A : j < i}
  <2>1. {j \in AttemptsOf(o)' : j < i} = earlier
    BY <1>3
  <2>2. /\ log'[i].q.prio = first.prio
        /\ log'[i].q.arrival = first.arrival + Cardinality(earlier) * cfg'.timeout
        /\ \A j \in earlier : log'[j].outcome = "retried"
    BY <1>1, <1>3, <1>7 DEF AttemptInChain, A
  <2> QED BY <2>1, <2>2 DEF AttemptInChain
<1>9. ASSUME NEW i, i = N PROVE AttemptInChain(first, i)'
  <2>1. {j \in AttemptsOf(o)' : j < i} = A
    <3>1. (\A j \in A : j < i) /\ ~ (N < i)
      BY <1>3, <1>9
    <3> QED BY <1>3, <3>1
  <2>2. /\ log'[i].q.prio = first.prio
        /\ log'[i].q.arrival = first.arrival + Cardinality(A) * cfg'.timeout
        /\ \A j \in A : log'[j].outcome = "retried"
    BY <1>1, <1>3, <1>6, <1>7, <1>9 DEF n
  <2> QED BY <2>1, <2>2 DEF AttemptInChain
<1>10. \A i \in AttemptsOf(o)' : AttemptInChain(first, i)'
  BY <1>3, <1>8, <1>9
<1>11. Cardinality(AttemptsOf(o)') <= cfg'.retries + 1
  BY <1>1, <1>2, <1>4, <1>6
<1>12. CASE e.outcome = "retried"
  <2>1. q.left > 0 /\ heap' = (heap \ {q}) \cup {Retry(q)}
    BY <1>1, <1>12 DEF HeapAfter
  <2>2. /\ Retry(q).arrival = q.arrival + cfg.timeout /\ Retry(q).left = q.left - 1
        /\ Retry(q).prio = q.prio /\ Retry(q).origin = q.origin
    BY <1>1, <2>1, RetryFacts DEF RetryIsSent
  <2>3. AllRetried(o)'
    BY <1>3, <1>7, <1>12 DEF AllRetried
  <2>4. PICK p : p = Retry(q)
    OBVIOUS
  <2>5. Pending(o)' = {p} /\ p \in heap'
    BY <1>5, <2>1, <2>2, <2>4 DEF Pending
  <2>6. /\ p.prio = first.prio /\ (n + 1) + p.left = cfg'.retries
        /\ p.arrival = first.arrival + (n + 1) * cfg'.timeout
    <3>1. (n + 1) * cfg.timeout = n * cfg.timeout + cfg.timeout /\ n * cfg.timeout \in Nat
      BY <1>2, <1>4
    <3> QED BY <1>1, <1>2, <1>4, <1>6, <2>2, <2>4, <3>1
  <2>7. NextInChain(first, p)'
    BY <1>4, <2>6 DEF NextInChain
  <2> QED BY <1>10, <1>11, <2>3, <2>5, <2>7 DEF ChainOf
<1>13. CASE e.outcome # "retried"
  <2>1. heap' = heap \ {q}
    BY <1>1, <1>13 DEF HeapAfter
  <2>2. ~ AllRetried(o)'
    BY <1>3, <1>13 DEF AllRetried
  <2>3. Pending(o)' = {}
    BY <1>5, <2>1 DEF Pending
  <2> QED BY <1>10, <1>11, <2>2, <2>3 DEF ChainOf
<1> QED BY <1>12, <1>13

\* Every request keeps its chain.
LEMMA PopKeepsChains ==
  ASSUME SimTypeOK, Chains, NEW q \in heap, NEW e, Popped(q, e)
  PROVE  Chains'
<1>1. LogGrows(e) /\ cfg' = cfg /\ e.q = q /\ q \in Attempts
  BY LogAfter DEF Popped, SimTypeOK
<1>2. \A first \in Originals(cfg)' : ChainOf(first)'
  <2>1. ASSUME NEW first \in Originals(cfg) PROVE ChainOf(first)'
    <3>1. ChainOf(first)
      BY DEF Chains
    <3> QED BY <3>1, PopKeepsOthers, PopExtendsChain
  <2> QED BY <1>1, <2>1
<1>3. PICK own \in Originals(cfg) : own.origin = q.origin
  BY DEF Chains
<1>4. \A i \in DOMAIN log' : \E first \in Originals(cfg)' : first.origin = log'[i].q.origin
  BY <1>1, <1>3 DEF Chains, LogGrows
<1>5. \A r \in heap' : \E first \in Originals(cfg)' : first.origin = r.origin
  <2>1. q.left > 0 => Retry(q).origin = q.origin
    BY <1>1, RetryFacts DEF RetryIsSent
  <2> QED BY <1>1, <1>3, <2>1 DEF Chains, Popped, HeapAfter
<1> QED BY <1>2, <1>4, <1>5 DEF Chains

\* The report counts q, and its success.
LEMMA PopKeepsCounts ==
  ASSUME SimTypeOK, ReportCounts, NEW q \in heap, NEW e, Popped(q, e)
  PROVE  ReportCounts'
<1> DEFINE N == Len(log) + 1
<1>1. LogGrows(e) /\ e.q = q
  BY LogAfter DEF Popped
<1>2. ReportAfter(q, e) /\ DOMAIN perPriority' = DOMAIN perPriority
  BY DEF Popped, ReportAfter
<1>3. ASSUME NEW p \in DOMAIN perPriority
      PROVE  perPriority'[p].attempts = Cardinality(PoppedOf(p)')
  <2>1. PoppedOf(p) \subseteq 1..Len(log) /\ Len(log) \in Nat
    BY <1>1 DEF PoppedOf, LogGrows
  <2>2. PoppedOf(p)' = IF p = q.prio THEN PoppedOf(p) \cup {N} ELSE PoppedOf(p)
    BY <1>1 DEF PoppedOf, LogGrows
  <2>3. Cardinality(PoppedOf(p) \cup {N}) = Cardinality(PoppedOf(p)) + 1
    BY <2>1, OneOnTop
  <2>4. CountsAfter(q, e, p) /\ perPriority[p].attempts = Cardinality(PoppedOf(p))
    BY <1>2 DEF ReportAfter, ReportCounts
  <2> HIDE DEF N
  <2> QED BY <2>2, <2>3, <2>4 DEF CountsAfter
<1>4. ASSUME NEW p \in DOMAIN perPriority
      PROVE  perPriority'[p].successes = Cardinality(SuccessesOf(p)')
  <2>1. SuccessesOf(p) \subseteq 1..Len(log) /\ Len(log) \in Nat
    BY <1>1 DEF SuccessesOf, LogGrows
  <2>2. SuccessesOf(p)' = IF p = q.prio /\ e.outcome = "success"
                          THEN SuccessesOf(p) \cup {N} ELSE SuccessesOf(p)
    BY <1>1 DEF SuccessesOf, LogGrows
  <2>3. Cardinality(SuccessesOf(p) \cup {N}) = Cardinality(SuccessesOf(p)) + 1
    BY <2>1, OneOnTop
  <2>4. CountsAfter(q, e, p) /\ perPriority[p].successes = Cardinality(SuccessesOf(p))
    BY <1>2 DEF ReportAfter, ReportCounts
  <2> HIDE DEF N
  <2> QED BY <2>2, <2>3, <2>4 DEF CountsAfter
<1> QED BY <1>2, <1>3, <1>4 DEF ReportCounts

-----------------------------------------------------------------------------
\* Theorem: the inductive invariant, for any simulations.
THEOREM SimulationInvariant == SimSpec => []SimInv
<1>1. SimInit => SimInv
  BY InitIsGood
<1>2. SimInv /\ [SimNext]_simVars => SimInv'
  <2> SUFFICES ASSUME SimInv, [SimNext]_simVars PROVE SimInv'
    OBVIOUS
  <2> USE DEF SimInv
  <2>1. ASSUME NEW q \in heap, IsFirst(q), Reject(q) \/ Serve(q) PROVE SimInv'
    <3>1. PICK e : Popped(q, e)
      BY <2>1, StepIsPop
    <3> QED BY <2>1, <3>1, PopKeepsTypes, PopKeepsOrder, PopKeepsWork, PopKeepsSpacing,
               PopKeepsChains, PopKeepsCounts
  <2>2. CASE UNCHANGED simVars
    <3>1. /\ cfg' = cfg /\ heap' = heap /\ seq' = seq /\ serverFree' = serverFree
          /\ windows' = windows /\ perPriority' = perPriority /\ log' = log
      BY <2>2 DEF simVars
    <3>2. SimTypeOK' /\ NumbersAreTaken' /\ PopsAreOrdered' /\ GoodputIsSpaced'
      BY <3>1 DEF SimTypeOK, NumbersAreTaken, PopsAreOrdered, Precedes, GoodputIsSpaced
    <3>3. WorkIsPacked'
      BY <3>1 DEF WorkIsPacked, Served, Covered, WorksAt, InOutage, OutageEnd
    <3>4. Chains'
      <4>1. \A o : /\ AttemptsOf(o)' = AttemptsOf(o) /\ Pending(o)' = Pending(o)
                   /\ AllRetried(o)' = AllRetried(o)
        BY <3>1 DEF AttemptsOf, Pending, AllRetried
      <4>2. \A first : /\ \A i : AttemptInChain(first, i)' = AttemptInChain(first, i)
                       /\ \A p : NextInChain(first, p)' = NextInChain(first, p)
        BY <3>1, <4>1 DEF AttemptInChain, NextInChain
      <4>3. ASSUME NEW first, ChainOf(first) PROVE ChainOf(first)'
        BY <3>1, <4>1, <4>2, <4>3 DEF ChainOf
      <4> QED BY <3>1, <4>3 DEF Chains
    <3>5. ReportCounts'
      BY <3>1 DEF ReportCounts, PoppedOf, SuccessesOf
    <3> QED BY <3>2, <3>3, <3>4, <3>5
  <2> QED BY <2>1, <2>2 DEF SimNext
<1> QED BY <1>1, <1>2, PTL DEF SimSpec

\* Theorem: the server is first-in first-out and work-conserving, although
\* retries are pushed behind its back, and no window has more goodput than
\* the capacity.
THEOREM ServesInOrder == SimSpec => []ServerIsFifo
<1>1. SimInv => ServerIsFifo
  <2> SUFFICES ASSUME SimInv PROVE ServerIsFifo
    OBVIOUS
  <2>1. \A i, j \in DOMAIN log : i < j =>
          \/ log[i].q.arrival < log[j].q.arrival
          \/ log[i].q.arrival = log[j].q.arrival /\ log[i].q.seq < log[j].q.seq
    BY DEF SimInv, PopsAreOrdered, Precedes
  <2>2. \A i, j \in Served : i < j => log[i].start + cfg.service <= log[j].start
    BY DEF SimInv, WorkIsPacked
  <2>3. \A i \in Served :
          /\ ~InOutage(log[i].start)
          /\ \A t \in log[i].q.arrival..(log[i].start - 1) :
                InOutage(t) \/ \E j \in Served : WorksAt(j, t)
    BY DEF SimInv, WorkIsPacked, Covered
  <2>4. ASSUME NEW w \in DOMAIN windows
        PROVE  (windows[w].goodput - 1) * cfg.service < Second
    <3> DEFINE g == windows[w].goodput
    <3>1. /\ cfg.service \in Nat \ {0} /\ Second \in Nat \ {0} /\ serverFree \in Nat
          /\ w \in Nat /\ g \in Nat
      BY ConfigFacts DEF SimInv, SimTypeOK, Windows
    <3>2. CASE g = 0
      BY <3>1, <3>2
    <3>3. CASE g > 0
      <4>1. PICK d \in 0..serverFree :
              d \div Second = w /\ w * Second + (g - 1) * cfg.service <= d
        BY <3>3 DEF SimInv, GoodputIsSpaced
      <4>2. d < w * Second + Second
        <5>1. \A x \in Nat, s \in Nat \ {0} : x < (x \div s) * s + s
          OBVIOUS
        <5>2. d \in Nat /\ d \div Second = w
          BY <3>1, <4>1
        <5>3. d < (d \div Second) * Second + Second
          BY <3>1, <5>1, <5>2
        <5> QED BY <5>2, <5>3
      <4>3. w * Second \in Nat /\ (g - 1) * cfg.service \in Nat
        <5>1. \A a, b \in Nat : a * b \in Nat
          OBVIOUS
        <5>2. g - 1 \in Nat
          BY <3>1, <3>3
        <5> QED BY <3>1, <5>1, <5>2
      <4>4. d \in Nat /\ (w * Second) + ((g - 1) * cfg.service) <= d
        BY <3>1, <4>1
      <4>5. \A a, b, x, t \in Nat : a + b <= x /\ x < a + t => b < t
        OBVIOUS
      <4> HIDE DEF g
      <4>6. (g - 1) * cfg.service < Second
        BY <3>1, <4>2, <4>3, <4>4, <4>5
      <4> QED BY <4>6 DEF g
    <3> QED BY <3>1, <3>2, <3>3
  <2> QED BY <2>1, <2>2, <2>3, <2>4 DEF ServerIsFifo
<1> QED BY <1>1, SimulationInvariant, PTL

\* No request succeeds twice, so a priority has no more successes than requests.
LEMMA SuccessesAreFew ==
  ASSUME SimInv, NEW p
  PROVE  Cardinality(SuccessesOf(p)) <= Cardinality({q \in Originals(cfg) : q.prio = p})
<1> DEFINE S == SuccessesOf(p)
           T == {q \in Originals(cfg) : q.prio = p}
           f == [i \in S |-> CHOOSE q \in T : q.origin = log[i].q.origin]
<1>1. cfg \in Configs /\ Chains /\ log \in Seq(Entries)
  BY DEF SimInv, SimTypeOK
<1>2. IsFiniteSet(T)
  BY <1>1, OriginalsAreNumbered, FS_Subset
<1>3. ASSUME NEW i \in S
      PROVE  /\ f[i] \in T /\ f[i].origin = log[i].q.origin /\ ChainOf(f[i])
             /\ i \in AttemptsOf(f[i].origin) /\ log[i].outcome = "success" /\ i \in Nat
  <2>1. i \in DOMAIN log /\ log[i].q.prio = p /\ log[i].outcome = "success"
    BY DEF SuccessesOf
  <2>2. i \in Nat
    BY <1>1, <2>1
  <2>3. PICK first \in Originals(cfg) : first.origin = log[i].q.origin
    BY <1>1, <2>1 DEF Chains
  <2>4. i \in AttemptsOf(first.origin)
    BY <2>1, <2>3 DEF AttemptsOf
  <2>5. log[i].q.prio = first.prio
    BY <1>1, <2>4 DEF Chains, ChainOf, AttemptInChain
  <2>6. first \in T
    BY <2>1, <2>5
  <2>7. f[i] \in T /\ f[i].origin = log[i].q.origin
    <3> HIDE DEF T
    <3> QED BY <2>3, <2>6
  <2> HIDE DEF f
  <2> QED BY <1>1, <2>1, <2>2, <2>7 DEF Chains, AttemptsOf
<1>4. f \in [S -> T]
  BY <1>3
<1> HIDE DEF f
<1>5. \A i, j \in S : i < j => f[i] # f[j]
  <2> SUFFICES ASSUME NEW i \in S, NEW j \in S, i < j, f[i] = f[j] PROVE FALSE
    OBVIOUS
  <2>1. AttemptInChain(f[j], j) /\ i \in AttemptsOf(f[j].origin)
    BY <1>3 DEF ChainOf
  <2>2. log[i].outcome = "retried"
    BY <2>1 DEF AttemptInChain
  <2> QED BY <1>3, <2>2
<1>6. \A i, j \in S : f[i] = f[j] => i = j
  <2>1. S \subseteq Nat
    BY <1>3
  <2> HIDE DEF S, T
  <2> QED BY <1>5, <2>1
<1>7. f \in Injection(S, T)
  <2> HIDE DEF S, T
  <2> QED BY <1>4, <1>6 DEF Injection, IsInjective
<1>8. Cardinality(S) <= Cardinality(T)
  <2> HIDE DEF S, T
  <2> QED BY <1>2, <1>7, FS_Injection
<1> QED BY <1>8

\* Theorem: the attempts of one request follow one another at the timeouts and
\* within the retry budget, and the report counts each attempt once and no
\* request twice as a success.
THEOREM RetriesAreChained == SimSpec => []RetriesFollowTimeouts
<1>1. SimInv => RetriesFollowTimeouts
  <2> SUFFICES ASSUME SimInv PROVE RetriesFollowTimeouts
    OBVIOUS
  <2>1. ASSUME NEW first \in Originals(cfg)
        PROVE  LET o == first.origin
               IN  /\ Cardinality(AttemptsOf(o)) + Cardinality(Pending(o)) <= cfg.retries + 1
                   /\ \A i \in AttemptsOf(o) :
                         LET earlier == {j \in AttemptsOf(o) : j < i}
                         IN  /\ log[i].q.arrival = first.arrival + Cardinality(earlier) * cfg.timeout
                             /\ \A j \in earlier : log[j].outcome = "retried"
                   /\ Cardinality(Pending(o)) =
                         IF \A i \in AttemptsOf(o) : log[i].outcome = "retried" THEN 1 ELSE 0
    <3> DEFINE o == first.origin
               n == Cardinality(AttemptsOf(o))
    <3>1. ChainOf(first)
      BY DEF SimInv, Chains
    <3>2. \A i \in AttemptsOf(o) :
             LET earlier == {j \in AttemptsOf(o) : j < i}
             IN  /\ log[i].q.arrival = first.arrival + Cardinality(earlier) * cfg.timeout
                 /\ \A j \in earlier : log[j].outcome = "retried"
      BY <3>1 DEF ChainOf, AttemptInChain
    <3>3. n \in Nat /\ cfg.retries \in Nat
      <4>1. Len(log) \in Nat /\ AttemptsOf(o) \subseteq 1..Len(log)
        BY DEF SimInv, SimTypeOK, AttemptsOf
      <4> QED BY <4>1, OneOnTop, ConfigFacts DEF SimInv, SimTypeOK
    <3>4. CASE AllRetried(o)
      <4>1. PICK p \in heap : Pending(o) = {p} /\ NextInChain(first, p)
        BY <3>1, <3>4 DEF ChainOf
      <4>2. Cardinality(Pending(o)) = 1
        BY <4>1, FS_Singleton
      <4>3. p.left \in Nat /\ n + p.left = cfg.retries
        BY <4>1 DEF NextInChain, SimInv, SimTypeOK, Attempts
      <4>4. n + 1 <= cfg.retries + 1
        BY <3>3, <4>3
      <4> QED BY <3>2, <3>4, <4>2, <4>4 DEF AllRetried
    <3>5. CASE ~ AllRetried(o)
      <4>1. Cardinality(Pending(o)) = 0 /\ n <= cfg.retries + 1
        BY <3>1, <3>5, FS_EmptySet DEF ChainOf
      <4>2. n + 0 <= cfg.retries + 1
        BY <3>3, <4>1
      <4> QED BY <3>2, <3>5, <4>1, <4>2 DEF AllRetried
    <3> QED BY <3>4, <3>5
  <2>2. ASSUME NEW p \in DOMAIN perPriority
        PROVE  /\ perPriority[p].attempts = Cardinality({i \in DOMAIN log : log[i].q.prio = p})
               /\ perPriority[p].successes <= Cardinality({q \in Originals(cfg) : q.prio = p})
    BY SuccessesAreFew DEF SimInv, ReportCounts, PoppedOf
  <2> QED BY <2>1, <2>2 DEF RetriesFollowTimeouts
<1> QED BY <1>1, SimulationInvariant, PTL
=============================================================================
