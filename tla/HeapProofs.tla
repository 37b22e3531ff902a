----------------------------- MODULE HeapProofs -----------------------------
(***************************************************************************)
(* The heap's blocks tile it, its free list is sorted and coalesced, and a *)
(* null pointer means no block had room, for every heap, size and alignment. *)
(***************************************************************************)
EXTENDS Heap, FiniteSetTheorems, WellFoundedInduction, TLAPS

\* n is the block behind address u on a list of the blocks F sorted by address.
IsNext(F, u, n) ==
    \/ n = 0 /\ \A c \in F : c <= u
    \/ n \in F /\ n > u /\ \A c \in F : c > u => n <= c

\* h is the head, and m holds the `next' words, of the sorted list of F.
ListOf(F, m, h) == IsNext(F, 0, h) /\ \A b \in F : IsNext(F, b, NextOf(m, b))

\* The blocks B, with the sizes in m, tile the heap.
Tiles(B, m) ==
    /\ B \subseteq Unit
    /\ \A b \in B : Size(m, b) \in Nat /\ Size(m, b) >= 1 /\ b + Size(m, b) <= END
    /\ \A b, c \in B : b < c => b + Size(m, b) <= c
    /\ \A u \in Unit : \E b \in B : b <= u /\ u < b + Size(m, b)

\* A free block ends before the next one begins, with something in between.
Gap(m, b) == NextOf(m, b) # 0 => b + Size(m, b) < NextOf(m, b)

\* Free blocks are large enough to be worth it, and never neighbours.
Loose(F, m) == \A b \in F : Size(m, b) >= MIN_FREE /\ Gap(m, b)

----------------------------------------------------------------------------
(* Sorted lists *)

LEMMA UnitNat == Unit \subseteq Nat /\ \A u \in Unit : u > 0 /\ u < END
BY HeapConstants DEF Unit, END

LEMMA WordsOf ==
    ASSUME NEW c \in Unit
    PROVE  2 * c \in Word /\ 2 * c + 1 \in Word
BY HeapConstants DEF Unit, Word, END

LEMMA NextNat ==
    ASSUME NEW F, \A c \in F : c \in Nat /\ c > 0, NEW u, NEW n, IsNext(F, u, n)
    PROVE  n \in Nat /\ (n # 0 => n \in F /\ n > u)
BY DEF IsNext

LEMMA ListInsert ==
    ASSUME NEW F, \A c \in F : c \in Nat /\ c > 0, NEW m, NEW n, NEW h, NEW u, NEW v, NEW x \in Nat,
           ListOf(F, m, h), u = 0 \/ u \in F, IsNext(F, u, v),
           x \notin F, u < x, v = 0 \/ x < v,
           NextOf(n, x) = v, u # 0 => NextOf(n, u) = x,
           \A c \in F \ {u} : NextOf(n, c) = NextOf(m, c)
    PROVE  ListOf(F \cup {x}, n, IF u = 0 THEN x ELSE h)
<1>0. u \in Nat /\ v \in Nat /\ h \in Nat
  BY DEF IsNext, ListOf
<1>1. IsNext(F \cup {x}, x, v)
  BY <1>0 DEF IsNext
<1>2. IsNext(F \cup {x}, u, x)
  BY <1>0 DEF IsNext
<1>3. ASSUME NEW b \in F \ {u}  PROVE  IsNext(F \cup {x}, b, NextOf(m, b))
  <2>1. IsNext(F, b, NextOf(m, b)) /\ b \in Nat
    BY DEF ListOf
  <2>2. NextOf(m, b) \in Nat
    BY Zenon, <2>1, NextNat
  <2>3. CASE b < u
    BY <1>0, <2>1, <2>2, <2>3 DEF IsNext
  <2>4. CASE b > u
    <3>1. v # 0 /\ v <= b
      BY <1>0, <2>1, <2>4 DEF IsNext
    <3>. QED  BY <1>0, <2>1, <2>2, <2>4, <3>1 DEF IsNext
  <2>. QED  BY <1>0, <2>1, <2>3, <2>4
<1>4. ASSUME u # 0  PROVE IsNext(F \cup {x}, 0, h)
  BY <1>0, <1>4 DEF IsNext, ListOf
<1>. QED  BY <1>1, <1>2, <1>3, <1>4 DEF ListOf

LEMMA ListRemove ==
    ASSUME NEW F, \A c \in F : c \in Nat /\ c > 0, NEW m, NEW n, NEW h, NEW u, NEW v \in F,
           ListOf(F, m, h), u = 0 \/ u \in F, IsNext(F, u, v),
           u # 0 => NextOf(n, u) = NextOf(m, v),
           \A c \in F \ {u, v} : NextOf(n, c) = NextOf(m, c)
    PROVE  ListOf(F \ {v}, n, IF u = 0 THEN NextOf(m, v) ELSE h)
<1>0. u \in Nat /\ v \in Nat /\ h \in Nat /\ v > u /\ IsNext(F, v, NextOf(m, v))
  BY DEF IsNext, ListOf
<1>w. NextOf(m, v) \in Nat
  BY Zenon, <1>0, NextNat
<1>1. IsNext(F \ {v}, u, NextOf(m, v))
  BY <1>0, <1>w DEF IsNext
<1>2. ASSUME NEW b \in F \ {u, v}  PROVE  IsNext(F \ {v}, b, NextOf(m, b))
  <2>1. IsNext(F, b, NextOf(m, b)) /\ b \in Nat
    BY DEF ListOf
  <2>2. NextOf(m, b) \in Nat
    BY Zenon, <2>1, NextNat
  <2>3. NextOf(m, b) # v
    BY <1>0, <2>1, <2>2 DEF IsNext
  <2>. QED  BY <2>1, <2>2, <2>3 DEF IsNext
<1>3. ASSUME u # 0  PROVE IsNext(F \ {v}, 0, h)
  <2>1. IsNext(F, 0, h) /\ u \in F
    BY <1>3 DEF ListOf
  <2>. QED  BY <1>0, <1>3, <2>1 DEF IsNext
<1>. QED  BY <1>1, <1>2, <1>3 DEF ListOf

\* Behind u, x takes the place of v.
LEMMA ListReplace ==
    ASSUME NEW F, \A c \in F : c \in Nat /\ c > 0, NEW m, NEW n, NEW h, NEW u, NEW v \in F, NEW x \in Nat,
           ListOf(F, m, h), u = 0 \/ u \in F, IsNext(F, u, v),
           v < x, NextOf(m, v) = 0 \/ x < NextOf(m, v),
           NextOf(n, x) = NextOf(m, v), u # 0 => NextOf(n, u) = x,
           \A c \in F \ {u, v} : NextOf(n, c) = NextOf(m, c)
    PROVE  ListOf((F \ {v}) \cup {x}, n, IF u = 0 THEN x ELSE h)
<1>. DEFINE G == (F \ {v}) \cup {x}
<1>0. u \in Nat /\ v \in Nat /\ h \in Nat /\ v > u /\ IsNext(F, v, NextOf(m, v))
  BY DEF IsNext, ListOf
<1>w. NextOf(m, v) \in Nat
  BY Zenon, <1>0, NextNat
<1>1. IsNext(G, u, x)
  BY <1>0, <1>w DEF IsNext
<1>2. IsNext(G, x, NextOf(m, v))
  BY <1>0, <1>w DEF IsNext
<1>3. ASSUME NEW b \in F \ {u, v}  PROVE  IsNext(G, b, NextOf(m, b))
  <2>1. IsNext(F, b, NextOf(m, b)) /\ b \in Nat
    BY DEF ListOf
  <2>2. NextOf(m, b) \in Nat
    BY Zenon, <2>1, NextNat
  <2>3. NextOf(m, b) # v
    BY <1>0, <2>1, <2>2 DEF IsNext
  <2>4. CASE b < u
    BY <1>0, <2>1, <2>2, <2>3, <2>4 DEF IsNext
  <2>5. CASE b > u
    <3>1. b > x
      BY <1>0, <1>w, <2>1, <2>5 DEF IsNext
    <3>. QED  BY <1>0, <2>1, <2>2, <2>3, <3>1 DEF IsNext
  <2>. QED  BY <1>0, <2>1, <2>4, <2>5
<1>4. ASSUME u # 0  PROVE IsNext(G, 0, h)
  <2>1. IsNext(F, 0, h) /\ u \in F
    BY <1>4 DEF ListOf
  <2>. QED  BY <1>0, <1>4, <2>1 DEF IsNext
<1>5. ASSUME NEW b \in G  PROVE  IsNext(G, b, NextOf(n, b))
  BY <1>0, <1>1, <1>2, <1>3
<1>. QED  BY <1>1, <1>4, <1>5 DEF ListOf

\* Every nonempty set of natural numbers has a least element.
LEMMA LeastNat ==
    ASSUME NEW S, S \subseteq Nat, S # {}
    PROVE  \E x \in S : \A y \in S : x <= y
<1>1. \E x \in S : \A y \in S : ~(<<y, x>> \in OpToRel(<, Nat))
  BY Zenon, NatLessThanWellFounded, WFMin
<1>2. PICK x \in S : \A y \in S : ~(<<y, x>> \in OpToRel(<, Nat))
  BY Zenon, <1>1
<1>3. \A y \in S : ~(y < x)
  BY Zenon, <1>2 DEF OpToRel
<1>. QED  BY <1>3

\* The sorted list of F is the free list: no other set is reached from `head'.
LEMMA ListIsFree ==
    ASSUME NEW F \in SUBSET Unit, ListOf(F, mem, head)
    PROVE  FreeBlocks = F
<1>n. \A c \in F : c \in Nat /\ c > 0
  BY UnitNat
<1>1. FreeBlocks \subseteq F
  <2>1. head \in F \cup {0} /\ \A b \in F : NextOf(mem, b) \in F \cup {0}
    BY <1>n, NextNat DEF ListOf
  <2>. QED  BY <2>1 DEF FreeBlocks
<1>2. ASSUME NEW S \in SUBSET Unit, head \in S \cup {0}, \A b \in S : NextOf(mem, b) \in S \cup {0}
      PROVE  F \subseteq S
  <2>1. SUFFICES ASSUME F \ S # {} PROVE FALSE
    OBVIOUS
  <2>2. PICK x \in F \ S : \A y \in F \ S : x <= y
    <3>1. F \ S \subseteq Nat /\ F \ S # {}
      BY <1>n, <2>1
    <3>. QED  BY ONLY Zenon, <3>1, LeastNat
  <2>x. x \in Nat /\ x > 0 /\ x \in F /\ x \notin S
    BY <1>n, <2>2
  <2>3. CASE \A c \in F : ~(c < x)
    <3>1. IsNext(F, 0, head)
      BY DEF ListOf
    <3>2. head \in Nat
      BY <1>n, <3>1, NextNat
    <3>3. head = x
      BY <1>n, <2>x, <2>3, <3>1, <3>2 DEF IsNext
    <3>. QED  BY <1>2, <2>x, <3>3
  <2>4. CASE \E c \in F : c < x
    <3>. DEFINE D == {d \in Nat : \E c \in F : c < x /\ d = x - c}
    <3>1. D \subseteq Nat /\ D # {}
      <4>1. PICK c \in F : c < x
        BY <2>4
      <4>2. c \in Nat /\ x - c \in Nat
        BY <1>n, <2>x, <4>1
      <4>3. x - c \in D
        BY <4>1, <4>2
      <4>. QED  BY <4>3
    <3>2. PICK d \in D : \A e \in D : d <= e
      BY ONLY Zenon, <3>1, LeastNat
    <3>3. PICK y \in F : y < x /\ d = x - y
      BY <3>2
    <3>4. \A c \in F : c < x => c <= y
      BY <1>n, <2>x, <3>2, <3>3
    <3>5. IsNext(F, y, NextOf(mem, y)) /\ y \in Nat
      BY <1>n DEF ListOf
    <3>6. NextOf(mem, y) \in Nat
      BY Zenon, <1>n, <3>5, NextNat
    <3>7. NextOf(mem, y) = x
      BY <1>n, <2>x, <3>3, <3>4, <3>5, <3>6 DEF IsNext
    <3>8. y \in S
      BY <1>n, <2>2, <2>x, <3>3, <3>5
    <3>. QED  BY <1>2, <2>x, <3>7, <3>8
  <2>. QED  BY <2>3, <2>4
<1>. QED  BY <1>1, <1>2 DEF FreeBlocks

----------------------------------------------------------------------------
(* Tilings *)

LEMMA TilesSame ==
    ASSUME NEW B, NEW m, NEW n, Tiles(B, m), \A b \in B : Size(n, b) = Size(m, b)
    PROVE  Tiles(B, n)
BY DEF Tiles

LEMMA TilesSplit ==
    ASSUME NEW B, NEW m, NEW n, Tiles(B, m), NEW b \in B, NEW t \in Nat, b < t, t < b + Size(m, b),
           Size(n, b) = t - b, Size(n, t) = b + Size(m, b) - t,
           \A c \in B \ {b} : Size(n, c) = Size(m, c)
    PROVE  t \notin B /\ Tiles(B \cup {t}, n)
<1>n. \A c \in B : c \in Nat /\ Size(m, c) \in Nat
  BY UnitNat DEF Tiles
<1>1. t \notin B
  BY <1>n DEF Tiles
<1>2. t \in Unit /\ END \in Nat
  BY <1>n, HeapConstants DEF Tiles, Unit, END
<1>3. \A c \in B \cup {t} : Size(n, c) \in Nat /\ Size(n, c) >= 1 /\ c + Size(n, c) <= END
  BY <1>n, <1>2 DEF Tiles
<1>4. ASSUME NEW c \in B \cup {t}, NEW d \in B \cup {t}, c < d  PROVE  c + Size(n, c) <= d
  <2>1. CASE c = t
    BY <1>n, <1>4, <2>1 DEF Tiles
  <2>2. CASE c # t /\ d = t
    BY <1>n, <1>4, <2>2 DEF Tiles
  <2>3. CASE c # t /\ d # t
    BY <1>n, <1>4, <2>3 DEF Tiles
  <2>. QED  BY <2>1, <2>2, <2>3
<1>5. ASSUME NEW u \in Unit  PROVE  \E c \in B \cup {t} : c <= u /\ u < c + Size(n, c)
  <2>1. PICK c \in B : c <= u /\ u < c + Size(m, c)
    BY DEF Tiles
  <2>. QED  BY <1>n, <2>1, UnitNat
<1>. QED  BY <1>1, <1>2, <1>3, <1>4, <1>5 DEF Tiles

LEMMA TilesJoin ==
    ASSUME NEW B, NEW m, NEW n, Tiles(B, m), NEW b \in B, NEW c \in B, b + Size(m, b) = c,
           Size(n, b) = Size(m, b) + Size(m, c),
           \A d \in B \ {b, c} : Size(n, d) = Size(m, d)
    PROVE  Tiles(B \ {c}, n)
<1>n. \A d \in B : d \in Nat /\ Size(m, d) \in Nat /\ Size(m, d) >= 1
  BY UnitNat DEF Tiles
<1>2. END \in Nat /\ b # c
  BY <1>n, HeapConstants DEF END
<1>3. \A d \in B \ {c} : Size(n, d) \in Nat /\ Size(n, d) >= 1 /\ d + Size(n, d) <= END
  BY <1>n, <1>2 DEF Tiles
<1>4. ASSUME NEW d \in B \ {c}, NEW e \in B \ {c}, d < e  PROVE  d + Size(n, d) <= e
  <2>1. CASE d = b
    BY <1>n, <1>4, <2>1 DEF Tiles
  <2>2. CASE d # b
    BY <1>n, <1>4, <2>2 DEF Tiles
  <2>. QED  BY <2>1, <2>2
<1>5. ASSUME NEW u \in Unit  PROVE  \E d \in B \ {c} : d <= u /\ u < d + Size(n, d)
  <2>1. PICK d \in B : d <= u /\ u < d + Size(m, d)
    BY DEF Tiles
  <2>2. CASE d = c
    <3>1. b <= u /\ u < b + Size(n, b) /\ b \in B \ {c}
      BY <1>n, <1>2, <2>1, <2>2, UnitNat
    <3>. QED  BY <3>1
  <2>3. CASE d # c
    BY <1>n, <1>2, <2>1, <2>3, UnitNat
  <2>. QED  BY <2>2, <2>3
<1>. QED  BY <1>2, <1>3, <1>4, <1>5 DEF Tiles

----------------------------------------------------------------------------
(* The free units *)

Units(F, m) == UNION {b .. b + Size(m, b) - 1 : b \in F}

LEMMA InUnits ==
    ASSUME NEW F, NEW m, NEW u
    PROVE  u \in Units(F, m) <=> \E b \in F : u \in b .. b + Size(m, b) - 1
BY DEF Units

\* Taking an interval away from a set of units, and giving one back.
LEMMA CardRemove ==
    ASSUME NEW U \in SUBSET Unit, NEW b \in Nat, NEW k \in Nat, b .. b + k - 1 \subseteq U
    PROVE  Cardinality(U \ (b .. b + k - 1)) = Cardinality(U) - k
<1>. DEFINE I == b .. b + k - 1
<1>1. IsFiniteSet(I) /\ Cardinality(I) = k
  BY FS_Interval
<1>. HIDE DEF I
<1>2. IsFiniteSet(Unit)
  BY FS_Interval, HeapConstants DEF Unit, END
<1>3. IsFiniteSet(U) /\ IsFiniteSet(U \ I)
  BY <1>2, FS_Subset
<1>4. (U \ I) \cup I = U /\ (U \ I) \cap I = {}
  BY DEF I
<1>5. Cardinality(U) = Cardinality(U \ I) + Cardinality(I) - Cardinality({})
  BY ONLY <1>1, <1>3, <1>4, FS_Union
<1>6. Cardinality(U) \in Nat /\ Cardinality(U \ I) \in Nat
  BY <1>3, FS_CardinalityType
<1>. QED  BY <1>1, <1>5, <1>6, FS_EmptySet DEF I

LEMMA CardUnits ==
    ASSUME NEW U \in SUBSET Unit
    PROVE  Cardinality(U) \in Nat /\ Cardinality(U) <= TOTAL
<1>1. IsFiniteSet(Unit) /\ Cardinality(Unit) = TOTAL
  BY FS_Interval, HeapConstants DEF Unit, END, MIN_FREE
<1>2. IsFiniteSet(U) /\ Cardinality(U) <= TOTAL
  BY <1>1, FS_Subset
<1>. QED  BY <1>2, FS_CardinalityType

\* The blocks that tile the heap are of two kinds.
Parts(F, T, m) == Tiles(F \cup T, m) /\ F \cap T = {}

\* The units of the free blocks are those of no other block.
LEMMA UnitsRest ==
    ASSUME NEW F, NEW T, NEW m, Parts(F, T, m)
    PROVE  /\ Units(F, m) \in SUBSET Unit
           /\ \A u \in Unit : u \in Units(F, m) <=> ~(\E c \in T : u \in c .. c + Size(m, c) - 1)
<1>1. \A c \in F \cup T : c \in Nat /\ Size(m, c) \in Nat /\ c \in Unit /\ c + Size(m, c) <= END
  BY Zenon, UnitNat DEF Tiles, Parts
<1>2. Units(F, m) \subseteq Unit
  BY <1>1, HeapConstants DEF Units, Unit, END
<1>3. ASSUME NEW u \in Unit  PROVE  u \in Units(F, m) <=> ~(\E c \in T : u \in c .. c + Size(m, c) - 1)
  <2>1. u \in Units(F, m) <=> \E b \in F : u \in b .. b + Size(m, b) - 1
    BY InUnits
  <2>2. \E b \in F \cup T : u \in b .. b + Size(m, b) - 1
    BY <1>1, UnitNat DEF Tiles, Parts
  <2>3. ASSUME NEW b \in F, NEW c \in T  PROVE  ~(u \in b .. b + Size(m, b) - 1 /\ u \in c .. c + Size(m, c) - 1)
    <3>1. b # c
      BY DEF Parts
    <3>2. b + Size(m, b) <= c \/ c + Size(m, c) <= b
      BY <1>1, <3>1 DEF Tiles, Parts
    <3>. QED  BY <1>1, <3>2, UnitNat
  <2>. QED  BY <2>1, <2>2, <2>3
<1>. QED  BY <1>2, <1>3

\* When the block b joins those that are not free, its units are no longer free.
LEMMA UnitsMove ==
    ASSUME NEW F, NEW T, NEW m, Parts(F, T, m), NEW b, b \notin T, NEW X, X = T \cup {b},
           NEW G, NEW n, Parts(G, X, n),
           \A c \in T : Size(n, c) = Size(m, c)
    PROVE  /\ Cardinality(Units(F, m)) \in 0 .. TOTAL /\ Cardinality(Units(G, n)) \in 0 .. TOTAL
           /\ Cardinality(Units(G, n)) = Cardinality(Units(F, m)) - Size(n, b)
<1>. DEFINE I == b .. b + Size(n, b) - 1
<1>1. /\ Units(F, m) \in SUBSET Unit
      /\ \A u \in Unit : u \in Units(F, m) <=> ~(\E c \in T : u \in c .. c + Size(m, c) - 1)
  BY UnitsRest
<1>2. /\ Units(G, n) \in SUBSET Unit
      /\ \A u \in Unit : u \in Units(G, n) <=> ~(\E c \in X : u \in c .. c + Size(n, c) - 1)
  BY UnitsRest
<1>3. \A c \in X : c \in Nat /\ Size(n, c) \in Nat /\ c \in Unit /\ c + Size(n, c) <= END
  BY Zenon, UnitNat DEF Tiles, Parts
<1>4. \A c \in T : b + Size(n, b) <= c \/ c + Size(n, c) <= b
  BY <1>3 DEF Tiles, Parts
<1>5. I \subseteq Units(F, m)
  <2>1. I \subseteq Unit
    BY <1>3, HeapConstants DEF Unit, END
  <2>2. ASSUME NEW u \in I, NEW c \in T  PROVE  u \notin c .. c + Size(m, c) - 1
    BY <1>3, <1>4
  <2>. QED  BY <1>1, <2>1, <2>2
<1>6. Units(G, n) = Units(F, m) \ I
  <2>1. ASSUME NEW u \in Unit  PROVE  u \in Units(G, n) <=> u \in Units(F, m) /\ u \notin I
    <3>1. (\E c \in X : u \in c .. c + Size(n, c) - 1)
            <=> u \in I \/ \E c \in T : u \in c .. c + Size(m, c) - 1
      OBVIOUS
    <3>. QED  BY <1>1, <1>2, <3>1
  <2>. QED  BY <1>1, <1>2, <2>1
<1>7. Cardinality(Units(F, m) \ I) = Cardinality(Units(F, m)) - Size(n, b)
  <2>1. b \in Nat /\ Size(n, b) \in Nat
    BY <1>3
  <2>. QED  BY ONLY <1>1, <1>5, <2>1, CardRemove
<1>8. /\ Cardinality(Units(F, m)) \in Nat /\ Cardinality(Units(F, m)) <= TOTAL
      /\ Cardinality(Units(G, n)) \in Nat /\ Cardinality(Units(G, n)) <= TOTAL
  BY <1>1, <1>2, CardUnits
<1>. QED  BY <1>6, <1>7, <1>8, HeapConstants

----------------------------------------------------------------------------
(* The inductive invariant.  That the blocks tile the heap is not inductive *)
(* by itself: the writes of a split or a join land where they should only   *)
(* because the list is sorted, the walk stands between two neighbours of it *)
(* and every stashed base lies in its own block.                            *)

Taken == LiveBlocks \cup Moving

\* Each pointer lies in a block of its own, behind the word with the base.
Held ==
    /\ \A p \in DOMAIN live : /\ live[p] \in Nat /\ live[p] >= 1
                              /\ Stash(mem, p) < p /\ p + live[p] <= Stash(mem, p) + Size(mem, Stash(mem, p))
    /\ \A p, q \in DOMAIN live : p # q => Stash(mem, p) # Stash(mem, q)
    /\ LiveBlocks \cap Moving = {}

\* The walk stands between two neighbours of the list; an allocation has found
\* no room so far, a release has not yet come to its place.
Walk(F) ==
    /\ pc # "idle" => (prev = 0 \/ prev \in F) /\ IsNext(F, prev, cur)
    /\ pc = "alloc" => size \in Sizes /\ align \in Aligns /\ \A b \in F : b <= prev => ~Fits(b)
    /\ pc = "free" => prev < base /\ Size(mem, base) >= MIN_FREE

HInv(F) ==
    /\ F \in SUBSET Unit
    /\ ListOf(F, mem, head)
    /\ Tiles(F \cup Taken, mem)
    /\ F \cap Taken = {}
    /\ Loose(F, mem)
    /\ Held
    /\ allocated = TOTAL - Cardinality(Units(F, mem))
    /\ Walk(F)

Inv == TypeOK /\ \E F \in SUBSET Unit : HInv(F)

LEMMA BlockFacts ==
    ASSUME NEW F, HInv(F)
    PROVE  /\ END \in Nat
           /\ \A c \in F \cup Taken : /\ c \in Nat /\ c > 0 /\ c \in Unit
                                      /\ Size(mem, c) \in Nat /\ Size(mem, c) >= 1 /\ c + Size(mem, c) <= END
<1>1. F \cup Taken \subseteq Unit
  BY DEF HInv, Tiles
<1>. QED  BY <1>1, UnitNat, HeapConstants DEF HInv, Tiles, END

LEMMA InvImplies == Inv => HeapSound /\ Coalesced /\ PayloadsApart
<1>. SUFFICES ASSUME Inv PROVE HeapSound /\ Coalesced /\ PayloadsApart
  OBVIOUS
<1>1. TypeOK
  BY DEF Inv
<1>2. PICK F \in SUBSET Unit : HInv(F)
  BY DEF Inv
<1>3. FreeBlocks = F
  BY <1>2, ListIsFree DEF HInv
<1>4. /\ END \in Nat
      /\ \A c \in F \cup Taken : /\ c \in Nat /\ c > 0 /\ c \in Unit
                                 /\ Size(mem, c) \in Nat /\ Size(mem, c) >= 1 /\ c + Size(mem, c) <= END
  BY <1>2, BlockFacts
<1>5. Tiled(F)
  <2>. DEFINE B == F \cup LiveBlocks \cup Moving
  <2>1. B = F \cup Taken
    BY DEF Taken
  <2>. HIDE DEF B
  <2>t. /\ \A b, c \in B : b < c => b + Size(mem, b) <= c
        /\ \A u \in Unit : \E b \in B : b <= u /\ u < b + Size(mem, b)
    BY <1>2, <2>1 DEF HInv, Tiles
  <2>2. \A b \in B : b \in Nat /\ b \in Unit /\ Size(mem, b) \in Nat /\ Size(mem, b) >= 1 /\ b + Size(mem, b) <= END
    BY <1>4, <2>1
  <2>3. \A b \in B : Extent(b) \subseteq Unit
    BY <2>2, HeapConstants DEF Extent, Unit, END
  <2>4. \A u \in Unit : \E b \in B : u \in Extent(b)
    BY <2>t, <2>2, UnitNat DEF Extent
  <2>5. \A b, c \in B : b # c => Extent(b) \cap Extent(c) = {}
    BY <2>t, <2>2 DEF Extent
  <2>6. F \cap (LiveBlocks \cup Moving) = {}
    BY <1>2 DEF HInv, Taken
  <2>. QED  BY <2>2, <2>3, <2>4, <2>5, <2>6 DEF Tiled, B
<1>6. Accounting(F)
  BY <1>2 DEF HInv, Accounting, Units, Extent
<1>7. Coalesced
  BY <1>2, <1>3 DEF Coalesced, HInv, Loose, Gap
<1>8. PayloadsApart
  BY <1>2 DEF HInv, Held, PayloadsApart
<1>. QED  BY <1>1, <1>3, <1>5, <1>6, <1>7, <1>8 DEF HeapSound

LEMMA HInit == Init => Inv
<1>. SUFFICES ASSUME Init PROVE Inv
  OBVIOUS
<1>c. START \in Nat /\ START > 0 /\ TOTAL \in Nat /\ TOTAL >= 2 /\ END = START + TOTAL /\ START \in Unit
  BY HeapConstants DEF END, Unit, MIN_FREE
<1>1. Size(mem, START) = TOTAL /\ NextOf(mem, START) = 0
  BY <1>c DEF Init, Size, NextOf, Word
<1>2. LiveBlocks = {} /\ Moving = {} /\ Taken = {}
  BY DEF Init, LiveBlocks, Moving, Taken
<1>3. TypeOK
  BY <1>c DEF Init, TypeOK, Word, JUNK
<1>4. ListOf({START}, mem, head)
  BY <1>c, <1>1 DEF Init, ListOf, IsNext
<1>5. Tiles({START}, mem)
  BY <1>c, <1>1 DEF Tiles, Unit
<1>6. Loose({START}, mem)
  BY <1>c, <1>1 DEF Loose, Gap, MIN_FREE
<1>7. allocated = TOTAL - Cardinality(Units({START}, mem))
  <2>1. Units({START}, mem) = START .. START + TOTAL - 1
    BY <1>1 DEF Units
  <2>2. Cardinality(START .. START + TOTAL - 1) = TOTAL
    BY <1>c, FS_Interval
  <2>. QED  BY <1>c, <2>1, <2>2 DEF Init
<1>8. Held /\ Walk({START})
  BY <1>2 DEF Init, Held, Walk
<1>9. {START} \cup Taken = {START} /\ {START} \cap Taken = {} /\ {START} \in SUBSET Unit
  BY <1>c, <1>2
<1>10. HInv({START})
  BY <1>4, <1>5, <1>6, <1>7, <1>8, <1>9 DEF HInv
<1>. QED  BY <1>3, <1>9, <1>10 DEF Inv

\* A pointer lies in its own block, with the base in the word before it.
LEMMA HeldFacts ==
    ASSUME TypeOK, NEW F \in SUBSET Unit, HInv(F), NEW q \in DOMAIN live
    PROVE  /\ Stash(mem, q) \in Taken /\ Stash(mem, q) \notin F
           /\ q \in Nat /\ Stash(mem, q) < q /\ q + 1 <= Stash(mem, q) + Size(mem, Stash(mem, q))
<1>. DEFINE c == Stash(mem, q)
<1>1. c \in Taken /\ c \notin F
  BY DEF HInv, Taken, LiveBlocks
<1>2. q \in Nat
  BY Zenon, UnitNat DEF TypeOK
<1>3. live[q] \in Nat /\ live[q] >= 1 /\ c < q /\ q + live[q] <= c + Size(mem, c)
  BY DEF HInv, Held
<1>. HIDE DEF c
<1>4. c \in Nat /\ Size(mem, c) \in Nat
  BY <1>1, BlockFacts
<1>5. q + 1 <= c + Size(mem, c)
  BY <1>2, <1>3, <1>4
<1>. QED  BY <1>1, <1>2, <1>3, <1>5 DEF c

\* The word with a pointer's base belongs to its block and to no other.
LEMMA StashApart ==
    ASSUME TypeOK, NEW F \in SUBSET Unit, HInv(F), NEW q \in DOMAIN live
    PROVE  /\ q \in Unit /\ q - 1 \in Unit
           /\ \A c \in F \cup Taken : q - 1 = c => c = Stash(mem, q)
<1>. DEFINE d == Stash(mem, q)
<1>1. d \in Taken /\ q \in Nat /\ d < q /\ q + 1 <= d + Size(mem, d)
  BY HeldFacts
<1>. HIDE DEF d
<1>2. d \in Nat /\ Size(mem, d) \in Nat /\ q \in Unit /\ d \in Unit
  BY <1>1, BlockFacts DEF TypeOK
<1>3. q - 1 \in Unit
  BY <1>1, <1>2, HeapConstants DEF Unit, END
<1>4. ASSUME NEW c \in F \cup Taken, q - 1 = c, c # d  PROVE  FALSE
  <2>1. c \in Nat /\ Size(mem, c) \in Nat /\ Size(mem, c) >= 1
    BY BlockFacts
  <2>2. c + Size(mem, c) <= d \/ d + Size(mem, d) <= c
    BY <1>1, <1>2, <1>4, <2>1 DEF HInv, Tiles
  <2>. QED  BY <1>1, <1>2, <1>4, <2>1, <2>2
<1>. QED  BY <1>2, <1>3, <1>4 DEF d

----------------------------------------------------------------------------
(* Steps that leave the memory alone *)

LEMMA StillHolds ==
    ASSUME NEW F, HInv(F), mem' = mem, head' = head, allocated' = allocated,
           Taken' = Taken, Held', Walk(F)'
    PROVE  HInv(F)'
BY DEF HInv, ListOf, Tiles, Loose, Gap, Units

LEMMA QuietStep ==
    ASSUME TypeOK, NEW F \in SUBSET Unit, HInv(F),
           \/ \E n \in Sizes, a \in Aligns : Alloc(n, a)
           \/ AllocNext \/ AllocNull \/ FreeNext \/ UNCHANGED vars
    PROVE  TypeOK' /\ HInv(F)'
<1>t. /\ F \cap Taken = {} /\ Held /\ Walk(F) /\ ListOf(F, mem, head)
      /\ \A c \in F : c \in Nat /\ c > 0 /\ c \in Unit
  BY BlockFacts DEF HInv
<1>0. mem' = mem /\ head' = head /\ allocated' = allocated /\ live' = live
  BY DEF Alloc, AllocNext, AllocNull, FreeNext, vars
<1>1. Moving' = Moving /\ LiveBlocks' = LiveBlocks
  BY <1>0 DEF Moving, LiveBlocks, Alloc, AllocNext, AllocNull, FreeNext, Enter, Leave, vars
<1>2. Held' /\ Taken' = Taken
  BY <1>t, <1>0, <1>1 DEF Held, Taken
<1>3. ASSUME NEW n \in Sizes, NEW a \in Aligns, Alloc(n, a)  PROVE  TypeOK' /\ Walk(F)'
  <2>1. TypeOK'
    BY <1>0, <1>3 DEF TypeOK, Alloc, Enter
  <2>. QED  BY <1>t, <1>0, <1>3, <2>1 DEF Walk, Alloc, Enter, ListOf
<1>4. ASSUME AllocNext \/ FreeNext  PROVE  TypeOK' /\ Walk(F)'
  <2>1. /\ IsNext(F, prev, cur) /\ cur # 0 /\ prev' = cur /\ cur' = NextOf(mem, cur)
        /\ pc' = pc /\ size' = size /\ align' = align /\ base' = base
    BY <1>t, <1>4 DEF Walk, AllocNext, FreeNext, Advance
  <2>2. cur \in F /\ IsNext(F, cur, NextOf(mem, cur))
    BY <1>t, <2>1, NextNat DEF ListOf
  <2>3. NextOf(mem, cur) \in {0} \cup Unit
    BY <1>t, <2>2, NextNat
  <2>4. TypeOK'
    BY <1>t, <1>0, <2>1, <2>2, <2>3 DEF TypeOK
  <2>5. ASSUME AllocNext, NEW b \in F, b <= cur  PROVE  ~Fits(b)'
    <3>1. Fits(b)' = Fits(b)
      BY <1>0, <2>1 DEF Fits, Payload
    <3>2. b <= prev \/ b = cur
      <4>1. prev \in Nat
        BY UnitNat DEF TypeOK
      <4>. QED  BY <1>t, <2>1, <2>2, <2>5, <4>1 DEF IsNext
    <3>. QED  BY <1>t, <2>5, <3>1, <3>2 DEF Walk, AllocNext
  <2>. QED  BY <1>t, <1>4, <2>1, <2>2, <2>4, <2>5 DEF Walk, AllocNext, FreeNext
<1>5. ASSUME AllocNull  PROVE  TypeOK' /\ Walk(F)'
  BY <1>0, <1>5 DEF TypeOK, Walk, AllocNull, Leave
<1>6. ASSUME UNCHANGED vars  PROVE  TypeOK' /\ Walk(F)'
  BY <1>t, <1>6 DEF TypeOK, Walk, vars, Fits, Payload
<1>. QED  BY <1>0, <1>2, <1>3, <1>4, <1>5, <1>6, StillHolds

\* heap_free begins: the block changes hands.
LEMMA FreeBegins ==
    ASSUME TypeOK, NEW F \in SUBSET Unit, HInv(F), NEW p \in DOMAIN live, Free(p)
    PROVE  TypeOK' /\ HInv(F)'
<1>t. Held /\ ListOf(F, mem, head) /\ \A c \in F \cup Taken : c \in Nat /\ c > 0 /\ c \in Unit
  BY BlockFacts DEF HInv
<1>0. /\ mem' = mem /\ head' = head /\ allocated' = allocated /\ pc = "idle" /\ pc' = "free"
      /\ prev' = 0 /\ cur' = head /\ base' = Stash(mem, p)
      /\ live' = [q \in DOMAIN live \ {p} |-> live[q]]
  BY DEF Free, Enter
<1>1. DOMAIN live' = DOMAIN live \ {p} /\ \A q \in DOMAIN live' : live'[q] = live[q]
  BY <1>0
<1>2. Stash(mem, p) \in LiveBlocks /\ Moving = {} /\ Moving' = {Stash(mem, p)}
  BY <1>0 DEF Moving, LiveBlocks
<1>3. LiveBlocks' = LiveBlocks \ {Stash(mem, p)}
  BY <1>t, <1>0, <1>1 DEF LiveBlocks, Held
<1>4. Taken' = Taken
  BY <1>2, <1>3 DEF Taken
<1>5. Held'
  BY <1>t, <1>0, <1>1, <1>2, <1>3 DEF Held
<1>6. Walk(F)'
  <2>1. Size(mem, base') >= MIN_FREE
    <3>1. /\ p \in Nat /\ Stash(mem, p) < p /\ p + 1 <= Stash(mem, p) + Size(mem, Stash(mem, p))
          /\ Stash(mem, p) \in Nat /\ Size(mem, Stash(mem, p)) \in Nat
      BY HeldFacts, BlockFacts
    <3>. QED  BY <1>0, <3>1 DEF MIN_FREE
  <2>. QED  BY <1>t, <1>0, <1>2, <2>1 DEF Walk, ListOf, Taken
<1>7. TypeOK'
  BY <1>t, <1>0, <1>1, <1>2 DEF TypeOK, Taken, Free
<1>. QED  BY <1>0, <1>4, <1>5, <1>6, <1>7, StillHolds

----------------------------------------------------------------------------
(* heap_alloc takes a block *)

LEMMA AlignUpGrows ==
    ASSUME NEW v \in Nat, NEW a \in Nat, a > 0
    PROVE  AlignUp(v, a) \in Nat /\ AlignUp(v, a) >= v
BY DEF AlignUp

\* The payload lies behind the header, inside the block.
LEMMA TakeFits ==
    ASSUME TypeOK, NEW F \in SUBSET Unit, HInv(F), AllocTake
    PROVE  /\ cur \in F /\ size \in Nat /\ size >= 1
           /\ Payload(cur) \in Nat /\ cur + 1 <= Payload(cur)
           /\ TailStart(cur) = Payload(cur) + size /\ TailStart(cur) <= cur + Size(mem, cur)
           /\ Splits(cur) <=> TailStart(cur) + MIN_FREE <= cur + Size(mem, cur)
           /\ Remainder(cur) = cur + Size(mem, cur) - TailStart(cur)
<1>1. cur \in F /\ size \in Nat /\ size >= 1 /\ align \in Nat /\ align > 0
  <2>1. IsNext(F, prev, cur) /\ cur # 0 /\ size \in Sizes /\ align \in Aligns
    BY DEF HInv, Walk, AllocTake
  <2>2. \A c \in F : c \in Nat /\ c > 0
    BY UnitNat
  <2>3. cur \in F
    BY ONLY <2>1, <2>2, NextNat
  <2>. QED  BY ONLY SMTT(30), <2>1, <2>3, HeapConstants
<1>2. cur \in Nat /\ Size(mem, cur) \in Nat
  BY <1>1, BlockFacts
<1>3. Payload(cur) \in Nat /\ cur + 1 <= Payload(cur)
  BY <1>1, <1>2, AlignUpGrows DEF Payload
<1>. QED  BY <1>1, <1>2, <1>3 DEF AllocTake, Fits, TailStart, Remainder, Splits, MIN_FREE

\* The words that heap_alloc writes, the last write first.
LEMMA TakeWords ==
    ASSUME mem \in [Word -> {JUNK} \cup 0 .. END], AllocTake, NEW w \in Word
    PROVE  mem'[w] =
             IF w \in 2 * Payload(cur) .. 2 * (Payload(cur) + size) - 1 THEN JUNK
             ELSE IF w = 2 * Payload(cur) - 1 THEN cur
             ELSE IF Splits(cur) /\ w = 2 * cur THEN TailStart(cur) - cur
             ELSE IF prev # 0 /\ w = 2 * prev + 1
                  THEN IF Splits(cur) THEN TailStart(cur) ELSE NextOf(mem, cur)
             ELSE IF Splits(cur) /\ w = 2 * TailStart(cur) + 1 THEN NextOf(mem, cur)
             ELSE IF Splits(cur) /\ w = 2 * TailStart(cur) THEN Remainder(cur)
             ELSE mem[w]
<1>. DEFINE p == Payload(cur)
            m == IF Splits(cur) THEN SplitOff(cur) ELSE Unlink(cur)
<1>1. mem'[w] = IF w \in 2 * p .. 2 * (p + size) - 1 THEN JUNK ELSE SetStash(m, p, cur)[w]
  BY DEF AllocTake, Scribble
<1>2. DOMAIN m = Word
  BY DEF SplitOff, Unlink, Link, SetSize, SetNext
<1>3. SetStash(m, p, cur)[w] = IF w = 2 * p - 1 THEN cur ELSE m[w]
  BY <1>2 DEF SetStash
<1>4. CASE Splits(cur)
  <2>. DEFINE t == TailStart(cur)
              m1 == SetSize(mem, t, Remainder(cur))
              m2 == SetNext(m1, t, NextOf(mem, cur))
              m3 == Link(m2, t)
  <2>1. DOMAIN m1 = Word /\ m1[w] = IF w = 2 * t THEN Remainder(cur) ELSE mem[w]
    BY DEF SetSize
  <2>2. DOMAIN m2 = Word /\ m2[w] = IF w = 2 * t + 1 THEN NextOf(mem, cur) ELSE m1[w]
    BY <2>1 DEF SetNext
  <2>3. DOMAIN m3 = Word /\ m3[w] = IF prev # 0 /\ w = 2 * prev + 1 THEN t ELSE m2[w]
    BY <2>2 DEF SetNext, Link
  <2>4. m[w] = IF w = 2 * cur THEN t - cur ELSE m3[w]
    BY <1>4, <2>3 DEF SetSize, SplitOff
  <2>. QED  BY <1>1, <1>3, <1>4, <2>1, <2>2, <2>3, <2>4, Zenon
<1>5. CASE ~Splits(cur)
  <2>1. m[w] = IF prev # 0 /\ w = 2 * prev + 1 THEN NextOf(mem, cur) ELSE mem[w]
    BY <1>5 DEF Unlink, Link, SetNext
  <2>. QED  BY <1>1, <1>3, <1>5, <2>1, Zenon
<1>. QED  BY <1>4, <1>5

\* Outside of the block taken, heap_alloc writes the `next' of `prev' only; what
\* it leaves inside is a header, perhaps a second one for the tail, and the base
\* before the payload.
LEMMA TakeEffects ==
    ASSUME TypeOK, NEW F \in SUBSET Unit, HInv(F), AllocTake
    PROVE  /\ \A c \in (F \cup Taken) \ {cur} :
                /\ Size(mem', c) = Size(mem, c)
                /\ prev = 0 \/ c # prev => NextOf(mem', c) = NextOf(mem, c)
           /\ prev # 0 => /\ prev \in F \ {cur}
                          /\ NextOf(mem', prev) = IF Splits(cur) THEN TailStart(cur) ELSE NextOf(mem, cur)
           /\ Size(mem', cur) = Consumed(cur)
           /\ Splits(cur) => Size(mem', TailStart(cur)) = Remainder(cur) /\ NextOf(mem', TailStart(cur)) = NextOf(mem, cur)
           /\ \A q \in DOMAIN live : Stash(mem', q) = Stash(mem, q)
           /\ Stash(mem', Payload(cur)) = cur
<1>. DEFINE p == Payload(cur)
            t == TailStart(cur)
            z == Size(mem, cur)
<1>f. /\ cur \in F /\ size \in Nat /\ size >= 1 /\ p \in Nat /\ cur + 1 <= p
      /\ t = p + size /\ t <= cur + z /\ (Splits(cur) <=> t + 2 <= cur + z)
  BY TakeFits DEF MIN_FREE
<1>b. /\ END \in Nat
      /\ \A c \in F \cup Taken : /\ c \in Nat /\ c > 0 /\ c \in Unit
                                 /\ Size(mem, c) \in Nat /\ Size(mem, c) >= 1 /\ c + Size(mem, c) <= END
      /\ \A c, d \in F \cup Taken : c < d => c + Size(mem, c) <= d
  BY BlockFacts DEF HInv, Tiles
<1>v. (prev # 0 => prev \in F \ {cur}) /\ prev \in Nat /\ prev < cur
  <2>1. IsNext(F, prev, cur) /\ (prev = 0 \/ prev \in F)
    BY DEF HInv, Walk, AllocTake
  <2>. QED  BY <1>b, <1>f, <2>1 DEF IsNext
<1>c. cur \in Nat /\ z \in Nat /\ cur + z <= END /\ cur \in Unit /\ t \in Nat
  BY <1>b, <1>f
<1>. HIDE DEF p, t, z
<1>w. ASSUME NEW w \in Word
      PROVE  mem'[w] = IF w \in 2 * p .. 2 * (p + size) - 1 THEN JUNK
                       ELSE IF w = 2 * p - 1 THEN cur
                       ELSE IF Splits(cur) /\ w = 2 * cur THEN t - cur
                       ELSE IF prev # 0 /\ w = 2 * prev + 1 THEN IF Splits(cur) THEN t ELSE NextOf(mem, cur)
                       ELSE IF Splits(cur) /\ w = 2 * t + 1 THEN NextOf(mem, cur)
                       ELSE IF Splits(cur) /\ w = 2 * t THEN Remainder(cur)
                       ELSE mem[w]
  BY TakeWords DEF p, t, TypeOK
<1>o. ASSUME NEW w \in Word, w < 2 * cur \/ w >= 2 * (cur + z)
      PROVE  mem'[w] = IF prev # 0 /\ w = 2 * prev + 1 THEN IF Splits(cur) THEN t ELSE NextOf(mem, cur)
                       ELSE mem[w]
  <2>1. /\ w \notin 2 * p .. 2 * (p + size) - 1 /\ w # 2 * p - 1 /\ w # 2 * cur
        /\ (Splits(cur) => w # 2 * t /\ w # 2 * t + 1)
    BY <1>f, <1>c, <1>o, HeapConstants DEF Word, END
  <2>. QED  BY <1>w, <2>1
<1>1. ASSUME NEW c \in (F \cup Taken) \ {cur}
      PROVE  /\ Size(mem', c) = Size(mem, c)
             /\ NextOf(mem', c) = IF prev # 0 /\ c = prev THEN IF Splits(cur) THEN t ELSE NextOf(mem, cur)
                                  ELSE NextOf(mem, c)
  <2>1. c \in Nat /\ 2 * c \in Word /\ 2 * c + 1 \in Word /\ Size(mem, c) \in Nat /\ Size(mem, c) >= 1
    BY <1>b, WordsOf
  <2>2. c + Size(mem, c) <= cur \/ cur + z <= c
    BY <1>b, <1>f, <2>1 DEF z
  <2>3. (c < cur \/ c >= cur + z) /\ 2 * c # 2 * prev + 1 /\ (2 * c + 1 = 2 * prev + 1 <=> c = prev)
    BY <1>c, <1>v, <2>1, <2>2
  <2>4. (2 * c < 2 * cur \/ 2 * c >= 2 * (cur + z)) /\ (2 * c + 1 < 2 * cur \/ 2 * c + 1 >= 2 * (cur + z))
    BY <1>c, <2>1, <2>3
  <2>. QED  BY <1>o, <2>1, <2>3, <2>4 DEF Size, NextOf
<1>2. Size(mem', cur) = Consumed(cur)
  <2>1. /\ 2 * cur \in Word /\ 2 * cur \notin 2 * p .. 2 * (p + size) - 1 /\ 2 * cur # 2 * p - 1
        /\ 2 * cur # 2 * prev + 1 /\ 2 * cur # 2 * t + 1 /\ (Splits(cur) => 2 * cur # 2 * t)
    BY <1>f, <1>c, <1>v, WordsOf
  <2>. QED  BY <1>w, <2>1 DEF Size, z, t, Consumed
<1>3. ASSUME Splits(cur)  PROVE  Size(mem', t) = Remainder(cur) /\ NextOf(mem', t) = NextOf(mem, cur)
  <2>1. 2 * t \in Word /\ 2 * t + 1 \in Word
    BY <1>b, <1>f, <1>c, <1>3, HeapConstants DEF Unit, Word, END
  <2>2. /\ 2 * t \notin 2 * p .. 2 * (p + size) - 1 /\ 2 * t # 2 * p - 1
        /\ 2 * t # 2 * cur /\ 2 * t # 2 * prev + 1 /\ 2 * t # 2 * t + 1
        /\ 2 * t + 1 \notin 2 * p .. 2 * (p + size) - 1 /\ 2 * t + 1 # 2 * p - 1
        /\ 2 * t + 1 # 2 * cur /\ 2 * t + 1 # 2 * prev + 1
    BY <1>f, <1>c, <1>v
  <2>. QED  BY <1>w, <1>3, <2>1, <2>2 DEF Size, NextOf
<1>4. ASSUME NEW q \in DOMAIN live  PROVE  Stash(mem', q) = Stash(mem, q)
  <2>. DEFINE d == Stash(mem, q)
  <2>1. d \in Taken /\ d \notin F /\ q \in Nat /\ d < q /\ q + 1 <= d + Size(mem, d)
    BY HeldFacts
  <2>2. q \in Unit /\ q - 1 \in Unit /\ (prev \in F => q - 1 # prev)
    BY <2>1, StashApart
  <2>. HIDE DEF d
  <2>3. d \in Nat /\ Size(mem, d) \in Nat /\ (d + Size(mem, d) <= cur \/ cur + z <= d)
    BY <1>b, <1>f, <2>1 DEF z
  <2>4. 2 * q - 1 \in Word /\ (2 * q - 1 < 2 * cur \/ 2 * q - 1 >= 2 * (cur + z)) /\ (prev # 0 => 2 * q - 1 # 2 * prev + 1)
    BY <1>c, <1>v, <2>1, <2>2, <2>3, HeapConstants DEF Unit, Word, END
  <2>. QED  BY <1>o, <2>4 DEF Stash
<1>5. Stash(mem', p) = cur
  <2>1. 2 * p - 1 \in Word /\ 2 * p - 1 \notin 2 * p .. 2 * (p + size) - 1
    BY <1>b, <1>c, <1>f, HeapConstants DEF Unit, Word, END
  <2>. QED  BY <1>w, <2>1 DEF Stash
<1>6. prev # 0 => NextOf(mem', prev) = IF Splits(cur) THEN t ELSE NextOf(mem, cur)
  BY <1>1, <1>v
<1>. QED  BY <1>1, <1>2, <1>3, <1>4, <1>5, <1>6, <1>v DEF p, t, z

\* The free blocks once heap_alloc has taken one, or all but its tail.
Left(F) == IF Splits(cur) THEN (F \ {cur}) \cup {TailStart(cur)} ELSE F \ {cur}

LEMMA TakeList ==
    ASSUME TypeOK, NEW F \in SUBSET Unit, HInv(F), AllocTake
    PROVE  ListOf(Left(F), mem', head')
<1>. DEFINE t == TailStart(cur)
            v == NextOf(mem, cur)
<1>n. \A c \in F : c \in Nat /\ c > 0
  BY UnitNat
<1>f. /\ cur \in F /\ cur \in Nat /\ Size(mem, cur) \in Nat
      /\ t \in Nat /\ cur < t /\ t <= cur + Size(mem, cur)
  BY TakeFits, BlockFacts
<1>w. ListOf(F, mem, head) /\ (prev = 0 \/ prev \in F) /\ IsNext(F, prev, cur) /\ Gap(mem, cur)
  BY <1>f DEF HInv, Walk, AllocTake, Loose
<1>e. /\ prev # 0 => NextOf(mem', prev) = IF Splits(cur) THEN t ELSE v
      /\ Splits(cur) => NextOf(mem', t) = v
      /\ \A c \in F \ {prev, cur} : NextOf(mem', c) = NextOf(mem, c)
  BY TakeEffects, Zenon
<1>h. head' = IF prev = 0 THEN IF Splits(cur) THEN t ELSE v ELSE head
  BY DEF AllocTake, Head
<1>g. v = 0 \/ t < v
  <2>1. v = 0 \/ (v \in F /\ cur + Size(mem, cur) < v)
    BY Zenon, <1>n, <1>f, <1>w, NextNat DEF ListOf, Gap
  <2>2. v = 0 \/ v \in Nat
    BY <1>n, <2>1
  <2>3. t \in Nat /\ cur \in Nat /\ Size(mem, cur) \in Nat /\ t <= cur + Size(mem, cur)
    BY <1>f
  <2>. HIDE DEF v, t
  <2>. QED  BY <2>1, <2>2, <2>3
<1>. HIDE DEF t
<1>1. CASE ~Splits(cur)
  <2>1. /\ prev # 0 => NextOf(mem', prev) = NextOf(mem, cur)
        /\ \A c \in F \ {prev, cur} : NextOf(mem', c) = NextOf(mem, c)
    BY <1>e, <1>1
  <2>2. ListOf(F \ {cur}, mem', IF prev = 0 THEN NextOf(mem, cur) ELSE head)
    BY ONLY Zenon, <1>n, <1>f, <1>w, <2>1, ListRemove
  <2>. QED  BY <1>h, <1>1, <2>2 DEF Left
<1>2. CASE Splits(cur)
  <2>1. /\ prev # 0 => NextOf(mem', prev) = t
        /\ NextOf(mem', t) = NextOf(mem, cur) /\ (NextOf(mem, cur) = 0 \/ t < NextOf(mem, cur))
        /\ \A c \in F \ {prev, cur} : NextOf(mem', c) = NextOf(mem, c)
    BY <1>e, <1>g, <1>2
  <2>2. ListOf((F \ {cur}) \cup {t}, mem', IF prev = 0 THEN t ELSE head)
    BY ONLY Zenon, <1>n, <1>f, <1>w, <2>1, ListReplace
  <2>. QED  BY <1>h, <1>2, <2>2 DEF Left, t
<1>. QED  BY <1>1, <1>2

\* The tiling and the distances after heap_alloc.
LEMMA TakeBlocks ==
    ASSUME TypeOK, NEW F \in SUBSET Unit, HInv(F), AllocTake, NEW G, G = Left(F)
    PROVE  /\ Tiles(G \cup (Taken \cup {cur}), mem') /\ G \cap (Taken \cup {cur}) = {} /\ G \in SUBSET Unit
           /\ Loose(G, mem')
<1>. DEFINE t == TailStart(cur)
            z == Size(mem, cur)
            B == F \cup Taken
<1>b. /\ \A c \in B : c \in Nat /\ c > 0 /\ c \in Unit /\ Size(mem, c) \in Nat /\ Size(mem, c) >= 1
      /\ Tiles(B, mem) /\ F \cap Taken = {} /\ Loose(F, mem)
  BY BlockFacts DEF HInv
<1>f. /\ cur \in F /\ cur \in Nat /\ z \in Nat /\ t \in Nat /\ cur < t /\ t <= cur + z
      /\ (Splits(cur) <=> t + 2 <= cur + z) /\ Remainder(cur) = cur + z - t
  BY <1>b, TakeFits DEF MIN_FREE
<1>e. /\ \A c \in B \ {cur} : Size(mem', c) = Size(mem, c) /\ (prev = 0 \/ c # prev => NextOf(mem', c) = NextOf(mem, c))
      /\ Size(mem', cur) = IF Splits(cur) THEN t - cur ELSE z
      /\ Splits(cur) => Size(mem', t) = cur + z - t /\ NextOf(mem', t) = NextOf(mem, cur)
      /\ prev # 0 => NextOf(mem', prev) = IF Splits(cur) THEN t ELSE NextOf(mem, cur)
  BY <1>f, TakeEffects DEF Consumed
<1>. HIDE DEF t, z, B
<1>l. ASSUME NEW c \in F \ {cur}  PROVE  Size(mem', c) >= MIN_FREE /\ Gap(mem', c)
  <2>1. c \in B /\ Size(mem', c) = Size(mem, c) /\ Size(mem, c) >= MIN_FREE /\ Gap(mem, c) /\ Gap(mem, cur)
    BY <1>b, <1>e, <1>f DEF B, Loose
  <2>2. CASE prev = 0 \/ c # prev
    BY <1>e, <2>1, <2>2 DEF Gap
  <2>3. CASE prev # 0 /\ c = prev
    <3>1. IsNext(F, prev, cur) /\ IsNext(F, cur, NextOf(mem, cur))
      BY <1>f DEF HInv, Walk, AllocTake, ListOf
    <3>2. c + Size(mem, c) <= cur /\ (NextOf(mem, cur) # 0 => NextOf(mem, cur) \in F /\ NextOf(mem, cur) > cur)
      <4>1. c < cur /\ cur \in B
        BY <1>b, <1>f, <2>1, <2>3, <3>1 DEF IsNext, B
      <4>. QED  BY <1>b, <2>1, <3>1, <4>1 DEF IsNext, Tiles
    <3>3. c \in Nat /\ Size(mem, c) \in Nat /\ (NextOf(mem, cur) # 0 => NextOf(mem, cur) \in Nat)
      BY <1>b, <2>1, <3>2 DEF B
    <3>. QED  BY <1>e, <1>f, <2>1, <2>3, <3>2, <3>3 DEF Gap
  <2>. QED  BY <2>2, <2>3
<1>1. CASE Splits(cur)
  <2>0. G = (F \ {cur}) \cup {t}
    BY <1>1 DEF t, Left
  <2>1. t \notin B /\ Tiles(B \cup {t}, mem')
    <3>1. cur \in B /\ t < cur + z /\ Size(mem', cur) = t - cur /\ Size(mem', t) = cur + z - t
      BY <1>f, <1>e, <1>1 DEF B
    <3>2. t < cur + Size(mem, cur) /\ Size(mem', t) = cur + Size(mem, cur) - t
      BY <3>1 DEF z
    <3>3. Tiles(B, mem) /\ t \in Nat /\ cur < t /\ \A c \in B \ {cur} : Size(mem', c) = Size(mem, c)
      BY <1>b, <1>f, <1>e
    <3>. QED  BY ONLY <3>1, <3>2, <3>3, TilesSplit
  <2>2. G \cup (Taken \cup {cur}) = B \cup {t}
    BY <1>f, <2>0 DEF B
  <2>3. G \cap (Taken \cup {cur}) = {} /\ G \in SUBSET Unit
    BY <1>b, <1>f, <2>0, <2>1 DEF B, Tiles
  <2>4. Size(mem', t) >= MIN_FREE /\ Gap(mem', t)
    <3>1. Gap(mem, cur) /\ t + Size(mem', t) = cur + z
      BY <1>b, <1>f, <1>e, <1>1 DEF Loose
    <3>. QED  BY <1>f, <1>e, <1>1, <3>1 DEF Gap, z, MIN_FREE
  <2>. QED  BY <1>l, <2>0, <2>1, <2>2, <2>3, <2>4 DEF Loose
<1>2. CASE ~Splits(cur)
  <2>0. G = F \ {cur} /\ \A c \in B : Size(mem', c) = Size(mem, c)
    BY <1>2, <1>e DEF z, Left
  <2>1. Tiles(B, mem')
    BY <1>b, <2>0, TilesSame
  <2>2. G \cup (Taken \cup {cur}) = B
    BY <1>f, <2>0 DEF B
  <2>. QED  BY Zenon, <1>b, <1>f, <1>l, <2>0, <2>1, <2>2 DEF Loose
<1>. QED  BY <1>1, <1>2

\* The pointer handed out is a new one: no live pointer lies in a free block.
LEMMA PayloadIsNew ==
    ASSUME TypeOK, NEW F \in SUBSET Unit, HInv(F), AllocTake
    PROVE  Payload(cur) \notin DOMAIN live
<1>. SUFFICES ASSUME Payload(cur) \in DOMAIN live PROVE FALSE
  OBVIOUS
<1>. DEFINE q == Payload(cur)
            c == Stash(mem, q)
<1>1. c \in Taken /\ c \notin F /\ q \in Nat /\ c < q /\ q + 1 <= c + Size(mem, c)
  BY HeldFacts
<1>2. cur \in F /\ cur + 1 <= q /\ q + size <= cur + Size(mem, cur) /\ size \in Nat /\ size >= 1
  BY TakeFits
<1>. HIDE DEF q, c
<1>3. c \in Nat /\ Size(mem, c) \in Nat /\ cur \in Nat /\ Size(mem, cur) \in Nat
  BY <1>1, <1>2, BlockFacts
<1>4. c + Size(mem, c) <= cur \/ cur + Size(mem, cur) <= c
  <2>1. \A a, d \in F \cup Taken : a < d => a + Size(mem, a) <= d
    BY DEF HInv, Tiles
  <2>. QED  BY <1>1, <1>2, <1>3, <2>1
<1>. QED  BY <1>1, <1>2, <1>3, <1>4

LEMMA TakeTyped ==
    ASSUME TypeOK, NEW F \in SUBSET Unit, HInv(F), AllocTake
    PROVE  mem' \in [Word -> {JUNK} \cup 0 .. END] /\ Payload(cur) \in Unit
<1>f. /\ cur \in F /\ size \in Nat /\ size >= 1 /\ Payload(cur) \in Nat /\ cur + 1 <= Payload(cur)
      /\ TailStart(cur) = Payload(cur) + size /\ TailStart(cur) <= cur + Size(mem, cur)
      /\ Remainder(cur) = cur + Size(mem, cur) - TailStart(cur)
  BY TakeFits
<1>b. /\ END \in Nat /\ cur \in Nat /\ cur > 0 /\ cur \in Unit
      /\ Size(mem, cur) \in Nat /\ Size(mem, cur) >= 1 /\ cur + Size(mem, cur) <= END
  BY <1>f, BlockFacts
<1>1. Payload(cur) \in Unit
  BY <1>f, <1>b, HeapConstants DEF Unit, END
<1>2. mem \in [Word -> {JUNK} \cup 0 .. END] /\ 2 * cur + 1 \in Word
  BY <1>b, WordsOf DEF TypeOK
<1>3. NextOf(mem, cur) \in {JUNK} \cup 0 .. END
  BY <1>2 DEF NextOf
<1>4. cur \in 0 .. END /\ TailStart(cur) \in 0 .. END /\ TailStart(cur) - cur \in 0 .. END /\ Remainder(cur) \in 0 .. END
  BY <1>f, <1>b
<1>5. ASSUME NEW w \in Word  PROVE  mem'[w] \in {JUNK} \cup 0 .. END
  BY <1>2, <1>3, <1>4, TakeWords
<1>6. mem' = [w \in Word |-> mem'[w]]
  BY DEF AllocTake, Scribble
<1>. QED  BY <1>1, <1>5, <1>6

LEMMA TakeStep ==
    ASSUME TypeOK, NEW F \in SUBSET Unit, HInv(F), AllocTake
    PROVE  TypeOK' /\ \E G \in SUBSET Unit : HInv(G)'
<1>. DEFINE p == Payload(cur)
<1>0. PICK G : G = Left(F)
  OBVIOUS
<1>1. ListOf(G, mem', head')
  BY <1>0, TakeList
<1>2. /\ Tiles(G \cup (Taken \cup {cur}), mem') /\ G \cap (Taken \cup {cur}) = {} /\ G \in SUBSET Unit
      /\ Loose(G, mem')
  BY <1>0, TakeBlocks
<1>f. /\ cur \in F /\ cur \in Nat /\ size \in Nat /\ size >= 1 /\ p \in Nat /\ cur + 1 <= p
      /\ TailStart(cur) = p + size /\ TailStart(cur) <= cur + Size(mem, cur) /\ Size(mem, cur) \in Nat
  BY TakeFits, BlockFacts
<1>e. /\ \A c \in (F \cup Taken) \ {cur} : Size(mem', c) = Size(mem, c)
      /\ Size(mem', cur) = Consumed(cur) /\ Consumed(cur) = IF Splits(cur) THEN TailStart(cur) - cur ELSE Size(mem, cur)
      /\ \A q \in DOMAIN live : Stash(mem', q) = Stash(mem, q)
      /\ Stash(mem', p) = cur
  BY TakeEffects DEF Consumed
<1>n. p \notin DOMAIN live /\ mem' \in [Word -> {JUNK} \cup 0 .. END] /\ p \in Unit
  BY PayloadIsNew, TakeTyped
<1>. HIDE DEF p
<1>l. /\ DOMAIN live' = DOMAIN live \cup {p} /\ live'[p] = size /\ \A q \in DOMAIN live : live'[q] = live[q]
      /\ pc = "alloc" /\ pc' = "idle" /\ prev' = 0 /\ cur' = 0 /\ base' = 0
      /\ allocated' = allocated + Consumed(cur)
  BY <1>n DEF AllocTake, Leave, p
<1>3. LiveBlocks' = LiveBlocks \cup {cur}
  BY <1>e, <1>l DEF LiveBlocks
<1>4. Moving = {} /\ Moving' = {} /\ Taken' = Taken \cup {cur}
  BY <1>3, <1>l DEF Moving, Taken
<1>5. Held'
  <2>1. ASSUME NEW q \in DOMAIN live
        PROVE  /\ live'[q] \in Nat /\ live'[q] >= 1
               /\ Stash(mem', q) < q /\ q + live'[q] <= Stash(mem', q) + Size(mem', Stash(mem', q))
               /\ Stash(mem', q) # cur
    <3>1. Stash(mem, q) \in Taken /\ Stash(mem, q) \notin F
      BY HeldFacts
    <3>. QED  BY ZenonT(40), <1>e, <1>f, <1>l, <3>1 DEF HInv, Held
  <2>2. Stash(mem', p) < p /\ p + size <= cur + Size(mem', cur)
    BY ONLY <1>e, <1>f
  <2>3. \A q, r \in DOMAIN live : q # r => Stash(mem', q) # Stash(mem', r)
    BY <1>e DEF HInv, Held
  <2>. QED  BY <1>e, <1>f, <1>l, <1>4, <2>1, <2>2, <2>3 DEF Held
<1>6. allocated' = TOTAL - Cardinality(Units(G, mem')) /\ allocated' \in 0 .. TOTAL
  <2>1. Parts(F, Taken, mem) /\ cur \notin Taken /\ \A c \in Taken : Size(mem', c) = Size(mem, c)
    BY Zenon, <1>e, <1>f DEF HInv, Parts
  <2>2. /\ Cardinality(Units(F, mem)) \in 0 .. TOTAL /\ Cardinality(Units(G, mem')) \in 0 .. TOTAL
        /\ Cardinality(Units(G, mem')) = Cardinality(Units(F, mem)) - Size(mem', cur)
    <3>. DEFINE X == Taken \cup {cur}
    <3>1. Parts(G, X, mem') /\ X = Taken \cup {cur}
      BY <1>2 DEF Parts
    <3>. HIDE DEF X
    <3>. QED  BY ONLY <2>1, <3>1, UnitsMove
  <2>3. allocated = TOTAL - Cardinality(Units(F, mem)) /\ TOTAL \in Nat /\ Consumed(cur) \in Nat
    BY <1>e, <1>f, HeapConstants DEF HInv
  <2>. QED  BY <1>e, <1>l, <2>2, <2>3
<1>7. TypeOK'
  <2>1. head' \in {0} \cup Unit
    BY <1>1, <1>2 DEF ListOf, IsNext
  <2>. QED  BY <1>l, <1>n, <1>6, <2>1 DEF TypeOK
<1>8. HInv(G)'
  <2>1. Walk(G)'
    BY <1>l DEF Walk
  <2>2. G \cup Taken' = G \cup (Taken \cup {cur})
    BY <1>4
  <2>. QED  BY Zenon, <1>1, <1>2, <1>4, <1>5, <1>6, <2>1, <2>2 DEF HInv
<1>. QED  BY <1>2, <1>7, <1>8

----------------------------------------------------------------------------
(* heap_free puts a block back *)

\* What one write to a block's header does to the words of the blocks.
LEMMA HeaderWrites ==
    ASSUME NEW m, DOMAIN m = Word, NEW c \in Unit, NEW x
    PROVE  /\ DOMAIN SetNext(m, c, x) = Word /\ DOMAIN SetSize(m, c, x) = Word
           /\ \A d \in Unit : /\ Size(SetNext(m, c, x), d) = Size(m, d)
                              /\ NextOf(SetNext(m, c, x), d) = IF d = c THEN x ELSE NextOf(m, d)
                              /\ Size(SetSize(m, c, x), d) = IF d = c THEN x ELSE Size(m, d)
                              /\ NextOf(SetSize(m, c, x), d) = NextOf(m, d)
           /\ \A q \in Unit : q - 1 \in Unit /\ q - 1 # c =>
                /\ Stash(SetNext(m, c, x), q) = Stash(m, q)
                /\ Stash(SetSize(m, c, x), q) = Stash(m, q)
<1>1. \A d \in Unit : d \in Nat /\ 2 * d \in Word /\ 2 * d + 1 \in Word
  BY WordsOf, UnitNat
<1>2. \A d \in Unit : /\ Size(SetNext(m, c, x), d) = Size(m, d)
                      /\ NextOf(SetNext(m, c, x), d) = IF d = c THEN x ELSE NextOf(m, d)
                      /\ Size(SetSize(m, c, x), d) = IF d = c THEN x ELSE Size(m, d)
                      /\ NextOf(SetSize(m, c, x), d) = NextOf(m, d)
  BY <1>1 DEF Size, NextOf, SetNext, SetSize
<1>3. ASSUME NEW q \in Unit, q - 1 \in Unit, q - 1 # c
      PROVE  /\ Stash(SetNext(m, c, x), q) = Stash(m, q)
             /\ Stash(SetSize(m, c, x), q) = Stash(m, q)
  <2>1. q \in Nat /\ c \in Nat /\ 2 * q - 1 # 2 * c /\ 2 * q - 1 # 2 * c + 1
    BY <1>1, <1>3
  <2>. QED  BY <2>1 DEF Stash, SetNext, SetSize
<1>. QED  BY Zenon, <1>2, <1>3 DEF SetNext, SetSize

\* The heap in the course of heap_free's writes: the memory m, its head h, its
\* free blocks G, of which those in S may still touch the next one.
Mending(G, m, h, S) ==
    /\ m \in [Word -> {JUNK} \cup 0 .. END]
    /\ G \in SUBSET Unit /\ G \cap LiveBlocks = {}
    /\ ListOf(G, m, h) /\ Tiles(G \cup LiveBlocks, m)
    /\ \A b \in G : Size(m, b) >= MIN_FREE /\ (b \notin S => Gap(m, b))
    /\ \A q \in DOMAIN live : Stash(m, q) = Stash(mem, q)
    /\ \A d \in LiveBlocks : Size(m, d) = Size(mem, d)

\* The block u swallows the next one.
Joined(m, u) == SetNext(SetSize(m, u, Size(m, u) + Size(m, NextOf(m, u))), u, NextOf(m, NextOf(m, u)))

LEMMA JoinWrites ==
    ASSUME NEW m, DOMAIN m = Word, NEW u \in Unit, NEW v, v = NextOf(m, u), NEW n, n = Joined(m, u)
    PROVE  /\ DOMAIN n = Word
           /\ Size(n, u) = Size(m, u) + Size(m, v) /\ NextOf(n, u) = NextOf(m, v)
           /\ \A d \in Unit \ {u} : Size(n, d) = Size(m, d) /\ NextOf(n, d) = NextOf(m, d)
           /\ \A q \in Unit : q - 1 \in Unit /\ q - 1 # u => Stash(n, q) = Stash(m, q)
<1>. DEFINE k == SetSize(m, u, Size(m, u) + Size(m, v))
<1>1. n = SetNext(k, u, NextOf(m, v))
  BY DEF Joined
<1>2. /\ DOMAIN k = Word /\ Size(k, u) = Size(m, u) + Size(m, v)
      /\ \A d \in Unit : NextOf(k, d) = NextOf(m, d) /\ (d # u => Size(k, d) = Size(m, d))
      /\ \A q \in Unit : q - 1 \in Unit /\ q - 1 # u => Stash(k, q) = Stash(m, q)
  BY HeaderWrites
<1>. HIDE DEF k
<1>3. /\ DOMAIN n = Word
      /\ \A d \in Unit : /\ Size(n, d) = Size(k, d)
                         /\ NextOf(n, d) = IF d = u THEN NextOf(m, v) ELSE NextOf(k, d)
      /\ \A q \in Unit : q - 1 \in Unit /\ q - 1 # u => Stash(n, q) = Stash(k, q)
  BY <1>1, <1>2, HeaderWrites
<1>. QED  BY <1>2, <1>3

LEMMA JoinMends ==
    ASSUME TypeOK, NEW F \in SUBSET Unit, HInv(F), NEW G \in SUBSET (F \cup Taken), NEW m, NEW h, NEW S,
           Mending(G, m, h, S), NEW u \in G, NEW v, v = NextOf(m, u), v # 0, v \notin S, u + Size(m, u) = v,
           NEW n, n = Joined(m, u)
    PROVE  Mending(G \ {v}, n, h, S \ {u})
<1>. DEFINE B == G \cup LiveBlocks
<1>m. /\ m \in [Word -> {JUNK} \cup 0 .. END] /\ DOMAIN m = Word
      /\ G \in SUBSET Unit /\ G \cap LiveBlocks = {} /\ ListOf(G, m, h) /\ Tiles(B, m)
      /\ \A b \in G : Size(m, b) >= MIN_FREE /\ (b \notin S => Gap(m, b))
    BY DEF Mending
<1>b. /\ END \in Nat /\ B \subseteq Unit
      /\ \A c \in B : /\ c \in Nat /\ c > 0
                      /\ Size(m, c) \in Nat /\ Size(m, c) >= 1 /\ c + Size(m, c) <= END
      /\ \A c \in G : c \in Nat /\ c > 0
  BY <1>m, UnitNat, HeapConstants DEF Tiles, END
<1>. HIDE DEF B
<1>v. v \in G /\ v > u /\ IsNext(G, u, v) /\ IsNext(G, v, NextOf(m, v)) /\ u \in B /\ v \in B
  <2>1. IsNext(G, u, v)
    BY <1>m DEF ListOf
  <2>2. v \in G /\ v > u
    BY ONLY <1>b, <2>1, v # 0, NextNat
  <2>. QED  BY <1>m, <2>1, <2>2 DEF ListOf, B
<1>e. /\ DOMAIN n = Word
      /\ Size(n, u) = Size(m, u) + Size(m, v) /\ NextOf(n, u) = NextOf(m, v)
      /\ \A d \in Unit \ {u} : Size(n, d) = Size(m, d) /\ NextOf(n, d) = NextOf(m, d)
      /\ \A q \in Unit : q - 1 \in Unit /\ q - 1 # u => Stash(n, q) = Stash(m, q)
  <2>1. DOMAIN m = Word /\ u \in Unit
    BY <1>m
  <2>. QED  BY ONLY <2>1, v = NextOf(m, u), n = Joined(m, u), JoinWrites
<1>n. u \in Nat /\ v \in Nat /\ u \in Unit /\ v \in Unit /\ Size(m, u) \in Nat /\ Size(m, v) \in Nat /\ v + Size(m, v) <= END
  BY <1>b, <1>v
<1>1. n \in [Word -> {JUNK} \cup 0 .. END]
  <2>1. Size(m, u) + Size(m, v) \in 0 .. END
    BY <1>b, <1>n
  <2>2. NextOf(m, v) \in {JUNK} \cup 0 .. END
    BY <1>m, <1>n, WordsOf DEF NextOf
  <2>. QED  BY Zenon, <1>m, <2>1, <2>2 DEF Joined, SetNext, SetSize
<1>2. ListOf(G \ {v}, n, h)
  <2>1. \A d \in G \ {u, v} : NextOf(n, d) = NextOf(m, d)
    BY <1>m, <1>e
  <2>2. u # 0 /\ NextOf(n, u) = NextOf(m, v)
    BY <1>b, <1>e
  <2>3. ListOf(G \ {v}, n, IF u = 0 THEN NextOf(m, v) ELSE h)
    BY Zenon, <1>m, <1>b, <1>v, <2>1, <2>2, ListRemove
  <2>. QED  BY <2>2, <2>3
<1>3. Tiles((G \ {v}) \cup LiveBlocks, n)
  <2>1. \A d \in B \ {u, v} : Size(n, d) = Size(m, d)
    BY ONLY SMTT(30), <1>b, <1>e
  <2>2. Tiles(B \ {v}, n)
    BY ONLY <1>m, <1>v, <1>e, <2>1, u + Size(m, u) = v, TilesJoin
  <2>3. B \ {v} = (G \ {v}) \cup LiveBlocks
    BY <1>m, <1>v DEF B
  <2>. QED  BY <2>2, <2>3
<1>4. ASSUME NEW b \in G \ {v}  PROVE  Size(n, b) >= MIN_FREE /\ (b \notin S \ {u} => Gap(n, b))
  <2>1. CASE b = u
    <3>1. Gap(m, v) /\ Size(m, u) >= MIN_FREE
      BY <1>m, <1>v
    <3>2. u + Size(n, u) = v + Size(m, v)
      BY <1>e, <1>n
    <3>3. Size(n, u) >= MIN_FREE
      BY <1>e, <1>n, <3>1 DEF MIN_FREE
    <3>. QED  BY <1>e, <2>1, <3>1, <3>2, <3>3 DEF Gap
  <2>2. CASE b # u
    BY <1>m, <1>e, <2>2 DEF Gap
  <2>. QED  BY <2>1, <2>2
<1>6. ASSUME NEW q \in DOMAIN live  PROVE  Stash(n, q) = Stash(mem, q)
  <2>1. q \in Unit /\ q - 1 \in Unit /\ (q - 1 = u => u = Stash(mem, q))
    BY StashApart
  <2>2. u # Stash(mem, q)
    BY <1>m DEF LiveBlocks
  <2>. QED  BY <1>e, <2>1, <2>2 DEF Mending
<1>7. \A d \in LiveBlocks : Size(n, d) = Size(mem, d)
  <2>1. \A d \in LiveBlocks : d \in Unit /\ d # u
    BY ONLY <1>m, <1>b, u \in G DEF B
  <2>. QED  BY <1>e, <2>1 DEF Mending
<1>. QED  BY <1>m, <1>1, <1>2, <1>3, <1>4, <1>6, <1>7 DEF Mending

LEMMA NoJoinMends ==
    ASSUME NEW G, NEW m, NEW h, NEW S, Mending(G, m, h, S), NEW u \in G,
           NextOf(m, u) = 0 \/ u + Size(m, u) # NextOf(m, u)
    PROVE  Mending(G, m, h, S \ {u})
<1>1. /\ G \in SUBSET Unit /\ ListOf(G, m, h) /\ Tiles(G \cup LiveBlocks, m)
  BY DEF Mending
<1>2. /\ \A c \in G : c \in Nat /\ c > 0 /\ Size(m, c) \in Nat
      /\ \A b, c \in G : b < c => b + Size(m, b) <= c
  BY <1>1, UnitNat DEF Tiles
<1>3. IsNext(G, u, NextOf(m, u))
  BY <1>1 DEF ListOf
<1>4. NextOf(m, u) # 0 => NextOf(m, u) \in G /\ NextOf(m, u) > u
  BY <1>2, <1>3, NextNat
<1>5. Gap(m, u)
  BY <1>2, <1>4 DEF Gap
<1>. QED  BY Zenon, <1>5 DEF Mending

\* The block comes into the list between `prev' and `cur'.
LEMMA InsertMends ==
    ASSUME TypeOK, NEW F \in SUBSET Unit, HInv(F), FreeInsert, NEW n, n = Link(SetNext(mem, base, cur), base)
    PROVE  /\ Mending(F \cup {base}, n, head', {prev, base})
           /\ NextOf(n, base) = cur /\ (prev # 0 => prev \in F /\ NextOf(n, prev) = base)
           /\ base \in Taken \ LiveBlocks /\ base # 0 /\ base # prev /\ (cur # 0 => cur \notin {prev, base})
<1>b. /\ END \in Nat
      /\ \A c \in F \cup Taken : /\ c \in Nat /\ c > 0 /\ c \in Unit
                                 /\ Size(mem, c) \in Nat /\ Size(mem, c) >= 1 /\ c + Size(mem, c) <= END
      /\ \A c, d \in F \cup Taken : c < d => c + Size(mem, c) <= d
  BY ZenonT(40), BlockFacts DEF HInv, Tiles
<1>w. /\ pc = "free" /\ (prev = 0 \/ prev \in F) /\ IsNext(F, prev, cur) /\ prev < base
      /\ (cur = 0 \/ cur >= base) /\ Size(mem, base) >= MIN_FREE
  BY DEF HInv, Walk, FreeInsert
<1>t. Taken = LiveBlocks \cup {base} /\ base \notin LiveBlocks /\ base \notin F /\ F \cap LiveBlocks = {}
  <2>1. Moving = {base}
    BY <1>w DEF Moving
  <2>. QED  BY Zenon, <2>1 DEF HInv, Held, Taken
<1>k. cur # 0 => cur \in F /\ cur > prev
  BY <1>b, <1>w, NextNat
<1>n. /\ base \in Nat /\ base > 0 /\ base \in Unit /\ Size(mem, base) \in Nat
      /\ prev \in Nat /\ (prev # 0 => prev \in Unit) /\ cur \in Nat
  BY <1>b, <1>w, <1>t, <1>k
<1>d. base # prev /\ (cur # 0 => cur \notin {prev, base})
  BY <1>n, <1>w, <1>t, <1>k
<1>e. /\ DOMAIN n = Word
      /\ \A d \in Unit : Size(n, d) = Size(mem, d)
      /\ NextOf(n, base) = cur /\ (prev # 0 => NextOf(n, prev) = base)
      /\ \A d \in Unit \ {base, prev} : NextOf(n, d) = NextOf(mem, d)
      /\ \A q \in Unit : q - 1 \in Unit /\ q - 1 # base /\ q - 1 # prev => Stash(n, q) = Stash(mem, q)
  <2>. DEFINE k == SetNext(mem, base, cur)
  <2>1. DOMAIN mem = Word
    BY DEF TypeOK
  <2>2. /\ DOMAIN k = Word
        /\ \A d \in Unit : /\ Size(k, d) = Size(mem, d)
                           /\ NextOf(k, d) = IF d = base THEN cur ELSE NextOf(mem, d)
        /\ \A q \in Unit : q - 1 \in Unit /\ q - 1 # base => Stash(k, q) = Stash(mem, q)
    BY <1>n, <2>1, HeaderWrites
  <2>3. n = IF prev = 0 THEN k ELSE SetNext(k, prev, base)
    BY DEF Link
  <2>. HIDE DEF k
  <2>4. CASE prev = 0
    BY <1>n, <2>2, <2>3, <2>4
  <2>5. CASE prev # 0
    <3>1. /\ DOMAIN n = Word
          /\ \A d \in Unit : /\ Size(n, d) = Size(k, d)
                             /\ NextOf(n, d) = IF d = prev THEN base ELSE NextOf(k, d)
          /\ \A q \in Unit : q - 1 \in Unit /\ q - 1 # prev => Stash(n, q) = Stash(k, q)
      BY <1>n, <2>2, <2>3, <2>5, HeaderWrites
    <3>. QED  BY <1>n, <1>d, <2>2, <2>5, <3>1
  <2>. QED  BY <2>4, <2>5
<1>1. n \in [Word -> {JUNK} \cup 0 .. END]
  <2>1. cur \in 0 .. END /\ base \in 0 .. END
    BY <1>b, <1>n, <1>t, <1>k
  <2>. QED  BY Zenon, <2>1 DEF TypeOK, Link, SetNext
<1>2. ListOf(F \cup {base}, n, head')
  <2>1. ListOf(F, mem, head) /\ \A c \in F \ {prev} : NextOf(n, c) = NextOf(mem, c)
    BY Zenon, <1>b, <1>t, <1>e DEF HInv
  <2>2. (cur = 0 \/ base < cur) /\ \A c \in F : c \in Nat /\ c > 0
    BY <1>b, <1>n, <1>w, <1>d
  <2>3. ListOf(F \cup {base}, n, IF prev = 0 THEN base ELSE head)
    <3>1. base \notin F /\ prev < base /\ NextOf(n, base) = cur /\ (prev # 0 => NextOf(n, prev) = base)
      BY <1>w, <1>t, <1>e
    <3>2. (prev = 0 \/ prev \in F) /\ IsNext(F, prev, cur) /\ base \in Nat
      BY <1>w, <1>n
    <3>. QED  BY ONLY ZenonT(40), <2>1, <2>2, <3>1, <3>2, ListInsert
  <2>. QED  BY <2>3 DEF FreeInsert, Head
<1>3. Tiles((F \cup {base}) \cup LiveBlocks, n)
  <2>1. Tiles(F \cup Taken, mem) /\ (F \cup {base}) \cup LiveBlocks = F \cup Taken
    BY <1>t DEF HInv
  <2>2. \A c \in F \cup Taken : Size(n, c) = Size(mem, c)
    BY <1>b, <1>e
  <2>. QED  BY <2>1, <2>2, TilesSame
<1>4. ASSUME NEW b \in F \cup {base}  PROVE  Size(n, b) >= MIN_FREE /\ (b \notin {prev, base} => Gap(n, b))
  <2>1. Size(n, b) >= MIN_FREE /\ b \in Unit
    BY <1>b, <1>n, <1>w, <1>e DEF HInv, Loose
  <2>2. ASSUME b \notin {prev, base}  PROVE  Gap(n, b)
    <3>1. b \in F /\ NextOf(n, b) = NextOf(mem, b) /\ Size(n, b) = Size(mem, b)
      BY <1>e, <2>1, <2>2
    <3>. QED  BY <3>1 DEF Gap, HInv, Loose
  <2>. QED  BY <2>1, <2>2
<1>6. ASSUME NEW q \in DOMAIN live  PROVE  Stash(n, q) = Stash(mem, q)
  <2>1. q \in Unit /\ q - 1 \in Unit /\ \A c \in F \cup Taken : q - 1 = c => c = Stash(mem, q)
    BY StashApart
  <2>2. Stash(mem, q) \in LiveBlocks /\ q - 1 # 0
    BY <2>1, UnitNat DEF LiveBlocks
  <2>. QED  BY Zenon, <1>w, <1>t, <1>e, <2>1, <2>2
<1>7. \A d \in LiveBlocks : Size(n, d) = Size(mem, d)
  BY <1>b, <1>t, <1>e
<1>10. F \cup {base} \in SUBSET Unit /\ (F \cup {base}) \cap LiveBlocks = {}
  BY <1>n, <1>t
<1>11. Mending(F \cup {base}, n, head', {prev, base})
  BY Zenon, <1>1, <1>2, <1>3, <1>4, <1>6, <1>7, <1>10 DEF Mending
<1>. QED  BY <1>11, <1>w, <1>n, <1>t, <1>d, <1>e

\* The joins leave no two free blocks touching.
LEMMA FreeMends ==
    ASSUME TypeOK, NEW F \in SUBSET Unit, HInv(F), FreeInsert
    PROVE  \E G \in SUBSET (F \cup {base}) : Mending(G, mem', head', {})
<1>1. PICK m2 : m2 = Link(SetNext(mem, base, cur), base)
  OBVIOUS
<1>2. PICK m3 : m3 = JoinNext(m2)
  OBVIOUS
<1>3. PICK m4 : m4 = JoinPrev(m3)
  OBVIOUS
<1>4. mem' = m4
  BY <1>1, <1>2, <1>3 DEF FreeInsert
<1>5. /\ Mending(F \cup {base}, m2, head', {prev, base})
      /\ NextOf(m2, base) = cur /\ (prev # 0 => prev \in F /\ NextOf(m2, prev) = base)
      /\ base \in Taken \ LiveBlocks /\ base # 0 /\ base # prev /\ (cur # 0 => cur \notin {prev, base})
  BY Zenon, <1>1, InsertMends
<1>6. \E G \in SUBSET (F \cup {base}) :
         /\ Mending(G, m3, head', {prev, base} \ {base}) /\ base \in G
         /\ (prev # 0 => prev \in G /\ NextOf(m3, prev) = base)
  <2>. DEFINE A == F \cup {base}
  <2>0. A \in SUBSET (F \cup Taken) /\ base \in A
    BY <1>5
  <2>1. CASE cur # 0 /\ base + Size(m2, base) = cur
    <3>1. m3 = Joined(m2, base)
      BY <1>2, <1>5, <2>1 DEF JoinNext, Joined
    <3>2. Mending(A, m2, head', {prev, base}) /\ cur = NextOf(m2, base) /\ cur \notin {prev, base}
      BY <1>5, <2>1
    <3>3. Mending(A \ {cur}, m3, head', {prev, base} \ {base})
      BY ONLY SMTT(30), TypeOK, F \in SUBSET Unit, HInv(F), <2>0, <2>1, <3>1, <3>2, JoinMends
    <3>4. DOMAIN m2 = Word /\ base \in Unit /\ A \subseteq Unit
      BY <1>5 DEF Mending
    <3>5. \A d \in Unit \ {base} : NextOf(m3, d) = NextOf(m2, d)
      BY <3>1, <3>4, JoinWrites
    <3>. QED  BY <1>5, <2>1, <3>2, <3>3, <3>4, <3>5
  <2>2. CASE ~(cur # 0 /\ base + Size(m2, base) = cur)
    <3>1. m3 = m2
      BY <1>2, <2>2 DEF JoinNext
    <3>2. Mending(A, m3, head', {prev, base} \ {base})
      BY <1>5, <2>0, <2>2, <3>1, NoJoinMends
    <3>. QED  BY <1>5, <2>0, <3>1, <3>2
  <2>. QED  BY Zenon, <2>1, <2>2
<1>7. PICK G \in SUBSET (F \cup {base}) :
         /\ Mending(G, m3, head', {prev}) /\ base \in G
         /\ (prev # 0 => prev \in G /\ NextOf(m3, prev) = base)
  <2>1. {prev, base} \ {base} = {prev}
    BY <1>5
  <2>. QED  BY Zenon, <1>6, <2>1
<1>8. G \in SUBSET (F \cup Taken) /\ {prev} \ {prev} = {}
  BY <1>5
<1>9. CASE prev = 0
  <2>1. m4 = m3 /\ \A b \in G : b # 0
    <3>1. \A b \in G : b # 0
      BY SMTT(30), <1>7, UnitNat DEF Mending
    <3>. QED  BY <1>3, <1>9, <3>1 DEF JoinPrev
  <2>2. Mending(G, m4, head', {})
    BY <1>7, <1>9, <2>1 DEF Mending
  <2>. QED  BY <1>4, <2>2
<1>10. CASE prev # 0 /\ prev + Size(m3, prev) = base
  <2>1. m4 = Joined(m3, prev)
    BY <1>3, <1>7, <1>10 DEF JoinPrev, Joined
  <2>2. base = NextOf(m3, prev) /\ base \notin {prev} /\ base # 0 /\ prev \in G
    BY <1>5, <1>7, <1>10
  <2>3. Mending(G \ {base}, m4, head', {})
    BY <1>7, <1>8, <1>10, <2>1, <2>2, JoinMends
  <2>. QED  BY <1>4, <2>3
<1>11. CASE prev # 0 /\ prev + Size(m3, prev) # base
  <2>1. m4 = m3
    BY <1>3, <1>11 DEF JoinPrev
  <2>2. Mending(G, m4, head', {})
    BY <1>7, <1>8, <1>11, <2>1, NoJoinMends
  <2>. QED  BY <1>4, <2>2
<1>. QED  BY Zenon, <1>9, <1>10, <1>11

LEMMA InsertStep ==
    ASSUME TypeOK, NEW F \in SUBSET Unit, HInv(F), FreeInsert
    PROVE  TypeOK' /\ \E G \in SUBSET Unit : HInv(G)'
<1>2. PICK G \in SUBSET (F \cup {base}) : Mending(G, mem', head', {})
  BY FreeMends
<1>3. PICK n : n = mem'
  OBVIOUS
<1>4. /\ n \in [Word -> {JUNK} \cup 0 .. END]
      /\ G \in SUBSET Unit /\ G \cap LiveBlocks = {} /\ ListOf(G, n, head') /\ Tiles(G \cup LiveBlocks, n)
      /\ \A b \in G : Size(n, b) >= MIN_FREE /\ Gap(n, b)
      /\ \A q \in DOMAIN live : Stash(n, q) = Stash(mem, q)
      /\ \A d \in LiveBlocks : Size(n, d) = Size(mem, d)
  BY <1>2, <1>3 DEF Mending
<1>5. Taken = LiveBlocks \cup {base} /\ base \notin LiveBlocks
  <2>1. Moving = {base}
    BY DEF FreeInsert, Moving
  <2>. QED  BY <2>1 DEF HInv, Held, Taken
<1>6. /\ pc' = "idle" /\ prev' = 0 /\ cur' = 0 /\ base' = 0 /\ live' = live
      /\ allocated' = allocated - Size(mem, base)
  BY SMTT(30) DEF FreeInsert, Leave
<1>7. LiveBlocks' = LiveBlocks /\ Moving' = {} /\ Taken' = LiveBlocks
  BY SMTT(30), <1>3, <1>4, <1>6 DEF LiveBlocks, Moving, Taken
<1>8. Held'
  <2>1. ASSUME NEW q \in DOMAIN live
        PROVE  /\ live[q] \in Nat /\ live[q] >= 1
               /\ Stash(n, q) < q /\ q + live[q] <= Stash(n, q) + Size(n, Stash(n, q))
    <3>1. Stash(mem, q) \in LiveBlocks /\ Stash(n, q) = Stash(mem, q)
      BY <1>4 DEF LiveBlocks
    <3>2. Size(n, Stash(mem, q)) = Size(mem, Stash(mem, q))
      BY <1>4, <3>1
    <3>. QED  BY <3>1, <3>2 DEF HInv, Held
  <2>2. \A q, r \in DOMAIN live : q # r => Stash(n, q) # Stash(n, r)
    BY Zenon, <1>4 DEF HInv, Held
  <2>. QED  BY SMTT(30), <1>3, <1>6, <1>7, <2>1, <2>2 DEF Held
<1>9. Loose(G, n)
  BY <1>4 DEF Loose
<1>10. allocated' = TOTAL - Cardinality(Units(G, n)) /\ allocated' \in 0 .. TOTAL
  <2>1. /\ Parts(F, Taken, mem) /\ Parts(G, LiveBlocks, n)
        /\ \A c \in LiveBlocks : Size(mem, c) = Size(n, c)
    BY <1>4, <1>5 DEF HInv, Parts
  <2>2. /\ Cardinality(Units(G, n)) \in 0 .. TOTAL /\ Cardinality(Units(F, mem)) \in 0 .. TOTAL
        /\ Cardinality(Units(F, mem)) = Cardinality(Units(G, n)) - Size(mem, base)
    BY ONLY SMTT(30), <1>5, <2>1, UnitsMove
  <2>3. allocated = TOTAL - Cardinality(Units(F, mem)) /\ TOTAL \in Nat /\ Size(mem, base) \in Nat
    BY <1>5, BlockFacts, HeapConstants DEF HInv
  <2>. QED  BY <1>6, <2>2, <2>3
<1>11. TypeOK'
  <2>1. head' \in {0} \cup Unit
    BY <1>4 DEF ListOf, IsNext
  <2>. QED  BY <1>3, <1>4, <1>6, <1>10, <2>1 DEF TypeOK
<1>12. HInv(G)'
  <2>1. Walk(G)'
    BY <1>6 DEF Walk
  <2>. QED  BY SMTT(30), <1>3, <1>4, <1>7, <1>8, <1>9, <1>10, <2>1 DEF HInv
<1>. QED  BY <1>4, <1>11, <1>12

----------------------------------------------------------------------------
(* Every step, and what follows *)

LEMMA HStep == Inv /\ [Next]_vars => Inv'
<1>. SUFFICES ASSUME Inv, [Next]_vars PROVE Inv'
  OBVIOUS
<1>1. TypeOK
  BY DEF Inv
<1>2. PICK F \in SUBSET Unit : HInv(F)
  BY DEF Inv
<1>3. CASE (\E n \in Sizes, a \in Aligns : Alloc(n, a)) \/ AllocNext \/ AllocNull \/ FreeNext \/ UNCHANGED vars
  BY <1>1, <1>2, <1>3, QuietStep DEF Inv
<1>4. ASSUME NEW p \in DOMAIN live, Free(p)  PROVE  Inv'
  BY <1>1, <1>2, <1>4, FreeBegins DEF Inv
<1>5. CASE AllocTake
  BY <1>1, <1>2, <1>5, TakeStep DEF Inv
<1>6. CASE FreeInsert
  BY <1>1, <1>2, <1>6, InsertStep DEF Inv
<1>. QED  BY <1>3, <1>4, <1>5, <1>6 DEF Next, Call, Step

LEMMA HAlways == Spec => []Inv
BY HInit, HStep, PTL DEF Spec

\* At every step of every call the blocks tile the heap, free list and counter
\* agree with them, whatever clients wrote into their payloads (heap.rs:8-13).
THEOREM BlocksTile == Spec => []HeapSound
BY HAlways, InvImplies, PTL

\* The free list stays sorted and no two of its blocks touch: heap_free merges
\* with both neighbours, heap_alloc splits in place (heap.rs:138-174).
THEOREM FreedIsMerged == Spec => []Coalesced
BY HAlways, InvImplies, PTL

\* Each payload lies in a block of its own behind the header, and the base
\* stashed before it is that block's, until it is freed (heap.rs:97-136).
THEOREM ClientsApart == Spec => []PayloadsApart
BY HAlways, InvImplies, PTL

\* heap_alloc returns null only when the walk has seen every free block and none
\* had room (heap.rs:92-136).
THEOREM FirstFitMissesNothing == Spec => NullMeansFull
<1>1. Inv /\ [Next]_vars =>
        [pc = "alloc" /\ pc' = "idle" /\ live' = live => \A b \in FreeBlocks : ~Fits(b)]_vars
  <2>. SUFFICES ASSUME Inv, [Next]_vars, pc = "alloc", pc' = "idle", live' = live
                PROVE  \A b \in FreeBlocks : ~Fits(b)
    OBVIOUS
  <2>1. PICK F \in SUBSET Unit : HInv(F)
    BY DEF Inv
  <2>2. FreeBlocks = F
    BY <2>1, ListIsFree DEF HInv
  <2>3. AllocTake \/ AllocNull
    BY DEF Next, Call, Step, Alloc, Free, Enter, AllocNext, FreeNext, FreeInsert, vars
  <2>4. ~AllocTake
    <3>1. AllocTake => Payload(cur) \notin DOMAIN live
      BY <2>1, PayloadIsNew DEF Inv
    <3>2. AllocTake => Payload(cur) \in DOMAIN live'
      BY DEF AllocTake
    <3>. QED  BY <3>1, <3>2
  <2>5. \A c \in F : c <= prev
    BY <2>1, <2>3, <2>4, UnitNat DEF AllocNull, HInv, Walk, IsNext
  <2>. QED  BY <2>1, <2>2, <2>5 DEF HInv, Walk
<1>. QED  BY <1>1, HAlways, PTL DEF Spec, NullMeansFull
=============================================================================
