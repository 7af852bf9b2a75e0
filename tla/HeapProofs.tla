----------------------------- MODULE HeapProofs -----------------------------
(***************************************************************************)
(* The kernel heap and the page allocator, for every size of memory, pages, *)
(* heap and size classes and every memory map.  The argument has two halves *)
(* that meet in what callers hold: the blocks of the list form one chain    *)
(* that tiles the heap, whatever is split and absorbed, and what a slab     *)
(* page's chain does not list is held by somebody.                          *)
(***************************************************************************)
EXTENDS Heap, Iteration

-----------------------------------------------------------------------------
(* Where pages and units lie.                                               *)
LEMMA Constants ==
  /\ PAGE_SIZE \in Nat /\ PAGE_SIZE > 0
  /\ MAX_PAGES \in Nat /\ LOW_PAGES \in Nat /\ LOW_PAGES > 0
  /\ KERNEL_END \in Nat /\ WORD \in Nat /\ BYTE \in Nat /\ BYTE > 0
  /\ HEAP_PAGES \in Nat /\ HEAP_PAGES > 0
BY PagesAssumption, HeapAssumption

LEMMA HeapPlace ==
  /\ RoundUp(KERNEL_END) \in Nat /\ RoundUp(KERNEL_END) > 0
  /\ HeapBase \in Nat /\ HeapBase > 0
  /\ HeapEnd \in Nat
  /\ HEAP_PAGES * PAGE_SIZE \in Nat /\ HEAP_PAGES * PAGE_SIZE > 0
  /\ HeapEnd = HeapBase + HEAP_PAGES * PAGE_SIZE
<1>1. KERNEL_END >= LOW_PAGES * PAGE_SIZE
  BY HeapAssumption
<1>2. LOW_PAGES * PAGE_SIZE >= PAGE_SIZE
  BY Constants
<1>3. KERNEL_END >= PAGE_SIZE
  BY <1>1, <1>2, Constants
<1>4. RoundUp(KERNEL_END) \in Nat /\ RoundUp(KERNEL_END) > 0
  BY <1>3, Constants DEF RoundUp
<1>5. HeapBase \in Nat /\ HeapBase > 0
  BY <1>4, Constants DEF HeapBase
<1>6. HEAP_PAGES * PAGE_SIZE \in Nat /\ HEAP_PAGES * PAGE_SIZE > 0
  BY Constants
<1> QED BY <1>4, <1>5, <1>6 DEF HeapEnd

LEMMA UnitOfPage ==
  /\ \A p \in Nat : \A u \in UnitsOf(p) : u \in Nat /\ PageOf(u) = p
  /\ \A u \in Nat : PageOf(u) \in Nat /\ u \in UnitsOf(PageOf(u))
<1>1. ASSUME NEW p \in Nat, NEW u \in UnitsOf(p) PROVE u \in Nat /\ PageOf(u) = p
  <2>1. p * PAGE_SIZE \in Nat /\ (p + 1) * PAGE_SIZE = p * PAGE_SIZE + PAGE_SIZE
    BY Constants
  <2>2. u \in Int /\ p * PAGE_SIZE <= u /\ u < p * PAGE_SIZE + PAGE_SIZE
    BY <2>1, Constants DEF UnitsOf
  <2> QED BY <2>1, <2>2, Constants DEF PageOf
<1>2. ASSUME NEW u \in Nat PROVE PageOf(u) \in Nat /\ u \in UnitsOf(PageOf(u))
  <2>1. PageOf(u) \in Nat
    BY Constants DEF PageOf
  <2>2. /\ PageOf(u) * PAGE_SIZE <= u
        /\ u < PageOf(u) * PAGE_SIZE + PAGE_SIZE
    BY Constants DEF PageOf
  <2>3. /\ PageOf(u) * PAGE_SIZE \in Nat
        /\ (PageOf(u) + 1) * PAGE_SIZE = PageOf(u) * PAGE_SIZE + PAGE_SIZE
    BY <2>1, Constants
  <2> QED BY <2>1, <2>2, <2>3, Constants DEF UnitsOf
<1> QED BY <1>1, <1>2

(* A unit of the heap lies in a page of the heap.                           *)
LEMMA UnitOfHeap == \A u \in HeapUnits : u \in Nat /\ PageOf(u) \in HeapPages
<1> SUFFICES ASSUME NEW u \in HeapUnits
             PROVE  u \in Nat /\ PageOf(u) \in HeapPages
  OBVIOUS
<1> DEFINE r == RoundUp(KERNEL_END)
           q == PageOf(u)
<1>1. r \in Nat /\ r * PAGE_SIZE \in Nat
  BY HeapPlace, Constants
<1>2. /\ u \in Nat
      /\ r * PAGE_SIZE <= u
      /\ u < r * PAGE_SIZE + HEAP_PAGES * PAGE_SIZE
  BY HeapPlace DEF HeapUnits, HeapBase
<1>3. /\ q \in Nat
      /\ q * PAGE_SIZE <= u /\ u < q * PAGE_SIZE + PAGE_SIZE
  <2>1. q \in Nat /\ u \in UnitsOf(q)
    BY <1>2, UnitOfPage
  <2>2. q * PAGE_SIZE \in Nat /\ (q + 1) * PAGE_SIZE = q * PAGE_SIZE + PAGE_SIZE
    BY <2>1, Constants
  <2> QED BY <2>1, <2>2, Constants DEF UnitsOf
<1> HIDE DEF q, r
<1>4. r <= q
  <2> SUFFICES ASSUME q + 1 <= r PROVE FALSE
    BY <1>1, <1>3
  <2>1. (q + 1) * PAGE_SIZE <= r * PAGE_SIZE
    BY <1>1, <1>3, Constants
  <2> QED BY <1>1, <1>2, <1>3, <2>1, Constants
<1>5. q < r + HEAP_PAGES
  <2> SUFFICES ASSUME r + HEAP_PAGES <= q PROVE FALSE
    BY <1>1, <1>3, Constants
  <2>1. (r + HEAP_PAGES) * PAGE_SIZE <= q * PAGE_SIZE
    BY <1>1, <1>3, Constants
  <2>2. (r + HEAP_PAGES) * PAGE_SIZE = r * PAGE_SIZE + HEAP_PAGES * PAGE_SIZE
    BY <1>1, Constants
  <2> QED BY <1>1, <1>2, <1>3, <2>1, <2>2, Constants
<1> QED BY <1>1, <1>2, <1>3, <1>4, <1>5, Constants DEF HeapPages, q, r

(* The blocks carved from a page: in the page, behind its header, and c     *)
(* apart from one another.                                                  *)
LEMMA CarvedPlace ==
  ASSUME NEW p \in Nat, NEW c \in SlabSizes
  PROVE  /\ \A a \in Carved(p, c) :
              /\ a \in Nat /\ p * PAGE_SIZE + c <= a
              /\ a + c <= p * PAGE_SIZE + PAGE_SIZE
         /\ \A a, b \in Carved(p, c) : a < b => a + c <= b
<1>1. c \in Nat /\ c > 0
  BY HeapAssumption, Constants
<1> DEFINE m == PAGE_SIZE \div c
<1>2. m \in Nat /\ m * c <= PAGE_SIZE
  BY <1>1, Constants
<1> HIDE DEF m
<1>3. \A k \in 1 .. m - 1 : k * c \in Nat /\ c <= k * c /\ k * c + c <= PAGE_SIZE
  <2> SUFFICES ASSUME NEW k \in 1 .. m - 1
               PROVE  k * c \in Nat /\ c <= k * c /\ k * c + c <= PAGE_SIZE
    OBVIOUS
  <2>1. k \in Nat /\ k >= 1 /\ k + 1 <= m
    BY <1>2
  <2>2. k * c \in Nat /\ c <= k * c /\ k * c + c = (k + 1) * c
    BY <1>1, <2>1
  <2>3. (k + 1) * c <= m * c
    BY <1>1, <1>2, <2>1
  <2> QED BY <1>1, <1>2, <2>1, <2>2, <2>3, Constants
<1>4. \A k, l \in 1 .. m - 1 : k * c < l * c => k * c + c <= l * c
  <2> SUFFICES ASSUME NEW k \in 1 .. m - 1, NEW l \in 1 .. m - 1, k * c < l * c
               PROVE  k * c + c <= l * c
    OBVIOUS
  <2>1. k \in Nat /\ l \in Nat
    BY <1>2
  <2>2. k < l
    <3> SUFFICES ASSUME l <= k PROVE FALSE
      BY <2>1
    <3>1. l * c <= k * c
      BY <1>1, <2>1
    <3> QED BY <1>1, <2>1, <3>1
  <2>3. (k + 1) * c <= l * c /\ (k + 1) * c = k * c + c
    BY <1>1, <2>1, <2>2
  <2> QED BY <2>3
<1>5. p * PAGE_SIZE \in Nat
  BY Constants
<1>6. \A a \in Carved(p, c) : \E k \in 1 .. m - 1 : a = p * PAGE_SIZE + k * c
  BY DEF Carved, m
<1>7. ASSUME NEW a \in Carved(p, c)
      PROVE  /\ a \in Nat /\ p * PAGE_SIZE + c <= a
             /\ a + c <= p * PAGE_SIZE + PAGE_SIZE
  <2>1. PICK k \in 1 .. m - 1 : a = p * PAGE_SIZE + k * c
    BY <1>6
  <2>2. k * c \in Nat /\ c <= k * c /\ k * c + c <= PAGE_SIZE
    BY <1>3
  <2> QED BY <1>1, <1>5, <2>1, <2>2, Constants
<1>8. ASSUME NEW a \in Carved(p, c), NEW b \in Carved(p, c), a < b
      PROVE  a + c <= b
  <2>1. PICK k \in 1 .. m - 1 : a = p * PAGE_SIZE + k * c
    BY <1>6
  <2>2. PICK l \in 1 .. m - 1 : b = p * PAGE_SIZE + l * c
    BY <1>6
  <2>3. k * c \in Nat /\ l * c \in Nat
    BY <1>3
  <2>4. k * c + c <= l * c
    BY <1>4, <1>5, <1>8, <2>1, <2>2, <2>3
  <2> QED BY <1>1, <1>5, <2>1, <2>2, <2>3, <2>4
<1> QED BY <1>7, <1>8

LEMMA CarvedInPage ==
  ASSUME NEW p \in Nat, NEW c \in SlabSizes
  PROVE  /\ Carved(p, c) \subseteq UnitsOf(p)
         /\ IsFiniteSet(Carved(p, c))
         /\ p * PAGE_SIZE \notin Carved(p, c)
<1>1. /\ p * PAGE_SIZE \in Nat
      /\ (p + 1) * PAGE_SIZE = p * PAGE_SIZE + PAGE_SIZE
      /\ c \in Nat /\ c > 0
  BY HeapAssumption, Constants
<1>2. Carved(p, c) \subseteq UnitsOf(p) /\ p * PAGE_SIZE \notin Carved(p, c)
  BY <1>1, CarvedPlace, Constants DEF UnitsOf
<1>3. IsFiniteSet(UnitsOf(p))
  BY <1>1, FS_Interval, Constants DEF UnitsOf
<1> QED BY <1>2, <1>3, FS_Subset
-----------------------------------------------------------------------------
(* The list of blocks.                                                      *)
Block == [size : Nat \ {0}, is_free : BOOLEAN, next : Nat, prev : Nat]

EndOf(bs, b) == b + HEADER_SIZE + bs[b].size

(* One chain of blocks from HeapBase to HeapEnd, without a gap.             *)
NextOk(bs, b) ==
  IF bs[b].next = NULL THEN EndOf(bs, b) = HeapEnd
  ELSE /\ bs[b].next \in DOMAIN bs
       /\ bs[b].next = EndOf(bs, b)
       /\ bs[bs[b].next].prev = b
PrevOk(bs, b) ==
  IF bs[b].prev = NULL THEN b = HeapBase
  ELSE bs[b].prev \in DOMAIN bs /\ bs[bs[b].prev].next = b
Ordered(bs) == \A a, b \in DOMAIN bs : a < b => EndOf(bs, a) <= b

Chain(bs) ==
  /\ DOMAIN bs \subseteq HeapUnits
  /\ bs \in [DOMAIN bs -> Block]
  /\ HeapBase \in DOMAIN bs /\ bs[HeapBase].prev = NULL
  /\ \A b \in DOMAIN bs : NextOk(bs, b) /\ PrevOk(bs, b)
  /\ Ordered(bs)

(* No two neighbours are free; but e may follow a free block.               *)
MergedBut(bs, e) ==
  \A b \in DOMAIN bs :
    bs[b].is_free /\ bs[b].next # NULL /\ bs[b].next # e
      => ~bs[bs[b].next].is_free
Merged(bs) == MergedBut(bs, NULL)

LEMMA ChainBlock ==
  ASSUME NEW bs, Chain(bs), NEW b \in DOMAIN bs
  PROVE  /\ b \in HeapUnits /\ b \in Nat /\ b # NULL
         /\ bs[b].size \in Nat /\ bs[b].size > 0 /\ bs[b].is_free \in BOOLEAN
         /\ bs[b].next \in Nat /\ bs[b].prev \in Nat
         /\ EndOf(bs, b) \in Nat /\ b < EndOf(bs, b)
         /\ EndOf(bs, b) <= HeapEnd
         /\ bs[b].next # NULL => bs[b].next \in DOMAIN bs /\ b < bs[b].next
         /\ bs[b].prev # NULL => bs[b].prev \in DOMAIN bs /\ bs[b].prev < b
<1>1. \A a \in DOMAIN bs :
        /\ a \in HeapUnits /\ a \in Nat /\ a # NULL /\ a < HeapEnd
        /\ bs[a].size \in Nat /\ bs[a].size > 0 /\ bs[a].is_free \in BOOLEAN
        /\ bs[a].next \in Nat /\ bs[a].prev \in Nat
  BY HeapPlace DEF Chain, Block, HeapUnits, NULL
<1>2. \A a \in DOMAIN bs : EndOf(bs, a) \in Nat /\ a < EndOf(bs, a)
  BY <1>1 DEF EndOf, HEADER_SIZE
<1>3. NextOk(bs, b) /\ PrevOk(bs, b)
  BY DEF Chain
<1>4. EndOf(bs, b) <= HeapEnd
  BY <1>1, <1>2, <1>3, HeapPlace DEF NextOk
<1>5. bs[b].next # NULL => bs[b].next \in DOMAIN bs /\ b < bs[b].next
  BY <1>2, <1>3 DEF NextOk
<1>6. bs[b].prev # NULL => bs[b].prev \in DOMAIN bs /\ bs[b].prev < b
  <2> SUFFICES ASSUME bs[b].prev # NULL
               PROVE  bs[b].prev \in DOMAIN bs /\ bs[b].prev < b
    OBVIOUS
  <2> DEFINE a == bs[b].prev
  <2>1. a \in DOMAIN bs /\ bs[a].next = b
    BY <1>3 DEF PrevOk
  <2>2. NextOk(bs, a)
    BY <2>1 DEF Chain
  <2>3. b = EndOf(bs, a)
    BY <1>1, <2>1, <2>2 DEF NextOk
  <2> QED BY <1>2, <2>1, <2>3
<1> QED BY <1>1, <1>2, <1>4, <1>5, <1>6

(* Splitting a block ...                                                    *)
LEMMA SplitChain ==
  ASSUME Chain(blocks), Merged(blocks), NEW b \in DOMAIN blocks,
         blocks[b].is_free, NEW n \in Nat \ {0}, Splits(b, n)
  PROVE  LET bs == Split(b, n)
             r == Rest(b, n)
         IN  /\ Chain(bs) /\ Merged(bs)
             /\ r \notin DOMAIN blocks /\ bs[r].is_free
             /\ DOMAIN bs = DOMAIN blocks \cup {r}
             /\ bs[b].size = n /\ ~bs[b].is_free
             /\ \A a \in DOMAIN blocks \ {b} :
                  bs[a].size = blocks[a].size /\ bs[a].is_free = blocks[a].is_free
<1> DEFINE bs == Split(b, n)
           r == Rest(b, n)
           after == blocks[b].next
           D == DOMAIN blocks
<1>1. /\ b \in Nat /\ b # NULL /\ b \in HeapUnits
      /\ blocks[b].size \in Nat
      /\ EndOf(blocks, b) = b + 1 + blocks[b].size
      /\ EndOf(blocks, b) <= HeapEnd
      /\ after # NULL => after \in D /\ b < after
      /\ after \in Nat
      /\ \A a \in D : a # NULL
  BY ChainBlock DEF EndOf, HEADER_SIZE
<1>2. /\ r = b + 1 + n
      /\ RestSize(b, n) \in Nat \ {0}
      /\ r + 1 + RestSize(b, n) = EndOf(blocks, b)
  BY <1>1 DEF Rest, RestSize, Splits, HEADER_SIZE
<1>3. r \in HeapUnits /\ r \in Nat /\ r # NULL /\ b < r /\ r < EndOf(blocks, b)
  BY <1>1, <1>2, HeapPlace DEF HeapUnits, NULL
<1>4. r \notin D
  BY <1>1, <1>3 DEF Chain, Ordered
<1>5. NextOk(blocks, b) /\ PrevOk(blocks, b)
  BY DEF Chain
<1>6. after # r /\ after # b
  BY <1>1, <1>3, <1>4
<1>7. /\ DOMAIN bs = D \cup {r}
      /\ bs[r] = [size |-> RestSize(b, n), is_free |-> TRUE,
                  next |-> after, prev |-> b]
      /\ bs[b] = [size |-> n, is_free |-> FALSE, next |-> r,
                  prev |-> blocks[b].prev]
      /\ after # NULL => bs[after] = [blocks[after] EXCEPT !.prev = r]
      /\ \A a \in D \ {b, after} : bs[a] = blocks[a]
  <2>1. r # b
    BY <1>1, <1>3
  <2>2. after # NULL => after \in D
    BY <1>1
  <2> HIDE DEF r, after
  <2> QED BY <1>4, <1>6, <2>1, <2>2 DEF Split, r, after
<1> HIDE DEF bs, r, after
<1>8. /\ \A a \in D \ {b} : /\ bs[a].size = blocks[a].size
                            /\ bs[a].is_free = blocks[a].is_free
                            /\ bs[a].next = blocks[a].next
      /\ \A a \in D \ {after} : bs[a].prev = blocks[a].prev
      /\ after # NULL => bs[after].prev = r
      /\ bs[b].size = n /\ bs[b].is_free = FALSE /\ bs[b].next = r
      /\ bs[r].size = RestSize(b, n) /\ bs[r].is_free = TRUE
      /\ bs[r].next = after /\ bs[r].prev = b
  <2>1. ASSUME after # NULL
        PROVE  /\ bs[after].prev = r
               /\ bs[after].size = blocks[after].size
               /\ bs[after].is_free = blocks[after].is_free
               /\ bs[after].next = blocks[after].next
    <3>1. after \in D /\ blocks[after] \in Block
      BY <1>1, <2>1 DEF Chain, after
    <3> QED BY <1>7, <2>1, <3>1 DEF Block
  <2> QED BY <1>1, <1>4, <1>7, <2>1
<1>9. bs \in [DOMAIN bs -> Block]
  <2>1. \A a \in D : blocks[a] \in Block
    BY DEF Chain
  <2>2. bs[r] \in Block /\ bs[b] \in Block
    BY <1>1, <1>2, <1>3, <1>7, <2>1 DEF Block, after
  <2>3. after # NULL => bs[after] \in Block
    BY <1>1, <1>3, <1>7, <2>1 DEF Block, after
  <2>4. \A a \in DOMAIN bs : bs[a] \in Block
    BY <1>1, <1>7, <2>1, <2>2, <2>3
  <2>5. bs = [a \in DOMAIN bs |-> bs[a]]
    BY DEF bs, Split
  <2> QED BY <2>4, <2>5
<1>10. DOMAIN bs \subseteq HeapUnits
  BY <1>3, <1>7 DEF Chain
<1>11. HeapBase \in DOMAIN bs /\ bs[HeapBase].prev = NULL
  <2>1. HeapBase # after
    <3>1. HeapBase \in D /\ blocks[HeapBase].prev = NULL
      BY DEF Chain
    <3> QED BY <1>1, <1>5, <3>1 DEF NextOk, after
  <2> QED BY <1>7, <1>8, <2>1 DEF Chain
<1>12. ASSUME NEW a \in DOMAIN bs PROVE NextOk(bs, a)
  <2>1. CASE a = r
    BY <1>1, <1>2, <1>5, <1>7, <1>8, <2>1 DEF NextOk, EndOf, HEADER_SIZE, after
  <2>2. CASE a = b
    BY <1>1, <1>2, <1>3, <1>7, <1>8, <2>2 DEF NextOk, EndOf, HEADER_SIZE
  <2>3. CASE a \notin {b, r}
    <3>1. a \in D /\ NextOk(blocks, a)
      BY <1>7, <2>3 DEF Chain
    <3>2. blocks[a].next # NULL => blocks[a].next # after
      BY <1>1, <1>5, <2>3, <3>1 DEF NextOk, after
    <3>3. EndOf(bs, a) = EndOf(blocks, a)
      BY <1>8, <2>3, <3>1 DEF EndOf
    <3> QED BY <1>7, <1>8, <2>3, <3>1, <3>2, <3>3 DEF NextOk
  <2> QED BY <2>1, <2>2, <2>3
<1>13. ASSUME NEW a \in DOMAIN bs PROVE PrevOk(bs, a)
  <2>1. CASE a = r
    BY <1>1, <1>7, <1>8, <2>1 DEF PrevOk
  <2>2. CASE a = after /\ after # NULL
    BY <1>1, <1>3, <1>7, <1>8, <2>2 DEF PrevOk
  <2>3. CASE a \in D /\ a # after
    <3>1. PrevOk(blocks, a)
      BY <2>3 DEF Chain
    <3>2. blocks[a].prev # b
      BY <2>3, <3>1, <1>1 DEF PrevOk, after
    <3> QED BY <1>7, <1>8, <2>3, <3>1, <3>2 DEF PrevOk
  <2>4. a # NULL
    BY <1>3, <1>7, ChainBlock
  <2> QED BY <1>7, <2>1, <2>2, <2>3, <2>4
<1>14. Ordered(bs)
  <2> SUFFICES ASSUME NEW x \in DOMAIN bs, NEW y \in DOMAIN bs, x < y
               PROVE  EndOf(bs, x) <= y
    BY DEF Ordered
  <2>1. EndOf(bs, r) = EndOf(blocks, b) /\ EndOf(bs, b) = r
    BY <1>1, <1>2, <1>8 DEF EndOf, HEADER_SIZE
  <2>2. \A a \in D \ {b} : EndOf(bs, a) = EndOf(blocks, a)
    BY <1>8 DEF EndOf
  <2>3. \A a \in D : a \in Nat /\ EndOf(blocks, a) \in Nat /\ a < EndOf(blocks, a)
    BY ChainBlock
  <2>4. \A u, v \in D : u < v => EndOf(blocks, u) <= v
    BY DEF Chain, Ordered
  <2>5. CASE x = r
    BY <1>1, <1>3, <1>7, <2>1, <2>3, <2>4, <2>5
  <2>6. CASE x = b
    BY <1>1, <1>3, <1>7, <2>1, <2>3, <2>4, <2>6
  <2>7. CASE x \in D \ {b} /\ y = r
    BY <1>1, <1>3, <2>2, <2>3, <2>4, <2>7
  <2>8. CASE x \in D \ {b} /\ y \in D
    BY <2>2, <2>4, <2>8
  <2> QED BY <1>7, <2>5, <2>6, <2>7, <2>8
<1>15. Merged(bs)
  <2> SUFFICES ASSUME NEW a \in DOMAIN bs, bs[a].is_free, bs[a].next # NULL
               PROVE  ~bs[bs[a].next].is_free
    BY DEF Merged, MergedBut
  <2>1. \A u \in D : blocks[u].is_free /\ blocks[u].next # NULL
                       => ~blocks[blocks[u].next].is_free
    BY ChainBlock DEF Merged, MergedBut
  <2>2. CASE a = r
    BY <1>1, <1>6, <1>8, <2>1, <2>2 DEF after
  <2>3. CASE a \in D
    <3>1. a # b
      BY <1>8, <2>3
    <3>2. blocks[a].next \in D /\ ~blocks[blocks[a].next].is_free
      BY <1>8, <2>1, <2>3, <3>1, ChainBlock
    <3> QED BY <1>8, <2>3, <3>1, <3>2
  <2> QED BY <1>7, <2>2, <2>3
<1>16. Chain(bs)
  BY <1>9, <1>10, <1>11, <1>12, <1>13, <1>14 DEF Chain
<1> QED BY <1>4, <1>7, <1>8, <1>15, <1>16 DEF bs, r
(* ... and absorbing its neighbour.                                         *)
Absorbed(bs, a, t) ==
  LET x == bs[a].next
  IN  /\ Chain(t)
      /\ x \in DOMAIN bs /\ x # a
      /\ DOMAIN t = DOMAIN bs \ {x}
      /\ \A u \in DOMAIN t :
           /\ t[u].is_free = bs[u].is_free
           /\ u # a => t[u].size = bs[u].size /\ t[u].next = bs[u].next
           /\ u # bs[x].next => t[u].prev = bs[u].prev
           /\ t[u].next # x
      /\ t[a].next = bs[x].next
      /\ t[a].prev = bs[a].prev

LEMMA AbsorbChain ==
  ASSUME NEW bs, Chain(bs), NEW a \in DOMAIN bs, bs[a].next # NULL
  PROVE  Absorbed(bs, a, Absorb(bs, a))
<1> DEFINE t == Absorb(bs, a)
           x == bs[a].next
           y == bs[x].next
           D == DOMAIN bs
<1>1. /\ x \in D /\ a \in Nat /\ x \in Nat /\ a < x /\ x # NULL /\ y \in Nat
      /\ bs[a].size \in Nat /\ bs[x].size \in Nat
      /\ bs[a].size > 0 /\ bs[x].size > 0
      /\ bs[a].prev \in Nat
      /\ \A u \in D : u # NULL
      /\ y # NULL => y \in D /\ x < y
      /\ bs[a].prev # NULL => bs[a].prev < a
  BY ChainBlock
<1>2. /\ NextOk(bs, a) /\ NextOk(bs, x) /\ PrevOk(bs, a)
      /\ \A u \in D : bs[u] \in Block
  BY <1>1 DEF Chain
<1>3. x = EndOf(bs, a) /\ bs[x].prev = a /\ y # a /\ y # x
  BY <1>1, <1>2 DEF NextOk
<1>4. /\ DOMAIN t = D \ {x}
      /\ t[a] = [bs[a] EXCEPT !.size = bs[a].size + HEADER_SIZE + bs[x].size,
                              !.next = y]
      /\ y # NULL => t[y] = [bs[y] EXCEPT !.prev = a]
      /\ \A u \in D \ {a, x, y} : t[u] = bs[u]
  <2>1. a # x
    BY <1>1
  <2>2. y # NULL => y \in D
    BY <1>1
  <2> HIDE DEF x
  <2>3. t = [b \in D \ {x} |->
               CASE b = a -> [bs[a] EXCEPT !.size = bs[a].size + HEADER_SIZE + bs[x].size,
                                           !.next = y]
                 [] b = y -> [bs[b] EXCEPT !.prev = a]
                 [] OTHER -> bs[b]]
    BY <1>2 DEF Absorb, x, Block
  <2> HIDE DEF y, t
  <2> QED BY <1>3, <2>1, <2>2, <2>3
<1> HIDE DEF t, x, y
<1>5. /\ t[a].size = bs[a].size + HEADER_SIZE + bs[x].size
      /\ t[a].next = y /\ t[a].prev = bs[a].prev /\ t[a].is_free = bs[a].is_free
  BY <1>2, <1>4 DEF Block
<1>6. y # NULL => /\ t[y].size = bs[y].size /\ t[y].next = bs[y].next
                  /\ t[y].is_free = bs[y].is_free /\ t[y].prev = a
  <2> SUFFICES ASSUME y # NULL
               PROVE  /\ t[y].size = bs[y].size /\ t[y].next = bs[y].next
                      /\ t[y].is_free = bs[y].is_free /\ t[y].prev = a
    OBVIOUS
  <2>1. bs[y] \in Block /\ y # a
    BY <1>1, <1>2
  <2>2. t[y] = [bs[y] EXCEPT !.prev = a]
    BY <1>1, <1>2, <1>4
  <2> QED BY <2>1, <2>2 DEF Block
<1>7. \A u \in D \ {x} :
        /\ t[u].is_free = bs[u].is_free
        /\ u # a => t[u].size = bs[u].size /\ t[u].next = bs[u].next
        /\ u # y => t[u].prev = bs[u].prev
  BY <1>1, <1>3, <1>4, <1>5, <1>6
<1>8. t \in [DOMAIN t -> Block]
  <2>1. t[a] \in Block
    <3>1. bs[a].size + HEADER_SIZE + bs[x].size \in Nat \ {0}
      BY <1>1 DEF HEADER_SIZE
    <3>2. bs[a] \in Block
      BY <1>2
    <3> QED BY <1>1, <1>4, <3>1, <3>2 DEF Block
  <2>2. y # NULL => t[y] \in Block
    BY <1>1, <1>2, <1>4 DEF Block
  <2>3. \A u \in DOMAIN t : t[u] \in Block
    BY <1>1, <1>2, <1>4, <2>1, <2>2
  <2>4. t = [u \in DOMAIN t |-> t[u]]
    BY DEF t, Absorb
  <2> QED BY <2>3, <2>4
<1>9. DOMAIN t \subseteq HeapUnits
  BY <1>4 DEF Chain
<1>10. HeapBase \in DOMAIN t /\ t[HeapBase].prev = NULL
  <2>1. HeapBase \in D /\ bs[HeapBase].prev = NULL
    BY DEF Chain
  <2>2. HeapBase # x
    BY <1>1, <1>3, <2>1
  <2>3. HeapBase # y
    BY <1>1, <1>2, <2>1 DEF NextOk, y
  <2> QED BY <1>4, <1>7, <2>1, <2>2, <2>3
<1>11. EndOf(t, a) = EndOf(bs, x)
  BY <1>1, <1>3, <1>5 DEF EndOf, HEADER_SIZE
<1>12. \A u \in D \ {a, x} : EndOf(t, u) = EndOf(bs, u)
  BY <1>7 DEF EndOf
<1>13. \A u \in D : u # a => bs[u].next # x
  BY <1>1, <1>3 DEF Chain, NextOk
<1>14. ASSUME NEW u \in DOMAIN t PROVE NextOk(t, u)
  <2>1. CASE u = a
    BY <1>1, <1>2, <1>3, <1>4, <1>5, <1>6, <1>11, <2>1 DEF NextOk, y
  <2>2. CASE u # a
    <3>1. u \in D \ {a, x} /\ NextOk(bs, u)
      BY <1>4, <2>2 DEF Chain
    <3>2. bs[u].next # NULL => bs[u].next # y
      BY <1>1, <1>2, <3>1 DEF NextOk, y
    <3> QED BY <1>4, <1>7, <1>12, <1>13, <3>1, <3>2 DEF NextOk
  <2> QED BY <2>1, <2>2
<1>15. ASSUME NEW u \in DOMAIN t PROVE PrevOk(t, u)
  <2>1. CASE u = y
    <3>1. y # NULL /\ a # NULL /\ a # x /\ a \in DOMAIN t
      BY <1>1, <1>4, <2>1
    <3>2. t[u].prev = a /\ t[a].next = u
      BY <1>5, <1>6, <2>1, <3>1
    <3> QED BY <3>1, <3>2 DEF PrevOk
  <2>2. CASE u # y
    <3>1. u \in D \ {x, y} /\ PrevOk(bs, u) /\ t[u].prev = bs[u].prev
      BY <1>4, <1>7, <2>2 DEF Chain
    <3>2. bs[u].prev # NULL => bs[u].prev # x
      BY <3>1 DEF PrevOk, y
    <3>3. bs[u].prev # NULL => bs[u].prev # a
      BY <3>1 DEF PrevOk, x
    <3>4. CASE bs[u].prev = NULL
      BY <3>1, <3>4 DEF PrevOk
    <3>5. CASE bs[u].prev # NULL
      <4>1. bs[u].prev \in D /\ bs[bs[u].prev].next = u
        BY <3>1, <3>5 DEF PrevOk
      <4>2. bs[u].prev \in DOMAIN t /\ t[bs[u].prev].next = u
        BY <1>4, <1>7, <3>2, <3>3, <3>5, <4>1
      <4> QED BY <3>1, <3>5, <4>2 DEF PrevOk
    <3> QED BY <3>4, <3>5
  <2> QED BY <2>1, <2>2
<1>16. Ordered(t)
  <2> SUFFICES ASSUME NEW u \in DOMAIN t, NEW v \in DOMAIN t, u < v
               PROVE  EndOf(t, u) <= v
    BY DEF Ordered
  <2>1. \A p, q \in D : p < q => EndOf(bs, p) <= q
    BY DEF Chain, Ordered
  <2>2. v \in Nat /\ v \in D /\ v # x /\ u \in D
    BY <1>4, ChainBlock
  <2>3. CASE u = a
    <3>1. x <= v
      BY <1>3, <2>1, <2>2, <2>3
    <3> QED BY <1>1, <1>11, <2>1, <2>2, <2>3, <3>1
  <2>4. CASE u # a
    BY <1>4, <1>12, <2>1, <2>2, <2>4
  <2> QED BY <2>3, <2>4
<1>17. Chain(t)
  BY <1>8, <1>9, <1>10, <1>14, <1>15, <1>16 DEF Chain
<1>18. \A u \in DOMAIN t : t[u].next # x
  BY <1>3, <1>4, <1>5, <1>7, <1>13
<1> QED BY <1>1, <1>4, <1>5, <1>7, <1>17, <1>18 DEF Absorbed, t, x, y

(* kfree of a block of the list: it and its free neighbours become one, and *)
(* the search goes on at a block that is left.                              *)
LEMMA FreeChain ==
  ASSUME Chain(blocks), Merged(blocks), next_fit_hint \in DOMAIN blocks,
         NEW b \in DOMAIN blocks, ~blocks[b].is_free, ListFree(b)
  PROVE  /\ Chain(blocks') /\ Merged(blocks')
         /\ next_fit_hint' \in DOMAIN blocks'
         /\ DOMAIN blocks' \subseteq DOMAIN blocks
         /\ \A u \in DOMAIN blocks : u # b /\ ~blocks[u].is_free =>
              /\ u \in DOMAIN blocks' /\ ~blocks'[u].is_free
              /\ blocks'[u].size = blocks[u].size
         /\ \A u \in DOMAIN blocks' : ~blocks'[u].is_free =>
              u # b /\ ~blocks[u].is_free
<1> DEFINE freed == [blocks EXCEPT ![b].is_free = TRUE]
           merged == IF FreeAfter(freed, b) THEN Absorb(freed, b) ELSE freed
           D == DOMAIN blocks
           x == blocks[b].next
           p == blocks[b].prev
<1>1. /\ blocks' = IF FreeBefore(merged, b)
                     THEN Absorb(merged, merged[b].prev) ELSE merged
      /\ next_fit_hint' = HintAfter(b)
  BY DEF ListFree
<1>2. /\ x # NULL => x \in D /\ x # b
      /\ p # NULL => p \in D /\ p # b /\ blocks[p].next = b
      /\ p # NULL => p # x
      /\ b # NULL
  <2>1. PrevOk(blocks, b)
    BY DEF Chain
  <2> QED BY <2>1, ChainBlock DEF PrevOk
<1>3. \A u \in D : blocks[u] \in Block
  BY DEF Chain
<1>4. /\ DOMAIN freed = D
      /\ \A u \in D : /\ freed[u] \in Block
                      /\ freed[u].size = blocks[u].size
                      /\ freed[u].next = blocks[u].next
                      /\ freed[u].prev = blocks[u].prev
                      /\ freed[u].is_free = IF u = b THEN TRUE ELSE blocks[u].is_free
  BY <1>3 DEF Block
<1>5. freed \in [D -> Block]
  BY <1>3, <1>4 DEF Chain
<1> HIDE DEF freed
<1>6. Chain(freed)
  <2>1. \A u \in D : EndOf(freed, u) = EndOf(blocks, u)
    BY <1>4 DEF EndOf
  <2>2. ASSUME NEW u \in D PROVE NextOk(freed, u) /\ PrevOk(freed, u)
    <3>1. NextOk(blocks, u) /\ PrevOk(blocks, u)
      BY DEF Chain
    <3>2. NextOk(freed, u)
      BY <1>4, <2>1, <3>1 DEF NextOk
    <3>3. PrevOk(freed, u)
      BY <1>4, <3>1 DEF PrevOk
    <3> QED BY <3>2, <3>3
  <2>3. Ordered(freed)
    BY <1>4, <2>1 DEF Chain, Ordered
  <2> QED BY <1>4, <1>5, <2>2, <2>3 DEF Chain
<1>7. \A u \in D : u # b /\ freed[u].is_free /\ freed[u].next \notin {NULL, b}
                     => ~freed[freed[u].next].is_free
  <2> SUFFICES ASSUME NEW u \in D, u # b, freed[u].is_free,
                      freed[u].next \notin {NULL, b}
               PROVE  ~freed[freed[u].next].is_free
    OBVIOUS
  <2>1. blocks[u].next \in D /\ blocks[u].next # NULL /\ blocks[u].is_free
    BY <1>4, ChainBlock
  <2>2. ~blocks[blocks[u].next].is_free
    BY <2>1 DEF Merged, MergedBut
  <2> QED BY <1>4, <2>1, <2>2
<1>8. FreeAfter(freed, b) <=> x # NULL /\ blocks[x].is_free
  BY <1>2, <1>4 DEF FreeAfter
<1>9. /\ Chain(merged) /\ MergedBut(merged, b)
      /\ b \in DOMAIN merged /\ merged[b].is_free /\ merged[b].prev = p
      /\ DOMAIN merged = IF FreeAfter(freed, b) THEN D \ {x} ELSE D
      /\ \A u \in DOMAIN merged : /\ merged[u].is_free = freed[u].is_free
                                  /\ u # b => merged[u].size = blocks[u].size
      /\ p # NULL => p \in DOMAIN merged /\ merged[p].next = b
  <2>1. CASE ~FreeAfter(freed, b)
    <3>1. merged = freed
      BY <2>1
    <3>2. MergedBut(freed, b)
      <4> SUFFICES ASSUME NEW u \in D, freed[u].is_free,
                          freed[u].next # NULL, freed[u].next # b
                   PROVE  ~freed[freed[u].next].is_free
        BY <1>4 DEF MergedBut
      <4>1. CASE u = b
        <5>1. freed[u].next = x /\ x # NULL /\ x \in D /\ x # b
          BY <1>2, <1>4, <4>1
        <5>2. ~blocks[x].is_free
          BY <1>8, <2>1, <5>1
        <5>3. freed[x].is_free = blocks[x].is_free
          BY <1>4, <5>1
        <5> QED BY <5>1, <5>2, <5>3
      <4>2. CASE u # b
        BY <1>7, <4>2
      <4> QED BY <4>1, <4>2
    <3> HIDE DEF merged
    <3> QED BY <1>2, <1>4, <1>6, <2>1, <3>1, <3>2
  <2>2. CASE FreeAfter(freed, b)
    <3> DEFINE t == Absorb(freed, b)
    <3>1. merged = t
      BY <2>2
    <3>2. b \in DOMAIN freed /\ freed[b].next = x /\ x # NULL
      BY <1>2, <1>4, <1>8, <2>2
    <3>3. /\ Chain(t)
          /\ x \in DOMAIN freed /\ x # b
          /\ DOMAIN t = DOMAIN freed \ {x}
          /\ \A u \in DOMAIN t :
               /\ t[u].is_free = freed[u].is_free
               /\ u # b => t[u].size = freed[u].size /\ t[u].next = freed[u].next
               /\ u # freed[x].next => t[u].prev = freed[u].prev
               /\ t[u].next # x
          /\ t[b].next = freed[x].next
          /\ t[b].prev = freed[b].prev
      <4>1. Absorbed(freed, b, t)
        BY <1>6, <3>2, AbsorbChain
      <4> HIDE DEF x, t
      <4> QED BY <3>2, <4>1 DEF Absorbed
    <3> HIDE DEF t, merged
    <3>4. freed[x].is_free /\ freed[x].next # b
      <4>1. x < freed[x].next \/ freed[x].next = NULL
        BY <1>4, <1>6, <3>3, ChainBlock
      <4>2. b < x
        BY <1>4, <1>6, <3>2, ChainBlock
      <4>3. b \in Nat /\ x \in Nat /\ freed[x].next \in Nat
        BY <1>4, <1>6, <3>3, ChainBlock
      <4>4. freed[x].is_free
        BY <1>2, <1>4, <1>8, <2>2
      <4>5. b # NULL
        BY <1>2
      <4>6. freed[x].next # b
        <5> HIDE DEF x
        <5> QED BY <4>1, <4>2, <4>3, <4>5
      <4> QED BY <4>4, <4>6
    <3>5. MergedBut(t, b)
      <4> SUFFICES ASSUME NEW u \in DOMAIN t, t[u].is_free, t[u].next # NULL,
                          t[u].next # b
                   PROVE  ~t[t[u].next].is_free
        BY DEF MergedBut
      <4>1. t[u].next \in DOMAIN t
        BY <3>3, ChainBlock
      <4>2. CASE u = b
        BY <1>4, <1>7, <3>3, <3>4, <4>1, <4>2
      <4>3. CASE u # b
        BY <1>4, <1>7, <3>3, <4>1, <4>3
      <4> QED BY <4>2, <4>3
    <3>6. p # NULL => p \in DOMAIN t /\ t[p].next = b
      BY <1>2, <1>4, <3>3
    <3>7. b \in DOMAIN t /\ t[b].is_free /\ t[b].prev = p
      <4>1. freed[b].is_free /\ freed[b].prev = p
        BY <1>4
      <4>2. b \in DOMAIN t
        BY <1>4, <3>3
      <4> HIDE DEF p, x
      <4> QED BY <3>3, <4>1, <4>2
    <3>8. DOMAIN t = D \ {x}
      BY <1>4, <3>3
    <3>9. \A u \in DOMAIN t : /\ t[u].is_free = freed[u].is_free
                              /\ u # b => t[u].size = blocks[u].size
      BY <1>4, <3>3, <3>8
    <3> HIDE DEF D, x, p
    <3> QED BY <2>2, <3>1, <3>3, <3>5, <3>6, <3>7, <3>8, <3>9
  <2> QED BY <2>1, <2>2
<1> HIDE DEF merged
<1>10. FreeBefore(merged, b) <=> p # NULL /\ blocks[p].is_free
  <2>1. merged[b].prev = p
    BY <1>9
  <2>2. CASE p = NULL
    BY <2>1, <2>2 DEF FreeBefore
  <2>3. CASE p # NULL
    <3>1. p \in D /\ p # b /\ p \in DOMAIN merged
      BY <1>2, <1>9, <2>3
    <3>2. merged[p].is_free = freed[p].is_free /\ freed[p].is_free = blocks[p].is_free
      BY <1>4, <1>9, <3>1
    <3> HIDE DEF p
    <3> QED BY <2>1, <2>3, <3>2 DEF FreeBefore
  <2> QED BY <2>2, <2>3
<1>11. /\ FreeAfter(blocks, b) <=> FreeAfter(freed, b)
       /\ FreeBefore(blocks, b) <=> FreeBefore(merged, b)
  BY <1>8, <1>10 DEF FreeAfter, FreeBefore
<1>12. CASE ~FreeBefore(merged, b)
  <2>1. blocks' = merged
    BY <1>1, <1>12
  <2>2. Merged(merged)
    <3> SUFFICES ASSUME NEW u \in DOMAIN merged, merged[u].is_free,
                        merged[u].next # NULL
                 PROVE  ~merged[merged[u].next].is_free
      BY DEF Merged, MergedBut
    <3>1. CASE merged[u].next = b
      <4>1. NextOk(merged, u)
        BY <1>9 DEF Chain
      <4>2. merged[b].prev = u /\ u # NULL
        BY <1>9, <3>1, <4>1, ChainBlock DEF NextOk
      <4> QED BY <1>9, <1>12, <4>2 DEF FreeBefore
    <3>2. CASE merged[u].next # b
      BY <1>9, <3>2 DEF MergedBut
    <3> QED BY <3>1, <3>2
  <2>3. next_fit_hint' \in DOMAIN merged
    BY <1>1, <1>2, <1>9, <1>11, <1>12 DEF HintAfter
  <2>4. \A u \in D : u # b /\ ~blocks[u].is_free => u \in DOMAIN merged
    BY <1>8, <1>9
  <2>5. DOMAIN merged \subseteq D
    BY <1>9
  <2>6. \A u \in DOMAIN merged : ~merged[u].is_free => u # b /\ ~blocks[u].is_free
    BY <1>4, <1>9, <2>5
  <2>7. \A u \in D : u # b /\ ~blocks[u].is_free =>
          ~merged[u].is_free /\ merged[u].size = blocks[u].size
    <3> SUFFICES ASSUME NEW u \in D, u # b, ~blocks[u].is_free
                 PROVE  ~merged[u].is_free /\ merged[u].size = blocks[u].size
      OBVIOUS
    <3>1. u \in DOMAIN merged /\ ~freed[u].is_free
      BY <1>4, <2>4
    <3> QED BY <1>9, <3>1
  <2> QED BY <1>9, <2>1, <2>2, <2>3, <2>4, <2>5, <2>6, <2>7
<1>13. CASE FreeBefore(merged, b)
  <2> DEFINE t == Absorb(merged, p)
  <2>1. blocks' = t
    BY <1>1, <1>9, <1>13
  <2>2. p \in DOMAIN merged /\ merged[p].next = b /\ p # NULL /\ blocks[p].is_free
    BY <1>9, <1>10, <1>13
  <2>3. /\ Chain(t)
        /\ b # p
        /\ DOMAIN t = DOMAIN merged \ {b}
        /\ \A u \in DOMAIN t :
             /\ t[u].is_free = merged[u].is_free
             /\ u # p => t[u].size = merged[u].size /\ t[u].next = merged[u].next
             /\ t[u].next # b
        /\ t[p].next = merged[b].next
    <3>1. p \in DOMAIN merged /\ merged[p].next = b /\ b # NULL
      BY <1>2, <2>2
    <3>2. Absorbed(merged, p, t)
      BY <1>9, <3>1, AbsorbChain
    <3> HIDE DEF p, t
    <3> QED BY <3>1, <3>2 DEF Absorbed
  <2> HIDE DEF t
  <2>4. Merged(t)
    <3> SUFFICES ASSUME NEW u \in DOMAIN t, t[u].is_free, t[u].next # NULL
                 PROVE  ~t[t[u].next].is_free
      BY DEF Merged, MergedBut
    <3>1. t[u].next \in DOMAIN t /\ t[u].next # b
      BY <2>3, ChainBlock
    <3>2. CASE u = p
      BY <1>9, <2>3, <3>1, <3>2 DEF MergedBut
    <3>3. CASE u # p
      BY <1>9, <2>3, <3>1, <3>3 DEF MergedBut
    <3> QED BY <3>2, <3>3
  <2>5. p \in DOMAIN t
    BY <2>2, <2>3
  <2>6. next_fit_hint' \in DOMAIN t
    BY <1>1, <1>2, <1>9, <1>11, <1>13, <2>3, <2>5 DEF HintAfter
  <2>7. DOMAIN t \subseteq D
    BY <1>9, <2>3
  <2>8. \A u \in D : u # b /\ ~blocks[u].is_free => u \in DOMAIN t
    BY <1>8, <1>9, <2>3
  <2>9. \A u \in DOMAIN t : t[u].is_free = blocks[u].is_free /\ u # b
    <3> SUFFICES ASSUME NEW u \in DOMAIN t
                 PROVE  t[u].is_free = blocks[u].is_free /\ u # b
      OBVIOUS
    <3>1. u \in DOMAIN merged /\ u # b /\ t[u].is_free = merged[u].is_free
      BY <2>3
    <3>2. u \in D /\ merged[u].is_free = freed[u].is_free
      BY <1>9, <3>1
    <3> QED BY <1>4, <3>1, <3>2
  <2>10. \A u \in D : u # b /\ ~blocks[u].is_free =>
           ~t[u].is_free /\ t[u].size = blocks[u].size
    BY <1>9, <2>2, <2>3, <2>8, <2>9
  <2> QED BY <2>1, <2>3, <2>4, <2>6, <2>7, <2>8, <2>9, <2>10
<1> QED BY <1>12, <1>13
-----------------------------------------------------------------------------
(* The inductive invariant, in four parts.  The page allocator: what the    *)
(* kernel, the list heap and the slabs own is marked.                       *)
PagesInv ==
  /\ PagesTypeOK
  /\ Kernel \cup HeapPages \subseteq bitmap
  /\ DOMAIN slab_page \subseteq bitmap

(* The list.                                                                *)
ListInv == Chain(blocks) /\ Merged(blocks) /\ next_fit_hint \in DOMAIN blocks

(* The slab pages: each is in the list of its class, and its chain holds    *)
(* blocks carved from it, as many as free_count says.                       *)
Header == [size_class : SlabSizes, free_list : SUBSET Nat, free_count : Nat]

Blocks(page) == Carved(page, slab_page[page].size_class)

SlabInv ==
  /\ slab_page \in [DOMAIN slab_page -> Header]
  /\ DOMAIN slab_page \subseteq Page \ (Kernel \cup HeapPages)
  /\ \A p \in DOMAIN slab_page :
       /\ slab_page[p].free_list \subseteq Blocks(p)
       /\ slab_page[p].free_count = Cardinality(slab_page[p].free_list)
       /\ \E i \in DOMAIN slab_pages[slab_page[p].size_class] :
            slab_pages[slab_page[p].size_class][i] = p
  /\ slab_pages \in [SlabSizes -> Seq(DOMAIN slab_page)]
  /\ \A c \in SlabSizes : \A i \in DOMAIN slab_pages[c] :
       slab_page[slab_pages[c][i]].size_class = c
  /\ slab_page_addrs \subseteq DOMAIN slab_page

(* What callers hold is a block in use, of the list or of a slab page, and  *)
(* the other way round.                                                     *)
HeldInList(ptr) ==
  /\ ptr - HEADER_SIZE \in DOMAIN blocks
  /\ ~blocks[ptr - HEADER_SIZE].is_free
  /\ held[ptr] <= blocks[ptr - HEADER_SIZE].size
HeldInSlab(ptr) ==
  /\ PageOf(ptr) \in DOMAIN slab_page
  /\ ptr \in Blocks(PageOf(ptr)) \ slab_page[PageOf(ptr)].free_list
  /\ PageOf(ptr) \in slab_page_addrs
       => held[ptr] <= slab_page[PageOf(ptr)].size_class

HeldInv ==
  /\ DOMAIN held \subseteq Nat /\ held \in [DOMAIN held -> Sizes]
  /\ \A ptr \in DOMAIN held : HeldInList(ptr) \/ HeldInSlab(ptr)
  /\ \A b \in DOMAIN blocks : ~blocks[b].is_free => b + HEADER_SIZE \in DOMAIN held
  /\ \A page \in slab_page_addrs :
       Blocks(page) \ slab_page[page].free_list \subseteq DOMAIN held
  /\ failed \in Sizes \cup {0}

HeapInv == PagesInv /\ ListInv /\ SlabInv /\ HeldInv

(* kfree recognises every slab page: there are MAX_SLAB_PAGES at most.      *)
AllRecorded == DOMAIN slab_page \subseteq slab_page_addrs
-----------------------------------------------------------------------------
LEMMA MinIsElement ==
  ASSUME NEW S \in SUBSET Nat, S # {}
  PROVE  Min(S) \in S
<1>1. PICK x \in S : \A y \in S : x <= y
  BY LeastElement
<1> QED BY <1>1 DEF Min

(* The class of a request is a class, and large enough.                     *)
LEMMA ClassFits ==
  ASSUME NEW n \in Nat, n <= SLAB_MAX_SIZE
  PROVE  ClassFor(n) \in SlabSizes /\ n <= ClassFor(n)
<1>1. SlabSizes \subseteq Nat /\ SlabSizes \subseteq 1 .. PAGE_SIZE - 1 /\ SlabSizes # {}
  BY HeapAssumption, Constants
<1> DEFINE Gaps == {g \in Nat : PAGE_SIZE - g \in SlabSizes}
<1>2. Gaps \in SUBSET Nat /\ Gaps # {}
  <2>1. PICK c \in SlabSizes : TRUE
    BY <1>1
  <2>2. c \in Nat /\ c < PAGE_SIZE
    BY <1>1, <2>1, Constants
  <2>3. PAGE_SIZE - c \in Nat /\ PAGE_SIZE - (PAGE_SIZE - c) = c
    BY <2>2, Constants
  <2> QED BY <2>1, <2>3
<1>3. PICK g \in Gaps : \A h \in Gaps : g <= h
  BY <1>2, LeastElement
<1>4. PAGE_SIZE - g \in SlabSizes
  BY <1>3
<1>5. \A c \in SlabSizes : PAGE_SIZE - g >= c
  <2> SUFFICES ASSUME NEW c \in SlabSizes PROVE PAGE_SIZE - g >= c
    OBVIOUS
  <2>1. c \in Nat /\ c < PAGE_SIZE
    BY <1>1, Constants
  <2>2. PAGE_SIZE - c \in Gaps
    BY <2>1, Constants
  <2>3. g <= PAGE_SIZE - c
    BY <1>3, <2>2
  <2> QED BY <1>3, <2>1, <2>3, Constants
<1>6. SLAB_MAX_SIZE \in SlabSizes
  BY <1>4, <1>5 DEF SLAB_MAX_SIZE, Max
<1>7. ClassFor(n) \in {c \in SlabSizes : n <= c}
  BY <1>1, <1>6, MinIsElement DEF ClassFor
<1> QED BY <1>7

LEMMA SizeIsNat == Sizes \subseteq Nat \ {0}
BY HeapAssumption

(* A block of the list lies in the heap, one of a slab page does not.       *)
LEMMA HeldPlace ==
  ASSUME HeapInv, NEW ptr \in DOMAIN held
  PROVE  /\ ptr \in Nat /\ held[ptr] \in Nat /\ held[ptr] > 0
         /\ ptr \in UnitsOf(PageOf(ptr))
         /\ HeldInList(ptr) =>
              /\ InHeap(ptr) /\ ~IsSlabPtr(ptr)
              /\ PageOf(ptr) \notin DOMAIN slab_page
         /\ HeldInSlab(ptr) => ~InHeap(ptr) /\ ~HeldInList(ptr)
<1>1. ptr \in Nat /\ held[ptr] \in Nat /\ held[ptr] > 0
  BY SizeIsNat DEF HeapInv, HeldInv
<1>2. ptr \in UnitsOf(PageOf(ptr))
  BY <1>1, UnitOfPage
<1>3. InHeap(ptr) => PageOf(ptr) \in HeapPages
  <2> SUFFICES ASSUME InHeap(ptr) PROVE PageOf(ptr) \in HeapPages
    OBVIOUS
  <2>1. ptr \in HeapUnits
    BY <1>1, HeapPlace DEF InHeap, HeapUnits, HEADER_SIZE
  <2> QED BY <2>1, UnitOfHeap
<1>4. PageOf(ptr) \in HeapPages => PageOf(ptr) \notin DOMAIN slab_page
  BY DEF HeapInv, SlabInv
<1>5. HeldInList(ptr) => InHeap(ptr)
  <2> SUFFICES ASSUME HeldInList(ptr) PROVE InHeap(ptr)
    OBVIOUS
  <2> DEFINE b == ptr - HEADER_SIZE
  <2>1. b \in DOMAIN blocks /\ Chain(blocks)
    BY DEF HeldInList, HeapInv, ListInv
  <2>2. /\ b \in HeapUnits /\ blocks[b].size \in Nat /\ blocks[b].size > 0
        /\ EndOf(blocks, b) <= HeapEnd
    BY <2>1, ChainBlock
  <2> QED BY <1>1, <2>2, HeapPlace DEF InHeap, HeapUnits, EndOf, HEADER_SIZE
<1>6. slab_page_addrs \subseteq DOMAIN slab_page
  BY DEF HeapInv, SlabInv
<1>7. HeldInSlab(ptr) => PageOf(ptr) \in DOMAIN slab_page
  BY DEF HeldInSlab
<1> QED BY <1>1, <1>2, <1>3, <1>4, <1>5, <1>6, <1>7 DEF IsSlabPtr

(* A slab page whose chain has changed.                                     *)
LEMMA HeaderChanged ==
  ASSUME SlabInv, NEW page \in DOMAIN slab_page,
         NEW F \in SUBSET Blocks(page),
         slab_page' = [slab_page EXCEPT ![page].free_list = F,
                                        ![page].free_count = Cardinality(F)],
         UNCHANGED << slab_pages, slab_page_addrs >>
  PROVE  /\ SlabInv'
         /\ DOMAIN slab_page' = DOMAIN slab_page
         /\ \A p \in DOMAIN slab_page :
              /\ slab_page'[p].size_class = slab_page[p].size_class
              /\ slab_page'[p].free_list = IF p = page THEN F
                                           ELSE slab_page[p].free_list
         /\ \A p \in DOMAIN slab_page : Blocks(p)' = Blocks(p)
<1>1. /\ \A p \in DOMAIN slab_page : p \in Nat /\ slab_page[p] \in Header
      /\ slab_page \in [DOMAIN slab_page -> Header]
  BY Constants DEF SlabInv, Page
<1>2. /\ DOMAIN slab_page' = DOMAIN slab_page
      /\ \A p \in DOMAIN slab_page :
           /\ slab_page'[p].size_class = slab_page[p].size_class
           /\ slab_page'[p].free_list = IF p = page THEN F
                                        ELSE slab_page[p].free_list
           /\ slab_page'[p].free_count = IF p = page THEN Cardinality(F)
                                         ELSE slab_page[p].free_count
  BY <1>1 DEF Header
<1>3. \A p \in DOMAIN slab_page : Blocks(p)' = Blocks(p)
  BY <1>2 DEF Blocks
<1>4. \A p \in DOMAIN slab_page :
        IsFiniteSet(Blocks(p)) /\ Blocks(p) \subseteq Nat
  <2> SUFFICES ASSUME NEW p \in DOMAIN slab_page
               PROVE  IsFiniteSet(Blocks(p)) /\ Blocks(p) \subseteq Nat
    OBVIOUS
  <2>1. p \in Nat /\ slab_page[p].size_class \in SlabSizes
    BY <1>1 DEF Header
  <2> QED BY <2>1, CarvedInPage, CarvedPlace DEF Blocks
<1>5. IsFiniteSet(F) /\ Cardinality(F) \in Nat
  BY <1>4, FS_Subset, FS_CardinalityType
<1>6. slab_page' \in [DOMAIN slab_page -> Header]
  BY <1>1, <1>4, <1>5 DEF Header
<1>7. \A p \in DOMAIN slab_page :
        /\ slab_page'[p].free_list \subseteq Blocks(p)
        /\ slab_page'[p].free_count = Cardinality(slab_page'[p].free_list)
  BY <1>2 DEF SlabInv
<1>8. /\ slab_page' \in [DOMAIN slab_page' -> Header]
      /\ DOMAIN slab_page' \subseteq Page \ (Kernel \cup HeapPages)
      /\ slab_pages' \in [SlabSizes -> Seq(DOMAIN slab_page')]
      /\ slab_page_addrs' \subseteq DOMAIN slab_page'
  BY <1>2, <1>6 DEF SlabInv
<1>9. \A p \in DOMAIN slab_page' :
        /\ slab_page'[p].free_list \subseteq Blocks(p)'
        /\ slab_page'[p].free_count = Cardinality(slab_page'[p].free_list)
        /\ \E i \in DOMAIN slab_pages'[slab_page'[p].size_class] :
             slab_pages'[slab_page'[p].size_class][i] = p
  <2>1. \A p \in DOMAIN slab_page :
          \E i \in DOMAIN slab_pages[slab_page[p].size_class] :
            slab_pages[slab_page[p].size_class][i] = p
    BY DEF SlabInv
  <2>2. \A p \in DOMAIN slab_page :
          \E i \in DOMAIN slab_pages'[slab_page'[p].size_class] :
            slab_pages'[slab_page'[p].size_class][i] = p
    BY <1>2, <2>1
  <2>3. \A p \in DOMAIN slab_page : slab_page'[p].free_list \subseteq Blocks(p)'
    BY <1>3, <1>7
  <2> QED BY <1>2, <1>7, <2>2, <2>3
<1>10. \A c \in SlabSizes : \A i \in DOMAIN slab_pages'[c] :
         slab_page'[slab_pages'[c][i]].size_class = c
  <2>1. ASSUME NEW c \in SlabSizes, NEW i \in DOMAIN slab_pages[c]
        PROVE  slab_pages[c][i] \in DOMAIN slab_page
    BY <2>1 DEF SlabInv
  <2> QED BY <1>2, <2>1 DEF SlabInv
<1>11. SlabInv'
  BY <1>8, <1>9, <1>10 DEF SlabInv
<1> QED BY <1>2, <1>3, <1>11
(* A request that is served: what was held still is, and the new block is   *)
(* what its caller takes it for.                                            *)
LEMMA ReturnedKeeps ==
  ASSUME HeapInv, NEW n \in Sizes, NEW ptr \in Nat, Returned(ptr, n),
         \A p \in DOMAIN held :
           /\ p # ptr
           /\ HeldInList(p) => /\ p - HEADER_SIZE \in DOMAIN blocks'
                               /\ ~blocks'[p - HEADER_SIZE].is_free
                               /\ blocks'[p - HEADER_SIZE].size
                                    = blocks[p - HEADER_SIZE].size
           /\ HeldInSlab(p) =>
                /\ PageOf(p) \in DOMAIN slab_page'
                /\ Blocks(PageOf(p))' = Blocks(PageOf(p))
                /\ p \notin slab_page'[PageOf(p)].free_list
                /\ slab_page'[PageOf(p)].size_class
                     = slab_page[PageOf(p)].size_class
                /\ PageOf(p) \in slab_page_addrs' => PageOf(p) \in slab_page_addrs,
         \/ /\ ptr - HEADER_SIZE \in DOMAIN blocks'
            /\ ~blocks'[ptr - HEADER_SIZE].is_free
            /\ n <= blocks'[ptr - HEADER_SIZE].size
         \/ /\ PageOf(ptr) \in DOMAIN slab_page'
            /\ ptr \in Blocks(PageOf(ptr))' \ slab_page'[PageOf(ptr)].free_list
            /\ n <= slab_page'[PageOf(ptr)].size_class,
         \A b \in DOMAIN blocks' :
           ~blocks'[b].is_free => b + HEADER_SIZE \in DOMAIN held \cup {ptr},
         \A page \in slab_page_addrs' :
           Blocks(page)' \ slab_page'[page].free_list \subseteq DOMAIN held \cup {ptr}
  PROVE  HeldInv' /\ DOMAIN held' = DOMAIN held \cup {ptr}
<1>1. /\ DOMAIN held' = DOMAIN held \cup {ptr}
      /\ \A p \in DOMAIN held' : held'[p] = IF p = ptr THEN n ELSE held[p]
      /\ failed' = 0
  BY DEF Returned
<1>2. DOMAIN held' \subseteq Nat /\ held' \in [DOMAIN held' -> Sizes]
  <2>1. held' = [p \in DOMAIN held \cup {ptr} |-> IF p = ptr THEN n ELSE held[p]]
    BY DEF Returned
  <2>2. DOMAIN held \subseteq Nat /\ \A p \in DOMAIN held : held[p] \in Sizes
    BY DEF HeapInv, HeldInv
  <2> QED BY <2>1, <2>2
<1>3. HeldInList(ptr)' \/ HeldInSlab(ptr)'
  BY <1>1 DEF HeldInList, HeldInSlab
<1>4. ASSUME NEW p \in DOMAIN held PROVE HeldInList(p)' \/ HeldInSlab(p)'
  <2>1. p # ptr /\ held'[p] = held[p]
    BY <1>1
  <2>2. CASE HeldInList(p)
    <3>1. HeldInList(p)'
      BY <2>1, <2>2 DEF HeldInList
    <3> QED BY <3>1
  <2>3. CASE HeldInSlab(p)
    <3>1. HeldInSlab(p)'
      BY <2>1, <2>3 DEF HeldInSlab
    <3> QED BY <3>1
  <2> QED BY <2>2, <2>3 DEF HeapInv, HeldInv
<1>5. \A p \in DOMAIN held' : HeldInList(p)' \/ HeldInSlab(p)'
  BY <1>1, <1>3, <1>4
<1>6. HeldInv'
  BY <1>1, <1>2, <1>5 DEF HeldInv
<1> QED BY <1>1, <1>6

LEMMA SlabAllocKeeps ==
  ASSUME HeapInv, NEW n \in Sizes, SlabAlloc(n)
  PROVE  HeapInv' /\ DOMAIN held \subseteq DOMAIN held' /\ failed' = 0
<1> DEFINE c == ClassFor(n)
           i == Min(WithRoom(c))
           page == slab_pages[c][i]
<1>1. /\ c \in SlabSizes /\ n <= c
      /\ WithRoom(c) # {}
      /\ UNCHANGED << pages, list, slab_pages, slab_page_addrs >>
  BY ClassFits, SizeIsNat DEF SlabAlloc
<1>2. PICK ptr \in slab_page[page].free_list :
        /\ slab_page' = [slab_page EXCEPT ![page] = Popped(@, ptr)]
        /\ Returned(ptr, n)
  BY DEF SlabAlloc
<1> HIDE DEF c
<1>3. i \in DOMAIN slab_pages[c] /\ HasRoom(page)
  <2>1. slab_pages[c] \in Seq(DOMAIN slab_page)
    BY <1>1 DEF HeapInv, SlabInv
  <2>2. WithRoom(c) \in SUBSET Nat
    BY <2>1 DEF WithRoom
  <2>3. i \in WithRoom(c)
    BY <1>1, <2>2, MinIsElement
  <2> HIDE DEF i
  <2> QED BY <2>3 DEF WithRoom
<1> HIDE DEF i
<1>4. page \in DOMAIN slab_page /\ slab_page[page].size_class = c
  BY <1>1, <1>3 DEF HeapInv, SlabInv
<1> HIDE DEF page
<1> DEFINE F == slab_page[page].free_list \ {ptr}
<1>5. /\ slab_page[page] \in Header /\ page \in Nat
      /\ ptr \in Blocks(page) /\ F \subseteq Blocks(page)
      /\ slab_page[page].free_count = Cardinality(slab_page[page].free_list)
  BY <1>2, <1>4, Constants DEF HeapInv, SlabInv, Page
<1>6. Cardinality(F) = slab_page[page].free_count - 1
  <2>1. IsFiniteSet(Blocks(page))
    BY <1>1, <1>4, <1>5, CarvedInPage DEF Blocks
  <2>2. IsFiniteSet(slab_page[page].free_list)
    BY <1>4, <2>1, FS_Subset DEF HeapInv, SlabInv
  <2> QED BY <1>2, <1>5, <2>2, FS_RemoveElement
<1>7. slab_page' = [slab_page EXCEPT ![page].free_list = F,
                                     ![page].free_count = Cardinality(F)]
  <2>1. slab_page[page] = [size_class |-> slab_page[page].size_class,
                           free_list |-> slab_page[page].free_list,
                           free_count |-> slab_page[page].free_count]
    BY <1>5 DEF Header
  <2>2. Popped(slab_page[page], ptr) =
          [slab_page[page] EXCEPT !.free_list = F, !.free_count = Cardinality(F)]
    BY <1>6, <2>1 DEF Popped
  <2> QED BY <1>2, <2>2
<1>8. /\ SlabInv'
      /\ DOMAIN slab_page' = DOMAIN slab_page
      /\ \A p \in DOMAIN slab_page :
           /\ slab_page'[p].size_class = slab_page[p].size_class
           /\ slab_page'[p].free_list = IF p = page THEN F
                                        ELSE slab_page[p].free_list
      /\ \A p \in DOMAIN slab_page : Blocks(p)' = Blocks(p)
  <2> HIDE DEF F
  <2> QED BY <1>1, <1>4, <1>5, <1>7, HeaderChanged DEF HeapInv
<1>9. PageOf(ptr) = page /\ ptr \in Nat /\ ptr \in UnitsOf(page)
  <2>1. ptr \in UnitsOf(page)
    BY <1>1, <1>4, <1>5, CarvedInPage DEF Blocks
  <2> QED BY <1>5, <2>1, UnitOfPage
<1>10. UNCHANGED << blocks, next_fit_hint, slab_pages, slab_page_addrs,
                    bitmap, used_pages, last_alloc_hint >>
  BY <1>1 DEF list, pages
<1>11. ASSUME NEW p \in DOMAIN held
       PROVE  /\ p # ptr
              /\ HeldInSlab(p) => p \notin slab_page'[PageOf(p)].free_list
  <2>1. HeldInSlab(p) => p \notin slab_page[PageOf(p)].free_list
    BY DEF HeldInSlab
  <2>2. HeldInSlab(p) => p # ptr
    BY <1>2, <1>9, <2>1
  <2>3. HeldInList(p) => PageOf(p) \notin DOMAIN slab_page
    BY HeldPlace
  <2>4. p # ptr
    BY <1>4, <1>9, <2>2, <2>3 DEF HeapInv, HeldInv
  <2> QED BY <1>8, <2>1, <2>4 DEF HeldInSlab
<1>12. HeldInv' /\ DOMAIN held' = DOMAIN held \cup {ptr}
  <2>1. \A p \in DOMAIN held :
           /\ p # ptr
           /\ HeldInList(p) => /\ p - HEADER_SIZE \in DOMAIN blocks'
                               /\ ~blocks'[p - HEADER_SIZE].is_free
                               /\ blocks'[p - HEADER_SIZE].size
                                    = blocks[p - HEADER_SIZE].size
           /\ HeldInSlab(p) =>
                /\ PageOf(p) \in DOMAIN slab_page'
                /\ Blocks(PageOf(p))' = Blocks(PageOf(p))
                /\ p \notin slab_page'[PageOf(p)].free_list
                /\ slab_page'[PageOf(p)].size_class
                     = slab_page[PageOf(p)].size_class
                /\ PageOf(p) \in slab_page_addrs' => PageOf(p) \in slab_page_addrs
    BY <1>8, <1>10, <1>11 DEF HeldInList, HeldInSlab
  <2>2. /\ PageOf(ptr) \in DOMAIN slab_page'
        /\ ptr \in Blocks(PageOf(ptr))' \ slab_page'[PageOf(ptr)].free_list
        /\ n <= slab_page'[PageOf(ptr)].size_class
    BY <1>1, <1>4, <1>5, <1>8, <1>9
  <2>3. \A b \in DOMAIN blocks' :
          ~blocks'[b].is_free => b + HEADER_SIZE \in DOMAIN held \cup {ptr}
    BY <1>10 DEF HeapInv, HeldInv
  <2>4. ASSUME NEW q \in slab_page_addrs'
        PROVE  Blocks(q)' \ slab_page'[q].free_list \subseteq DOMAIN held \cup {ptr}
    <3>1. q \in slab_page_addrs /\ q \in DOMAIN slab_page
      BY <1>10 DEF HeapInv, SlabInv
    <3>2. Blocks(q) \ slab_page[q].free_list \subseteq DOMAIN held
      BY <3>1 DEF HeapInv, HeldInv
    <3> QED BY <1>8, <3>1, <3>2
  <2> HIDE DEF F
  <2> QED BY <1>2, <1>9, <2>1, <2>2, <2>3, <2>4, ReturnedKeeps
<1>13. PagesInv' /\ ListInv'
  BY <1>8, <1>10 DEF HeapInv, PagesInv, PagesTypeOK, ListInv
<1> QED BY <1>2, <1>8, <1>12, <1>13 DEF HeapInv, Returned
LEMMA SlabNewPageKeeps ==
  ASSUME HeapInv, NEW n \in Sizes, SlabNewPage(n)
  PROVE  /\ HeapInv' /\ DOMAIN held \subseteq DOMAIN held' /\ failed' = 0
         /\ \E page \in Page \ bitmap :
              bitmap' = bitmap \cup {page} /\ used_pages' = used_pages + 1
<1> DEFINE c == ClassFor(n)
           D == DOMAIN slab_page
<1>1. c \in SlabSizes /\ n <= c /\ UNCHANGED list
  BY ClassFits, SizeIsNat DEF SlabNewPage
<1>2. PICK page \in Page :
        /\ AllocPage(page)
        /\ \E ptr \in Carved(page, c) :
             /\ slab_page' =
                  [p \in D \cup {page} |->
                     IF p # page THEN slab_page[p]
                     ELSE Popped([size_class |-> c,
                                  free_list |-> Carved(page, c),
                                  free_count |-> Cardinality(Carved(page, c))],
                                 ptr)]
             /\ Returned(ptr, n)
        /\ slab_pages' = [slab_pages EXCEPT ![c] = << page >> \o @]
        /\ slab_page_addrs' = Recorded(page)
  BY DEF SlabNewPage
<1>3. PICK ptr \in Carved(page, c) :
        /\ slab_page' =
             [p \in D \cup {page} |->
                IF p # page THEN slab_page[p]
                ELSE Popped([size_class |-> c,
                             free_list |-> Carved(page, c),
                             free_count |-> Cardinality(Carved(page, c))],
                            ptr)]
        /\ Returned(ptr, n)
  BY <1>2
<1> HIDE DEF c
<1>4. /\ page \notin bitmap /\ page \notin D
      /\ page \notin Kernel \cup HeapPages
      /\ page \in Nat /\ page + 1 \in 0 .. MAX_PAGES
      /\ bitmap' = bitmap \cup {page} /\ used_pages' = used_pages + 1
      /\ last_alloc_hint' = page + 1
  <2>1. page \notin bitmap
    BY <1>2 DEF AllocPage, Found, FirstPass, FreePages
  <2> QED BY <1>2, <2>1, Constants DEF AllocPage, Counted, Page, HeapInv, PagesInv
<1> DEFINE F == Carved(page, c) \ {ptr}
           carved == [size_class |-> c, free_list |-> Carved(page, c),
                      free_count |-> Cardinality(Carved(page, c))]
           new == Popped(carved, ptr)
<1>5. /\ IsFiniteSet(Carved(page, c)) /\ Carved(page, c) \subseteq Nat
      /\ Cardinality(F) = Cardinality(Carved(page, c)) - 1
      /\ Cardinality(F) \in Nat
      /\ ptr \in Nat /\ PageOf(ptr) = page
  <2>1. /\ IsFiniteSet(Carved(page, c)) /\ Carved(page, c) \subseteq Nat
        /\ ptr \in UnitsOf(page)
    BY <1>1, <1>4, CarvedInPage, CarvedPlace
  <2>2. IsFiniteSet(F) /\ Cardinality(F) = Cardinality(Carved(page, c)) - 1
    BY <2>1, FS_RemoveElement
  <2> QED BY <1>4, <2>1, <2>2, FS_CardinalityType, UnitOfPage
<1>6. slab_page' = [p \in D \cup {page} |-> IF p # page THEN slab_page[p] ELSE new]
  BY <1>3
<1>7. slab_page \in [D -> Header]
  BY DEF HeapInv, SlabInv
<1>8. /\ DOMAIN slab_page' = D \cup {page}
      /\ \A p \in D : slab_page'[p] = slab_page[p]
      /\ slab_page'[page].size_class = c
      /\ slab_page'[page].free_list = F
      /\ slab_page'[page].free_count = Cardinality(F)
      /\ slab_page' \in [D \cup {page} -> Header]
  <2>1. /\ new \in Header /\ new.size_class = c
        /\ new.free_list = F /\ new.free_count = Cardinality(F)
    <3>1. Cardinality(Carved(page, c)) \in Nat
      BY <1>5, FS_CardinalityType
    <3>2. /\ carved \in Header /\ carved.size_class = c
          /\ carved.free_list = Carved(page, c)
          /\ carved.free_count = Cardinality(Carved(page, c))
      BY <1>1, <1>5, <3>1 DEF Header
    <3> HIDE DEF carved
    <3> QED BY <1>5, <3>2 DEF Popped, Header
  <2> HIDE DEF new
  <2>2. /\ DOMAIN slab_page' = D \cup {page}
        /\ \A p \in D : slab_page'[p] = slab_page[p]
        /\ slab_page'[page] = new
    BY <1>4, <1>6
  <2>3. slab_page' \in [D \cup {page} -> Header]
    BY <1>6, <1>7, <2>1
  <2> QED BY <2>1, <2>2, <2>3
<1>9. Blocks(page)' = Carved(page, c) /\ \A p \in D : Blocks(p)' = Blocks(p)
  BY <1>8 DEF Blocks
<1> HIDE DEF F, new, carved
<1>10. /\ \A d \in SlabSizes : slab_pages[d] \in Seq(D)
       /\ slab_pages \in [SlabSizes -> Seq(D)]
       /\ \A d \in SlabSizes : slab_pages'[d] = IF d = c THEN << page >> \o slab_pages[d]
                                                ELSE slab_pages[d]
       /\ DOMAIN slab_pages' = SlabSizes
  BY <1>1, <1>2 DEF HeapInv, SlabInv
<1>11. ASSUME NEW d \in SlabSizes
       PROVE  /\ slab_pages'[d] \in Seq(D \cup {page})
              /\ \A i \in DOMAIN slab_pages'[d] :
                   slab_page'[slab_pages'[d][i]].size_class = d
              /\ \A i \in DOMAIN slab_pages[d] :
                   \E j \in DOMAIN slab_pages'[d] : slab_pages'[d][j] = slab_pages[d][i]
              /\ d = c => 1 \in DOMAIN slab_pages'[d] /\ slab_pages'[d][1] = page
  <2>1. \A i \in DOMAIN slab_pages[d] :
          slab_pages[d][i] \in D /\ slab_page'[slab_pages[d][i]].size_class = d
    BY <1>8, <1>10 DEF HeapInv, SlabInv
  <2>2. CASE d # c
    <3>1. slab_pages'[d] = slab_pages[d] /\ slab_pages[d] \in Seq(D)
      BY <1>10, <2>2
    <3> QED BY <2>1, <2>2, <3>1
  <2>3. CASE d = c
    <3> DEFINE s == slab_pages[d]
               t == slab_pages'[d]
    <3>1. s \in Seq(D) /\ t = << page >> \o s
      BY <1>10, <2>3
    <3> HIDE DEF s, t
    <3>2. /\ Len(s) \in Nat /\ DOMAIN s = 1 .. Len(s) /\ DOMAIN t = 1 .. Len(s) + 1
          /\ t[1] = page
          /\ \A i \in 1 .. Len(s) : t[i + 1] = s[i]
      BY <3>1
    <3>3. t \in Seq(D \cup {page})
      <4>1. s \in Seq(D \cup {page}) /\ << page >> \in Seq(D \cup {page})
        BY <3>1
      <4> QED BY <3>1, <4>1
    <3>4. ASSUME NEW i \in DOMAIN t PROVE slab_page'[t[i]].size_class = d
      <4>1. CASE i = 1
        BY <1>8, <2>3, <3>2, <4>1
      <4>2. CASE i # 1
        <5>1. i - 1 \in 1 .. Len(s) /\ t[i] = s[i - 1]
          BY <3>2, <4>2
        <5> QED BY <2>1, <3>2, <5>1 DEF s
      <4> QED BY <4>1, <4>2
    <3>5. ASSUME NEW i \in DOMAIN s PROVE \E j \in DOMAIN t : t[j] = s[i]
      <4>1. i + 1 \in DOMAIN t /\ t[i + 1] = s[i]
        BY <3>2
      <4> QED BY <4>1
    <3>6. 1 \in DOMAIN t /\ t[1] = page
      BY <3>2
    <3> QED BY <3>3, <3>4, <3>5, <3>6 DEF s, t
  <2> QED BY <2>2, <2>3
<1>12. /\ slab_page_addrs' \subseteq slab_page_addrs \cup {page}
       /\ slab_page_addrs' \subseteq D \cup {page}
  <2>1. slab_page_addrs \subseteq D
    BY DEF HeapInv, SlabInv
  <2> QED BY <1>2, <2>1 DEF Recorded
<1>13. SlabInv'
  <2>1. DOMAIN slab_page' \subseteq Page \ (Kernel \cup HeapPages)
    BY <1>4, <1>8 DEF HeapInv, SlabInv
  <2>2. ASSUME NEW p \in D
        PROVE  /\ slab_page'[p].free_list \subseteq Blocks(p)'
               /\ slab_page'[p].free_count = Cardinality(slab_page'[p].free_list)
               /\ \E i \in DOMAIN slab_pages'[slab_page'[p].size_class] :
                    slab_pages'[slab_page'[p].size_class][i] = p
    <3>1. /\ slab_page[p].free_list \subseteq Blocks(p)
          /\ slab_page[p].free_count = Cardinality(slab_page[p].free_list)
          /\ \E i \in DOMAIN slab_pages[slab_page[p].size_class] :
               slab_pages[slab_page[p].size_class][i] = p
          /\ slab_page[p].size_class \in SlabSizes
      BY <1>7 DEF HeapInv, SlabInv, Header
    <3> DEFINE d == slab_page[p].size_class
    <3>2. PICK i \in DOMAIN slab_pages[d] : slab_pages[d][i] = p
      BY <3>1
    <3>3. d \in SlabSizes /\ slab_page'[p].size_class = d
      BY <1>8, <3>1
    <3>4. \E j \in DOMAIN slab_pages'[d] : slab_pages'[d][j] = p
      <4> HIDE DEF d
      <4> QED BY <1>11, <3>2, <3>3
    <3>5. /\ slab_page'[p].free_list \subseteq Blocks(p)'
          /\ slab_page'[p].free_count = Cardinality(slab_page'[p].free_list)
      BY <1>8, <1>9, <3>1
    <3> QED BY <3>3, <3>4, <3>5
  <2>3. /\ slab_page'[page].free_list \subseteq Blocks(page)'
        /\ slab_page'[page].free_count = Cardinality(slab_page'[page].free_list)
        /\ \E i \in DOMAIN slab_pages'[slab_page'[page].size_class] :
             slab_pages'[slab_page'[page].size_class][i] = page
    BY <1>1, <1>8, <1>9, <1>11 DEF F
  <2>4. slab_page' \in [DOMAIN slab_page' -> Header]
    BY <1>8
  <2>5. slab_pages' \in [SlabSizes -> Seq(DOMAIN slab_page')]
    <3>1. slab_pages' = [d \in SlabSizes |-> slab_pages'[d]]
      BY <1>2, <1>10
    <3> QED BY <1>8, <1>11, <3>1
  <2> QED BY <1>8, <1>11, <1>12, <2>1, <2>2, <2>3, <2>4, <2>5 DEF SlabInv
<1>14. UNCHANGED << blocks, next_fit_hint >>
  BY <1>1 DEF list
<1>15. HeldInv' /\ DOMAIN held' = DOMAIN held \cup {ptr}
  <2>1. ASSUME NEW p \in DOMAIN held
        PROVE
           /\ p # ptr
           /\ HeldInList(p) => /\ p - HEADER_SIZE \in DOMAIN blocks'
                               /\ ~blocks'[p - HEADER_SIZE].is_free
                               /\ blocks'[p - HEADER_SIZE].size
                                    = blocks[p - HEADER_SIZE].size
           /\ HeldInSlab(p) =>
                /\ PageOf(p) \in DOMAIN slab_page'
                /\ Blocks(PageOf(p))' = Blocks(PageOf(p))
                /\ p \notin slab_page'[PageOf(p)].free_list
                /\ slab_page'[PageOf(p)].size_class
                     = slab_page[PageOf(p)].size_class
                /\ PageOf(p) \in slab_page_addrs' => PageOf(p) \in slab_page_addrs
    <3>1. HeldInSlab(p) => PageOf(p) \in D /\ p \notin slab_page[PageOf(p)].free_list
      BY DEF HeldInSlab
    <3>2. HeldInList(p) => PageOf(p) \in HeapPages
      <4>1. HeldInList(p) => InHeap(p) /\ p \in Nat
        BY HeldPlace
      <4>2. InHeap(p) /\ p \in Nat => p \in HeapUnits
        BY HeapPlace DEF InHeap, HeapUnits, HEADER_SIZE
      <4> QED BY <4>1, <4>2, UnitOfHeap
    <3>3. p # ptr
      BY <1>4, <1>5, <3>1, <3>2 DEF HeapInv, HeldInv
    <3> QED BY <1>4, <1>8, <1>9, <1>12, <1>14, <3>1, <3>3 DEF HeldInList
  <2>2. /\ PageOf(ptr) \in DOMAIN slab_page'
        /\ ptr \in Blocks(PageOf(ptr))' \ slab_page'[PageOf(ptr)].free_list
        /\ n <= slab_page'[PageOf(ptr)].size_class
    BY <1>1, <1>5, <1>8, <1>9 DEF F
  <2>3. \A b \in DOMAIN blocks' :
          ~blocks'[b].is_free => b + HEADER_SIZE \in DOMAIN held \cup {ptr}
    BY <1>14 DEF HeapInv, HeldInv
  <2>4. ASSUME NEW q \in slab_page_addrs'
        PROVE  Blocks(q)' \ slab_page'[q].free_list \subseteq DOMAIN held \cup {ptr}
    <3>1. CASE q = page
      BY <1>8, <1>9, <3>1 DEF F
    <3>2. CASE q # page
      <4>1. q \in slab_page_addrs /\ q \in D
        BY <1>12, <3>2
      <4>2. Blocks(q) \ slab_page[q].free_list \subseteq DOMAIN held
        BY <4>1 DEF HeapInv, HeldInv
      <4> QED BY <1>8, <1>9, <4>1, <4>2
    <3> QED BY <3>1, <3>2
  <2> QED BY <1>3, <1>5, <2>1, <2>2, <2>3, <2>4, ReturnedKeeps
<1>16. ListInv'
  BY <1>14 DEF HeapInv, ListInv
<1>17. PagesInv'
  BY <1>2, <1>4, <1>8 DEF HeapInv, PagesInv, PagesTypeOK
<1> QED BY <1>2, <1>3, <1>4, <1>13, <1>15, <1>16, <1>17 DEF HeapInv, Returned
-----------------------------------------------------------------------------
(* The search of the list: a sequence of blocks, each the follower of the   *)
(* one before ...                                                           *)
LEMMA VisitBlocks ==
  ASSUME ListInv
  PROVE  /\ \A i \in Nat : Visit[i] \in DOMAIN blocks
         /\ \A i \in Nat : Visit[i + 1] = Following(Visit[i])
<1> DEFINE D == DOMAIN blocks
           step == [b \in D |-> Following(b)]
<1>1. step \in [D -> D]
  <2>1. Chain(blocks) /\ HeapBase \in D
    BY DEF ListInv, Chain
  <2>2. \A b \in D : blocks[b].next # NULL => blocks[b].next \in D
    BY <2>1, ChainBlock
  <2> QED BY <2>1, <2>2 DEF Following
<1>2. PICK f \in [Nat -> D] :
        f[0] = next_fit_hint /\ \A i \in Nat : f[i + 1] = step[f[i]]
  <2>1. next_fit_hint \in D
    BY DEF ListInv
  <2> HIDE DEF step, D
  <2> QED BY <1>1, <2>1, IterationExists
<1>3. f = [i \in Nat |-> IF i = 0 THEN next_fit_hint ELSE Following(f[i - 1])]
  <2>1. ASSUME NEW i \in Nat
        PROVE  f[i] = IF i = 0 THEN next_fit_hint ELSE Following(f[i - 1])
    <3>1. CASE i = 0
      BY <1>2, <3>1
    <3>2. CASE i # 0
      <4>1. i - 1 \in Nat /\ (i - 1) + 1 = i
        BY <3>2
      <4>2. f[i - 1] \in D /\ f[i] = step[f[i - 1]]
        BY <1>2, <4>1
      <4> QED BY <3>2, <4>2
    <3> QED BY <3>1, <3>2
  <2> QED BY <1>2, <2>1
<1>4. Visit = [i \in Nat |-> IF i = 0 THEN next_fit_hint
                             ELSE Following(Visit[i - 1])]
  <2> DEFINE Eq(v) == v = [i \in Nat |-> IF i = 0 THEN next_fit_hint
                                         ELSE Following(v[i - 1])]
  <2>1. Visit = CHOOSE v : Eq(v)
    BY DEF Visit
  <2>2. \E v : Eq(v)
    BY <1>3
  <2>3. Eq(Visit)
    <3> HIDE DEF Eq
    <3> QED BY <2>1, <2>2
  <2> QED BY <2>3
<1>5. Visit[0] = next_fit_hint
  BY <1>4
<1>6. ASSUME NEW i \in Nat PROVE Visit[i + 1] = Following(Visit[i])
  <2>1. i + 1 \in Nat /\ i + 1 # 0 /\ (i + 1) - 1 = i
    OBVIOUS
  <2> QED BY <1>4, <2>1
<1>7. \A i \in Nat : Visit[i] \in D
  <2> DEFINE S == {i \in Nat : Visit[i] \in D}
  <2>1. 0 \in S
    BY <1>5 DEF ListInv
  <2>2. ASSUME NEW i \in Nat, i \in S PROVE i + 1 \in S
    <3>1. Visit[i] \in D
      BY <2>2
    <3>2. step[Visit[i]] \in D
      BY <1>1, <3>1
    <3> QED BY <1>6, <3>1, <3>2
  <2>3. \A i \in Nat : i \in S
    <3> HIDE DEF S
    <3> QED BY <2>1, <2>2, Induction
  <2> QED BY <2>3
<1> QED BY <1>6, <1>7

(* ... which goes round: what contains the follower of each of its blocks   *)
(* is the whole list, ...                                                   *)
LEMMA ClosedIsAll ==
  ASSUME Chain(blocks), NEW T \in SUBSET DOMAIN blocks, T # {},
         \A b \in T : Following(b) \in T
  PROVE  T = DOMAIN blocks
<1> DEFINE D == DOMAIN blocks
<1>1. \A b \in D : b \in Nat /\ b < HeapEnd
  BY ChainBlock, HeapPlace DEF Chain, HeapUnits
<1>2. HeapBase \in T
  <2> DEFINE Gaps == {g \in Nat : HeapEnd - g \in T}
  <2>1. Gaps \in SUBSET Nat /\ Gaps # {}
    <3>1. PICK b \in T : TRUE
      OBVIOUS
    <3>2. HeapEnd - b \in Nat /\ HeapEnd - (HeapEnd - b) = b
      BY <1>1, HeapPlace
    <3> QED BY <3>2
  <2>2. PICK g \in Gaps : \A h \in Gaps : g <= h
    BY <2>1, LeastElement
  <2> DEFINE m == HeapEnd - g
  <2>3. m \in T
    BY <2>2
  <2>4. \A b \in T : b <= m
    <3> SUFFICES ASSUME NEW b \in T PROVE b <= m
      OBVIOUS
    <3>1. HeapEnd - b \in Nat /\ HeapEnd - (HeapEnd - b) = b
      BY <1>1, HeapPlace
    <3>2. g <= HeapEnd - b
      BY <2>2, <3>1
    <3> QED BY <1>1, <2>2, <3>2, HeapPlace
  <2> HIDE DEF m
  <2>5. blocks[m].next = NULL
    <3> SUFFICES ASSUME blocks[m].next # NULL PROVE FALSE
      OBVIOUS
    <3>1. blocks[m].next \in T
      BY <2>3 DEF Following
    <3>2. m < blocks[m].next
      BY <2>3, ChainBlock
    <3>3. blocks[m].next <= m
      BY <2>4, <3>1
    <3> QED BY <1>1, <2>3, <3>1, <3>2, <3>3
  <2> QED BY <2>3, <2>5 DEF Following
<1>3. SUFFICES ASSUME D \ T # {} PROVE FALSE
  OBVIOUS
<1>4. PICK b \in D \ T : \A a \in D \ T : b <= a
  BY <1>1, <1>3, LeastElement
<1>5. blocks[b].prev # NULL
  BY <1>2, <1>4 DEF Chain, PrevOk
<1>6. /\ blocks[b].prev \in D /\ blocks[b].prev < b
      /\ blocks[blocks[b].prev].next = b /\ b # NULL
  BY <1>4, <1>5, ChainBlock DEF Chain, PrevOk
<1>7. blocks[b].prev \in T
  BY <1>1, <1>4, <1>6
<1>8. Following(blocks[b].prev) = b
  BY <1>6 DEF Following
<1> QED BY <1>4, <1>7, <1>8

(* ... so that as many visits as there are blocks leave none out.           *)
LEMMA AllVisited ==
  ASSUME ListInv
  PROVE  /\ Visits \subseteq Nat
         /\ \A b \in DOMAIN blocks : \E i \in Visits : Visit[i] = b
<1> DEFINE D == DOMAIN blocks
           N == Cardinality(D)
           T(k) == {Visit[i] : i \in 0 .. k - 1}
<1>1. Chain(blocks)
  BY DEF ListInv
<1>2. IsFiniteSet(D) /\ N \in Nat
  <2>1. IsFiniteSet(HeapUnits)
    BY FS_Interval, HeapPlace DEF HeapUnits
  <2>2. IsFiniteSet(D)
    BY <1>1, <2>1, FS_Subset DEF Chain
  <2> QED BY <2>2, FS_CardinalityType
<1> HIDE DEF N
<1>3. \A k \in Nat : T(k) \subseteq D
  BY VisitBlocks
<1> DEFINE S == {k \in Nat : \/ T(k) = D
                             \/ IsFiniteSet(T(k)) /\ Cardinality(T(k)) = k}
<1>4. 0 \in S
  <2>1. T(0) = {}
    OBVIOUS
  <2> QED BY <2>1, FS_EmptySet
<1>5. ASSUME NEW k \in Nat, k \in S PROVE k + 1 \in S
  <2>1. T(k + 1) = T(k) \cup {Visit[k]}
    <3>1. 0 .. (k + 1) - 1 = (0 .. k - 1) \cup {k}
      OBVIOUS
    <3> QED BY <3>1
  <2>2. CASE T(k) = D
    <3>1. Visit[k] \in D
      BY VisitBlocks
    <3>2. T(k + 1) = D
      <4> HIDE DEF T
      <4> QED BY <2>1, <2>2, <3>1
    <3> HIDE DEF T
    <3> QED BY <3>2
  <2>3. CASE T(k) # D
    <3>1. IsFiniteSet(T(k)) /\ Cardinality(T(k)) = k
      BY <1>5, <2>3
    <3>2. Visit[k] \notin T(k)
      <4> SUFFICES ASSUME Visit[k] \in T(k) PROVE FALSE
        OBVIOUS
      <4>1. ASSUME NEW b \in T(k) PROVE Following(b) \in T(k)
        <5>1. PICK i \in 0 .. k - 1 : b = Visit[i]
          BY <4>1
        <5>2. i \in Nat /\ Following(b) = Visit[i + 1]
          BY <5>1, VisitBlocks
        <5>3. CASE i + 1 = k
          BY <5>2, <5>3
        <5>4. CASE i + 1 # k
          <6>1. i + 1 \in 0 .. k - 1
            BY <5>1, <5>4
          <6> QED BY <5>2, <6>1
        <5> QED BY <5>3, <5>4
      <4> HIDE DEF T
      <4>2. T(k) \in SUBSET D /\ T(k) # {}
        BY <1>3
      <4> QED BY <1>1, <2>3, <4>1, <4>2, ClosedIsAll
    <3> HIDE DEF T
    <3>3. IsFiniteSet(T(k + 1)) /\ Cardinality(T(k + 1)) = k + 1
      BY <2>1, <3>1, <3>2, FS_AddElement
    <3> QED BY <3>3
  <2> QED BY <2>2, <2>3
<1>6. N \in S
  <2> HIDE DEF S
  <2> QED BY <1>2, <1>4, <1>5, Induction
<1>7. T(N) = D
  <2> HIDE DEF T
  <2>1. CASE T(N) = D
    BY <2>1
  <2>2. CASE T(N) # D
    <3>1. Cardinality(T(N)) = Cardinality(D)
      BY <1>6, <2>2 DEF N
    <3> QED BY <1>2, <1>3, <3>1, FS_Subset
  <2> QED BY <2>1, <2>2
<1>8. Visits = 0 .. N - 1
  BY DEF Visits, N
<1> QED BY <1>7, <1>8

LEMMA FittingBlock ==
  ASSUME ListInv, NEW n
  PROVE  /\ Fitting(n) # {} =>
              /\ Visit[Min(Fitting(n))] \in DOMAIN blocks
              /\ Fits(Visit[Min(Fitting(n))], n)
         /\ Fitting(n) = {} => \A b \in DOMAIN blocks : ~Fits(b, n)
<1>1. Fitting(n) \in SUBSET Nat
  BY AllVisited DEF Fitting
<1>2. ASSUME Fitting(n) # {}
      PROVE  /\ Visit[Min(Fitting(n))] \in DOMAIN blocks
             /\ Fits(Visit[Min(Fitting(n))], n)
  <2>1. Min(Fitting(n)) \in Fitting(n)
    BY <1>1, <1>2, MinIsElement
  <2> DEFINE m == Min(Fitting(n))
  <2>2. m \in Nat /\ m \in Visits /\ Fits(Visit[m], n)
    <3> HIDE DEF m
    <3>1. m \in Fitting(n)
      BY <2>1 DEF m
    <3> QED BY <1>1, <3>1 DEF Fitting
  <2> QED BY <2>2, VisitBlocks
<1>3. ASSUME Fitting(n) = {}, NEW b \in DOMAIN blocks PROVE ~Fits(b, n)
  <2>1. PICK i \in Visits : Visit[i] = b
    BY AllVisited
  <2> QED BY <1>3, <2>1 DEF Fitting
<1> QED BY <1>2, <1>3
(* A block taken whole or split.                                            *)
Taken(b, n, bs) ==
  /\ Chain(bs) /\ Merged(bs)
  /\ DOMAIN blocks \subseteq DOMAIN bs
  /\ ~bs[b].is_free /\ n <= bs[b].size
  /\ \A a \in DOMAIN blocks \ {b} :
       bs[a].size = blocks[a].size /\ bs[a].is_free = blocks[a].is_free
  /\ \A a \in DOMAIN bs \ DOMAIN blocks : bs[a].is_free

LEMMA UsedChain ==
  ASSUME Chain(blocks), Merged(blocks), NEW b \in DOMAIN blocks,
         NEW n \in Nat \ {0}, Fits(b, n)
  PROVE  Taken(b, n, Used(b, n))
<1>1. blocks[b].is_free /\ blocks[b].size >= n /\ blocks[b].size \in Nat
  BY ChainBlock DEF Fits
<1>2. CASE Splits(b, n)
  <2> DEFINE bs == Split(b, n)
             r == Rest(b, n)
  <2>1. /\ Chain(bs) /\ Merged(bs)
        /\ r \notin DOMAIN blocks /\ bs[r].is_free
        /\ DOMAIN bs = DOMAIN blocks \cup {r}
        /\ bs[b].size = n /\ ~bs[b].is_free
        /\ \A a \in DOMAIN blocks \ {b} :
             bs[a].size = blocks[a].size /\ bs[a].is_free = blocks[a].is_free
    BY <1>1, <1>2, SplitChain
  <2>2. Used(b, n) = bs
    BY <1>2 DEF Used
  <2> HIDE DEF bs, r
  <2> QED BY <2>1, <2>2 DEF Taken
<1>3. CASE ~Splits(b, n)
  <2> DEFINE bs == [blocks EXCEPT ![b].is_free = FALSE]
             D == DOMAIN blocks
  <2>1. Used(b, n) = bs
    BY <1>3 DEF Used
  <2>2. \A u \in D : blocks[u] \in Block
    BY DEF Chain
  <2>3. /\ DOMAIN bs = D
        /\ \A u \in D : /\ bs[u] \in Block
                        /\ bs[u].size = blocks[u].size
                        /\ bs[u].next = blocks[u].next
                        /\ bs[u].prev = blocks[u].prev
                        /\ bs[u].is_free = IF u = b THEN FALSE ELSE blocks[u].is_free
    BY <2>2 DEF Block
  <2>4. bs \in [D -> Block]
    BY <2>2, <2>3 DEF Chain
  <2> HIDE DEF bs
  <2>5. \A u \in D : EndOf(bs, u) = EndOf(blocks, u)
    BY <2>3 DEF EndOf
  <2>6. ASSUME NEW u \in D PROVE NextOk(bs, u) /\ PrevOk(bs, u)
    <3>1. NextOk(blocks, u) /\ PrevOk(blocks, u)
      BY DEF Chain
    <3>2. NextOk(bs, u)
      BY <2>3, <2>5, <3>1 DEF NextOk
    <3>3. PrevOk(bs, u)
      BY <2>3, <3>1 DEF PrevOk
    <3> QED BY <3>2, <3>3
  <2>7. Ordered(bs)
    BY <2>3, <2>5 DEF Chain, Ordered
  <2>8. Chain(bs)
    BY <2>3, <2>4, <2>6, <2>7 DEF Chain
  <2>9. Merged(bs)
    <3> SUFFICES ASSUME NEW u \in D, bs[u].is_free, bs[u].next # NULL
                 PROVE  ~bs[bs[u].next].is_free
      BY <2>3 DEF Merged, MergedBut
    <3>1. blocks[u].is_free /\ blocks[u].next # NULL /\ bs[u].next = blocks[u].next
      BY <2>3
    <3>2. blocks[u].next \in D /\ ~blocks[blocks[u].next].is_free
      BY <3>1, ChainBlock DEF Merged, MergedBut
    <3> QED BY <2>3, <3>1, <3>2
  <2> QED BY <1>1, <2>1, <2>3, <2>8, <2>9 DEF Taken
<1> QED BY <1>2, <1>3

LEMMA ListAllocKeeps ==
  ASSUME HeapInv, NEW n \in Sizes, ListAlloc(n)
  PROVE  HeapInv' /\ DOMAIN held \subseteq DOMAIN held' /\ failed' = 0
<1> DEFINE b == Visit[Min(Fitting(n))]
           ptr == b + HEADER_SIZE
<1>1. /\ b \in DOMAIN blocks /\ Fits(b, n)
      /\ Chain(blocks) /\ Merged(blocks) /\ n \in Nat \ {0}
  BY FittingBlock, SizeIsNat DEF ListAlloc, HeapInv, ListInv
<1>2. /\ blocks' = Used(b, n)
      /\ next_fit_hint' =
           IF blocks'[b].next # NULL THEN blocks'[b].next ELSE HeapBase
      /\ Returned(ptr, n)
  BY DEF ListAlloc
<1>3. UNCHANGED << slab_page, slab_pages, slab_page_addrs,
                   bitmap, used_pages, last_alloc_hint >>
  BY DEF ListAlloc, pages, slab
<1> HIDE DEF b
<1>4. /\ Chain(blocks') /\ Merged(blocks')
      /\ DOMAIN blocks \subseteq DOMAIN blocks'
      /\ ~blocks'[b].is_free /\ n <= blocks'[b].size
      /\ \A a \in DOMAIN blocks \ {b} :
           blocks'[a].size = blocks[a].size /\ blocks'[a].is_free = blocks[a].is_free
      /\ \A a \in DOMAIN blocks' \ DOMAIN blocks : blocks'[a].is_free
  BY <1>1, <1>2, UsedChain DEF Taken
<1>5. next_fit_hint' \in DOMAIN blocks'
  <2>1. HeapBase \in DOMAIN blocks'
    BY <1>4 DEF Chain
  <2>2. blocks'[b].next # NULL => blocks'[b].next \in DOMAIN blocks'
    <3>1. b \in DOMAIN blocks'
      BY <1>1, <1>4
    <3> QED BY <1>4, <3>1, ChainBlock
  <2> QED BY <1>2, <2>1, <2>2
<1>6. b \in Nat /\ ptr \in Nat /\ ptr - HEADER_SIZE = b
  BY <1>1, ChainBlock DEF HEADER_SIZE
<1>7. blocks[b].is_free
  BY <1>1 DEF Fits
<1>8. HeldInv' /\ DOMAIN held' = DOMAIN held \cup {ptr}
  <2>1. ASSUME NEW p \in DOMAIN held
        PROVE
           /\ p # ptr
           /\ HeldInList(p) => /\ p - HEADER_SIZE \in DOMAIN blocks'
                               /\ ~blocks'[p - HEADER_SIZE].is_free
                               /\ blocks'[p - HEADER_SIZE].size
                                    = blocks[p - HEADER_SIZE].size
           /\ HeldInSlab(p) =>
                /\ PageOf(p) \in DOMAIN slab_page'
                /\ Blocks(PageOf(p))' = Blocks(PageOf(p))
                /\ p \notin slab_page'[PageOf(p)].free_list
                /\ slab_page'[PageOf(p)].size_class
                     = slab_page[PageOf(p)].size_class
                /\ PageOf(p) \in slab_page_addrs' => PageOf(p) \in slab_page_addrs
    <3>1. HeldInList(p) => p - HEADER_SIZE \in DOMAIN blocks
                           /\ p - HEADER_SIZE # b
                           /\ ~blocks[p - HEADER_SIZE].is_free
      BY <1>7 DEF HeldInList
    <3>2. HeldInList(p) => p # ptr
      BY <1>6, <3>1
    <3>3. HeldInSlab(p) => p # ptr
      <4> SUFFICES ASSUME HeldInSlab(p), p = ptr PROVE FALSE
        OBVIOUS
      <4>1. ~InHeap(p)
        BY HeldPlace
      <4>2. /\ b \in HeapUnits /\ blocks[b].size \in Nat /\ blocks[b].size > 0
            /\ EndOf(blocks, b) <= HeapEnd
        BY <1>1, ChainBlock
      <4>3. InHeap(ptr)
        BY <1>6, <4>2, HeapPlace DEF InHeap, HeapUnits, EndOf, HEADER_SIZE
      <4> QED BY <4>1, <4>3
    <3>4. p # ptr
      BY <3>2, <3>3 DEF HeapInv, HeldInv
    <3>5. HeldInSlab(p) => /\ PageOf(p) \in DOMAIN slab_page
                           /\ p \notin slab_page[PageOf(p)].free_list
      BY DEF HeldInSlab
    <3> QED BY <1>3, <1>4, <3>1, <3>4, <3>5 DEF Blocks
  <2>2. /\ ptr - HEADER_SIZE \in DOMAIN blocks'
        /\ ~blocks'[ptr - HEADER_SIZE].is_free
        /\ n <= blocks'[ptr - HEADER_SIZE].size
    BY <1>1, <1>4, <1>6
  <2>3. ASSUME NEW a \in DOMAIN blocks', ~blocks'[a].is_free
        PROVE  a + HEADER_SIZE \in DOMAIN held \cup {ptr}
    <3>1. a \in DOMAIN blocks
      BY <1>4, <2>3
    <3>2. a # b => ~blocks[a].is_free
      BY <1>4, <2>3, <3>1
    <3> QED BY <3>1, <3>2 DEF HeapInv, HeldInv
  <2>4. \A q \in slab_page_addrs' :
          Blocks(q)' \ slab_page'[q].free_list \subseteq DOMAIN held \cup {ptr}
    BY <1>3 DEF HeapInv, HeldInv, Blocks
  <2> HIDE DEF ptr
  <2> QED BY <1>2, <1>6, <2>1, <2>2, <2>3, <2>4, ReturnedKeeps
<1>9. PagesInv' /\ SlabInv'
  BY <1>3 DEF HeapInv, PagesInv, PagesTypeOK, SlabInv, Blocks
<1> QED BY <1>2, <1>4, <1>5, <1>8, <1>9 DEF HeapInv, ListInv, Returned

(* When kmalloc returns NULL, all memory of that size is taken.             *)
LEMMA ReturnsNullKeeps ==
  ASSUME HeapInv, NEW n \in Sizes, ReturnsNull(n)
  PROVE  /\ HeapInv' /\ DOMAIN held' = DOMAIN held
         /\ FailsOnlyWhenFull'
<1>1. /\ NotFromSlab(n) /\ Fitting(n) = {} /\ failed' = n
      /\ UNCHANGED << slab_page, slab_pages, slab_page_addrs, bitmap, used_pages,
                      last_alloc_hint, blocks, next_fit_hint, held >>
  BY DEF ReturnsNull, pages, slab, list
<1>2. HeapInv'
  <2>1. PagesInv' /\ SlabInv' /\ ListInv'
    BY <1>1 DEF HeapInv, PagesInv, PagesTypeOK, SlabInv, ListInv, Blocks
  <2>2. HeldInv'
    BY <1>1 DEF HeapInv, HeldInv, HeldInList, HeldInSlab, Blocks
  <2> QED BY <2>1, <2>2 DEF HeapInv
<1>3. \A b \in DOMAIN blocks : ~Fits(b, n)
  BY <1>1, FittingBlock DEF HeapInv
<1>4. ASSUME n <= SLAB_MAX_SIZE
      PROVE  /\ bitmap = Page
             /\ \A page \in DOMAIN slab_page :
                  slab_page[page].size_class = ClassFor(n)
                    => slab_page[page].free_list = {}
  <2>1. WithRoom(ClassFor(n)) = {} /\ NoPage
    BY <1>1, <1>4 DEF NotFromSlab
  <2>2. bitmap = Page
    <3>1. Page \ bitmap = {}
      BY <2>1 DEF NoPage, Found, FirstPass, FreePages
    <3> QED BY <3>1 DEF HeapInv, PagesInv, PagesTypeOK
  <2>3. ASSUME NEW page \in DOMAIN slab_page,
               slab_page[page].size_class = ClassFor(n)
        PROVE  slab_page[page].free_list = {}
    <3>1. /\ slab_page[page] \in Header
          /\ slab_page[page].free_list \subseteq Blocks(page)
          /\ slab_page[page].free_count = Cardinality(slab_page[page].free_list)
      BY DEF HeapInv, SlabInv
    <3>2. PICK i \in DOMAIN slab_pages[ClassFor(n)] : slab_pages[ClassFor(n)][i] = page
      BY <2>3 DEF HeapInv, SlabInv
    <3>3. ~HasRoom(page)
      BY <2>1, <3>2 DEF WithRoom
    <3>4. slab_page[page].free_count = 0
      BY <3>1, <3>3 DEF HasRoom, Header
    <3>5. IsFiniteSet(Blocks(page))
      <4>1. page \in Nat /\ slab_page[page].size_class \in SlabSizes
        BY <3>1, Constants DEF Header, HeapInv, SlabInv, Page
      <4> QED BY <4>1, CarvedInPage DEF Blocks
    <3>6. IsFiniteSet(slab_page[page].free_list)
      BY <3>1, <3>5, FS_Subset
    <3> QED BY <3>1, <3>4, <3>6, FS_EmptySet
  <2> QED BY <2>2, <2>3
<1>5. FailsOnlyWhenFull'
  BY <1>1, <1>3, <1>4 DEF FailsOnlyWhenFull, Fits
<1> QED BY <1>1, <1>2, <1>5
-----------------------------------------------------------------------------
(* kfree: what else is held is not touched, and what is freed is available. *)
LEMMA FreedKeeps ==
  ASSUME HeapInv, NEW ptr \in DOMAIN held,
         held' = Restrict(held, DOMAIN held \ {ptr}), failed' = 0,
         \A p \in DOMAIN held \ {ptr} :
           /\ HeldInList(p) => /\ p - HEADER_SIZE \in DOMAIN blocks'
                               /\ ~blocks'[p - HEADER_SIZE].is_free
                               /\ blocks'[p - HEADER_SIZE].size
                                    = blocks[p - HEADER_SIZE].size
           /\ HeldInSlab(p) =>
                /\ PageOf(p) \in DOMAIN slab_page'
                /\ Blocks(PageOf(p))' = Blocks(PageOf(p))
                /\ p \notin slab_page'[PageOf(p)].free_list
                /\ slab_page'[PageOf(p)].size_class
                     = slab_page[PageOf(p)].size_class
                /\ PageOf(p) \in slab_page_addrs' => PageOf(p) \in slab_page_addrs,
         \A b \in DOMAIN blocks' :
           ~blocks'[b].is_free => b + HEADER_SIZE \in DOMAIN held \ {ptr},
         \A page \in slab_page_addrs' :
           Blocks(page)' \ slab_page'[page].free_list \subseteq DOMAIN held \ {ptr}
  PROVE  HeldInv' /\ DOMAIN held' = DOMAIN held \ {ptr}
<1>1. /\ DOMAIN held' = DOMAIN held \ {ptr}
      /\ \A p \in DOMAIN held' : held'[p] = held[p]
      /\ held' = [p \in DOMAIN held \ {ptr} |-> held[p]]
  BY DEF Restrict
<1>2. DOMAIN held' \subseteq Nat /\ held' \in [DOMAIN held' -> Sizes]
  <2>1. DOMAIN held \subseteq Nat /\ \A p \in DOMAIN held : held[p] \in Sizes
    BY DEF HeapInv, HeldInv
  <2> QED BY <1>1, <2>1
<1>3. ASSUME NEW p \in DOMAIN held' PROVE HeldInList(p)' \/ HeldInSlab(p)'
  <2>1. p \in DOMAIN held \ {ptr} /\ held'[p] = held[p]
    BY <1>1
  <2>2. CASE HeldInList(p)
    <3>1. HeldInList(p)'
      BY <2>1, <2>2 DEF HeldInList
    <3> QED BY <3>1
  <2>3. CASE HeldInSlab(p)
    <3>1. HeldInSlab(p)'
      BY <2>1, <2>3 DEF HeldInSlab
    <3> QED BY <3>1
  <2> QED BY <2>1, <2>2, <2>3 DEF HeapInv, HeldInv
<1>4. HeldInv'
  BY <1>1, <1>2, <1>3 DEF HeldInv
<1> QED BY <1>1, <1>4

LEMMA KfreeKeeps ==
  ASSUME HeapInv, NEW ptr \in DOMAIN held, Kfree(ptr)
  PROVE  HeapInv' /\ DOMAIN held' = DOMAIN held \ {ptr} /\ failed' = 0
<1> DEFINE page == PageOf(ptr)
           D == DOMAIN slab_page
<1>1. /\ held' = Restrict(held, DOMAIN held \ {ptr}) /\ failed' = 0
      /\ UNCHANGED << bitmap, used_pages, last_alloc_hint >>
  BY DEF Kfree, pages
<1>2. /\ ptr \in Nat /\ ptr \in UnitsOf(page)
      /\ HeldInList(ptr) \/ HeldInSlab(ptr)
      /\ HeldInList(ptr) => InHeap(ptr) /\ ~IsSlabPtr(ptr) /\ page \notin D
      /\ HeldInSlab(ptr) => ~InHeap(ptr) /\ page \in D
  BY HeldPlace DEF HeapInv, HeldInv, HeldInSlab
<1> HIDE DEF page
<1>3. \A q \in slab_page_addrs : ptr \in Blocks(q) => q = page
  <2> SUFFICES ASSUME NEW q \in slab_page_addrs, ptr \in Blocks(q)
               PROVE  q = page
    OBVIOUS
  <2>1. q \in D /\ slab_page[q] \in Header /\ q \in Nat
    BY Constants DEF HeapInv, SlabInv, Page
  <2>2. ptr \in UnitsOf(q)
    BY <2>1, CarvedInPage DEF Blocks, Header
  <2> QED BY <2>1, <2>2, UnitOfPage DEF page
<1>4. HeldInSlab(ptr) => \A b \in DOMAIN blocks : b + HEADER_SIZE # ptr
  <2> SUFFICES ASSUME HeldInSlab(ptr), NEW b \in DOMAIN blocks,
                      b + HEADER_SIZE = ptr
               PROVE  FALSE
    OBVIOUS
  <2>1. /\ b \in HeapUnits /\ blocks[b].size \in Nat /\ blocks[b].size > 0
        /\ EndOf(blocks, b) <= HeapEnd
    BY ChainBlock DEF HeapInv, ListInv
  <2>2. InHeap(ptr)
    BY <1>2, <2>1, HeapPlace DEF InHeap, HeapUnits, EndOf, HEADER_SIZE
  <2> QED BY <1>2, <2>2
<1>5. CASE HeldInList(ptr)
  <2> DEFINE b == ptr - HEADER_SIZE
  <2>1. /\ ListFree(b) /\ UNCHANGED << slab_page, slab_pages, slab_page_addrs >>
    BY <1>2, <1>5 DEF Kfree, ListFree, slab
  <2>2. b \in DOMAIN blocks /\ ~blocks[b].is_free /\ b \in Int /\ b + HEADER_SIZE = ptr
    BY <1>2, <1>5 DEF HeldInList, HEADER_SIZE
  <2> HIDE DEF b
  <2>3. /\ Chain(blocks') /\ Merged(blocks')
        /\ next_fit_hint' \in DOMAIN blocks'
        /\ \A u \in DOMAIN blocks : u # b /\ ~blocks[u].is_free =>
             /\ u \in DOMAIN blocks' /\ ~blocks'[u].is_free
             /\ blocks'[u].size = blocks[u].size
        /\ \A u \in DOMAIN blocks' : ~blocks'[u].is_free =>
             u \in DOMAIN blocks /\ u # b /\ ~blocks[u].is_free
    BY <2>1, <2>2, FreeChain DEF HeapInv, ListInv
  <2>4. ASSUME NEW p \in DOMAIN held \ {ptr}
        PROVE
           /\ HeldInList(p) => /\ p - HEADER_SIZE \in DOMAIN blocks'
                               /\ ~blocks'[p - HEADER_SIZE].is_free
                               /\ blocks'[p - HEADER_SIZE].size
                                    = blocks[p - HEADER_SIZE].size
           /\ HeldInSlab(p) =>
                /\ PageOf(p) \in DOMAIN slab_page'
                /\ Blocks(PageOf(p))' = Blocks(PageOf(p))
                /\ p \notin slab_page'[PageOf(p)].free_list
                /\ slab_page'[PageOf(p)].size_class
                     = slab_page[PageOf(p)].size_class
                /\ PageOf(p) \in slab_page_addrs' => PageOf(p) \in slab_page_addrs
    <3>1. p \in Nat
      BY HeldPlace
    <3>2. p - HEADER_SIZE # b
      BY <1>2, <2>2, <3>1 DEF HEADER_SIZE
    <3> QED BY <2>1, <2>3, <3>2 DEF HeldInList, HeldInSlab, Blocks
  <2>5. ASSUME NEW u \in DOMAIN blocks', ~blocks'[u].is_free
        PROVE  u + HEADER_SIZE \in DOMAIN held \ {ptr}
    <3>1. u \in DOMAIN blocks /\ u # b /\ ~blocks[u].is_free
      BY <2>3, <2>5
    <3>2. u \in Nat /\ u + HEADER_SIZE \in DOMAIN held
      BY <3>1, ChainBlock DEF HeapInv, ListInv, HeldInv
    <3> QED BY <2>2, <3>1, <3>2 DEF HEADER_SIZE
  <2>6. ASSUME NEW q \in slab_page_addrs'
        PROVE  Blocks(q)' \ slab_page'[q].free_list \subseteq DOMAIN held \ {ptr}
    <3>1. q \in slab_page_addrs /\ q # page
      BY <1>2, <1>5, <2>1 DEF HeapInv, SlabInv
    <3>2. ptr \notin Blocks(q)
      BY <1>3, <3>1
    <3> QED BY <2>1, <3>1, <3>2 DEF Blocks, HeapInv, HeldInv
  <2>7. HeldInv' /\ DOMAIN held' = DOMAIN held \ {ptr}
    BY <1>1, <2>4, <2>5, <2>6, FreedKeeps
  <2>8. PagesInv' /\ SlabInv'
    BY <1>1, <2>1 DEF HeapInv, PagesInv, PagesTypeOK, SlabInv, Blocks
  <2> QED BY <1>1, <2>3, <2>7, <2>8 DEF HeapInv, ListInv
<1>6. CASE HeldInSlab(ptr) /\ page \notin slab_page_addrs
  <2>1. UNCHANGED << slab_page, slab_pages, slab_page_addrs, blocks, next_fit_hint >>
    BY <1>2, <1>6 DEF Kfree, IsSlabPtr, slab, list, page
  <2>2. \A p \in DOMAIN held \ {ptr} :
           /\ HeldInList(p) => /\ p - HEADER_SIZE \in DOMAIN blocks'
                               /\ ~blocks'[p - HEADER_SIZE].is_free
                               /\ blocks'[p - HEADER_SIZE].size
                                    = blocks[p - HEADER_SIZE].size
           /\ HeldInSlab(p) =>
                /\ PageOf(p) \in DOMAIN slab_page'
                /\ Blocks(PageOf(p))' = Blocks(PageOf(p))
                /\ p \notin slab_page'[PageOf(p)].free_list
                /\ slab_page'[PageOf(p)].size_class
                     = slab_page[PageOf(p)].size_class
                /\ PageOf(p) \in slab_page_addrs' => PageOf(p) \in slab_page_addrs
    BY <2>1 DEF HeldInList, HeldInSlab, Blocks
  <2>3. \A u \in DOMAIN blocks' :
          ~blocks'[u].is_free => u + HEADER_SIZE \in DOMAIN held \ {ptr}
    BY <1>4, <1>6, <2>1 DEF HeapInv, HeldInv
  <2>4. ASSUME NEW q \in slab_page_addrs'
        PROVE  Blocks(q)' \ slab_page'[q].free_list \subseteq DOMAIN held \ {ptr}
    <3>1. q \in slab_page_addrs /\ ptr \notin Blocks(q)
      BY <1>3, <1>6, <2>1
    <3> QED BY <2>1, <3>1 DEF Blocks, HeapInv, HeldInv
  <2>5. HeldInv' /\ DOMAIN held' = DOMAIN held \ {ptr}
    BY <1>1, <2>2, <2>3, <2>4, FreedKeeps
  <2>6. PagesInv' /\ SlabInv' /\ ListInv'
    BY <1>1, <2>1 DEF HeapInv, PagesInv, PagesTypeOK, SlabInv, Blocks, ListInv
  <2> QED BY <1>1, <2>5, <2>6 DEF HeapInv
<1>7. CASE HeldInSlab(ptr) /\ page \in slab_page_addrs
  <2> DEFINE F == slab_page[page].free_list \cup {ptr}
  <2>1. /\ slab_page' = [slab_page EXCEPT ![page].free_list = @ \cup {ptr},
                                          ![page].free_count = @ + 1]
        /\ UNCHANGED << slab_pages, slab_page_addrs, blocks, next_fit_hint >>
    BY <1>7 DEF Kfree, IsSlabPtr, SlabFree, list, page
  <2>2. /\ page \in D /\ slab_page[page] \in Header /\ page \in Nat
        /\ ptr \in Blocks(page) /\ ptr \notin slab_page[page].free_list
        /\ slab_page[page].free_list \subseteq Blocks(page)
        /\ slab_page[page].free_count = Cardinality(slab_page[page].free_list)
    BY <1>7, Constants DEF HeldInSlab, HeapInv, SlabInv, Page, page
  <2>3. Cardinality(F) = slab_page[page].free_count + 1 /\ F \in SUBSET Blocks(page)
    <3>1. IsFiniteSet(Blocks(page))
      BY <2>2, CarvedInPage DEF Blocks, Header
    <3>2. IsFiniteSet(slab_page[page].free_list)
      BY <2>2, <3>1, FS_Subset
    <3> QED BY <2>2, <3>2, FS_AddElement
  <2>4. slab_page' = [slab_page EXCEPT ![page].free_list = F,
                                       ![page].free_count = Cardinality(F)]
    BY <2>1, <2>2, <2>3
  <2>5. /\ SlabInv'
        /\ DOMAIN slab_page' = D
        /\ \A p \in D :
             /\ slab_page'[p].size_class = slab_page[p].size_class
             /\ slab_page'[p].free_list = IF p = page THEN F
                                          ELSE slab_page[p].free_list
        /\ \A p \in D : Blocks(p)' = Blocks(p)
    <3> HIDE DEF F
    <3> QED BY <2>1, <2>2, <2>3, <2>4, HeaderChanged DEF HeapInv
  <2>6. \A p \in DOMAIN held \ {ptr} :
           /\ HeldInList(p) => /\ p - HEADER_SIZE \in DOMAIN blocks'
                               /\ ~blocks'[p - HEADER_SIZE].is_free
                               /\ blocks'[p - HEADER_SIZE].size
                                    = blocks[p - HEADER_SIZE].size
           /\ HeldInSlab(p) =>
                /\ PageOf(p) \in DOMAIN slab_page'
                /\ Blocks(PageOf(p))' = Blocks(PageOf(p))
                /\ p \notin slab_page'[PageOf(p)].free_list
                /\ slab_page'[PageOf(p)].size_class
                     = slab_page[PageOf(p)].size_class
                /\ PageOf(p) \in slab_page_addrs' => PageOf(p) \in slab_page_addrs
    BY <2>1, <2>5 DEF HeldInList, HeldInSlab
  <2>7. \A u \in DOMAIN blocks' :
          ~blocks'[u].is_free => u + HEADER_SIZE \in DOMAIN held \ {ptr}
    BY <1>4, <1>7, <2>1 DEF HeapInv, HeldInv
  <2>8. ASSUME NEW q \in slab_page_addrs'
        PROVE  Blocks(q)' \ slab_page'[q].free_list \subseteq DOMAIN held \ {ptr}
    <3>1. q \in slab_page_addrs /\ q \in D
      BY <2>1 DEF HeapInv, SlabInv
    <3>2. Blocks(q) \ slab_page[q].free_list \subseteq DOMAIN held
      BY <3>1 DEF HeapInv, HeldInv
    <3>3. CASE q = page
      BY <2>5, <3>1, <3>2, <3>3
    <3>4. CASE q # page
      BY <1>3, <2>5, <3>1, <3>2, <3>4
    <3> QED BY <3>3, <3>4
  <2> HIDE DEF F
  <2>9. HeldInv' /\ DOMAIN held' = DOMAIN held \ {ptr}
    BY <1>1, <2>6, <2>7, <2>8, FreedKeeps
  <2>10. PagesInv' /\ ListInv'
    BY <1>1, <2>1, <2>5 DEF HeapInv, PagesInv, PagesTypeOK, ListInv
  <2> QED BY <1>1, <2>5, <2>9, <2>10 DEF HeapInv
<1> QED BY <1>2, <1>5, <1>6, <1>7

(* realloc of a block that is large enough.                                 *)
LEMMA ReallocInPlaceKeeps ==
  ASSUME HeapInv, ReallocInPlace
  PROVE  HeapInv' /\ DOMAIN held' = DOMAIN held /\ failed' = 0
<1>1. PICK ptr \in DOMAIN held, n \in Sizes :
        /\ \E usable \in UsableSize(ptr) : n <= usable
        /\ held' = [held EXCEPT ![ptr] = n]
  BY DEF ReallocInPlace
<1>2. /\ failed' = 0
      /\ UNCHANGED << slab_page, slab_pages, slab_page_addrs, bitmap, used_pages,
                      last_alloc_hint, blocks, next_fit_hint >>
  BY DEF ReallocInPlace, pages, slab, list
<1>3. held \in [DOMAIN held -> Sizes]
  BY DEF HeapInv, HeldInv
<1>4. /\ DOMAIN held' = DOMAIN held /\ held' \in [DOMAIN held -> Sizes]
      /\ \A p \in DOMAIN held : held'[p] = IF p = ptr THEN n ELSE held[p]
  BY <1>1, <1>3
<1>5. ASSUME HeldInList(ptr) PROVE n <= blocks[ptr - HEADER_SIZE].size
  <2>1. UsableSize(ptr) = {blocks[ptr - HEADER_SIZE].size}
    BY <1>5, HeldPlace DEF UsableSize
  <2> QED BY <1>1, <2>1
<1>6. ASSUME PageOf(ptr) \in slab_page_addrs
      PROVE  n <= slab_page[PageOf(ptr)].size_class
  <2>1. UsableSize(ptr) = {slab_page[PageOf(ptr)].size_class}
    BY <1>6 DEF UsableSize, IsSlabPtr
  <2> QED BY <1>1, <2>1
<1>7. ASSUME NEW p \in DOMAIN held PROVE HeldInList(p)' \/ HeldInSlab(p)'
  <2>1. CASE HeldInList(p)
    <3>1. HeldInList(p)'
      BY <1>2, <1>4, <1>5, <2>1 DEF HeldInList
    <3> QED BY <3>1
  <2>2. CASE HeldInSlab(p)
    <3>1. HeldInSlab(p)'
      BY <1>2, <1>4, <1>6, <2>2 DEF HeldInSlab, Blocks
    <3> QED BY <3>1
  <2> QED BY <2>1, <2>2 DEF HeapInv, HeldInv
<1>8. HeldInv'
  BY <1>2, <1>4, <1>7 DEF HeapInv, HeldInv, Blocks
<1>9. PagesInv' /\ SlabInv' /\ ListInv'
  BY <1>2 DEF HeapInv, PagesInv, PagesTypeOK, SlabInv, Blocks, ListInv
<1> QED BY <1>2, <1>4, <1>8, <1>9 DEF HeapInv
-----------------------------------------------------------------------------
(* The start: one free block, and the pages of kernel and heap are marked.  *)
LEMMA OnePageTwoUnits == PAGE_SIZE >= 2 /\ HEAP_PAGES * PAGE_SIZE >= 2
<1>1. PICK c \in SlabSizes : 2 * c <= PAGE_SIZE
  BY HeapAssumption
<1>2. c \in Nat /\ c >= 1
  BY HeapAssumption, Constants
<1>3. PAGE_SIZE >= 2
  BY <1>1, <1>2, Constants
<1> QED BY <1>3, Constants

LEMMA PagesAtStart ==
  ASSUME NEW map \in MemoryMaps, Initialised(map, HeapPages)
  PROVE  PagesTypeOK /\ Kernel \cup HeapPages \subseteq bitmap
<1>1. HeapPages \subseteq Page /\ Kernel \subseteq Page
  BY HeapAssumption DEF Kernel
<1>2. bitmap \subseteq Page /\ Kernel \cup HeapPages \subseteq bitmap
  BY <1>1 DEF Initialised
<1>3. IsFiniteSet(Page)
  BY FS_Interval, Constants DEF Page
<1>4. Cardinality((Kernel \cup HeapPages) \cap FreedBy(map)) \in Nat
  <2>1. (Kernel \cup HeapPages) \cap FreedBy(map) \in SUBSET Page
    BY <1>1
  <2> QED BY <1>3, <2>1, FS_Subset, FS_CardinalityType
<1>5. Cardinality({e \in (DOMAIN map) \X Page : e[2] \in Frees(map[e[1]])}) \in Nat
  <2>1. IsFiniteSet((DOMAIN map) \X Page)
    BY <1>3, FS_Product, PagesAssumption
  <2>2. {e \in (DOMAIN map) \X Page : e[2] \in Frees(map[e[1]])}
          \in SUBSET ((DOMAIN map) \X Page)
    OBVIOUS
  <2> QED BY <2>1, <2>2, FS_Subset, FS_CardinalityType
<1>6. used_pages \in Int /\ last_alloc_hint \in 0 .. MAX_PAGES
  BY <1>4, <1>5, Constants DEF Initialised
<1> QED BY <1>2, <1>6 DEF PagesTypeOK

LEMMA InitHeap == Init => HeapInv /\ moving = NULL /\ failed = 0
<1> SUFFICES ASSUME Init PROVE HeapInv /\ moving = NULL /\ failed = 0
  OBVIOUS
<1>1. PICK map \in MemoryMaps : Initialised(map, HeapPages)
  BY DEF Init
<1>2. /\ blocks = [b \in {HeapBase} |->
                     [size |-> HEAP_PAGES * PAGE_SIZE - HEADER_SIZE,
                      is_free |-> TRUE, next |-> NULL, prev |-> NULL]]
      /\ next_fit_hint = HeapBase
      /\ slab_page = << >>
      /\ slab_pages = [c \in SlabSizes |-> << >>]
      /\ slab_page_addrs = {}
      /\ held = << >> /\ moving = NULL /\ failed = 0
  BY DEF Init
<1>3. DOMAIN slab_page = {} /\ DOMAIN held = {}
  BY <1>2
<1>4. PagesInv
  BY <1>1, <1>3, PagesAtStart DEF PagesInv
<1>5. /\ DOMAIN blocks = {HeapBase}
      /\ blocks[HeapBase].size = HEAP_PAGES * PAGE_SIZE - HEADER_SIZE
      /\ blocks[HeapBase].is_free = TRUE
      /\ blocks[HeapBase].next = NULL /\ blocks[HeapBase].prev = NULL
      /\ blocks[HeapBase] \in Block
      /\ blocks \in [DOMAIN blocks -> Block]
  <2> DEFINE first == [size |-> HEAP_PAGES * PAGE_SIZE - HEADER_SIZE,
                       is_free |-> TRUE, next |-> NULL, prev |-> NULL]
  <2>1. HEAP_PAGES * PAGE_SIZE - HEADER_SIZE \in Nat \ {0}
    BY HeapPlace, OnePageTwoUnits DEF HEADER_SIZE
  <2>2. first \in Block
    BY <2>1 DEF Block, NULL
  <2> QED BY <1>2, <2>2
<1>6. ListInv
  <2>1. HeapBase \in HeapUnits
    BY HeapPlace DEF HeapUnits
  <2>2. EndOf(blocks, HeapBase) = HeapEnd
    BY <1>5, HeapPlace DEF EndOf, HEADER_SIZE
  <2>3. NextOk(blocks, HeapBase) /\ PrevOk(blocks, HeapBase)
    BY <1>5, <2>2 DEF NextOk, PrevOk
  <2>4. Ordered(blocks)
    BY <1>5, HeapPlace DEF Ordered
  <2>5. Chain(blocks)
    BY <1>5, <2>1, <2>3, <2>4 DEF Chain
  <2>6. Merged(blocks)
    BY <1>5 DEF Merged, MergedBut
  <2> QED BY <1>2, <1>5, <2>5, <2>6 DEF ListInv
<1>7. SlabInv
  <2>1. slab_page \in [DOMAIN slab_page -> Header]
    BY <1>2
  <2>2. slab_pages \in [SlabSizes -> Seq(DOMAIN slab_page)]
    BY <1>2
  <2>3. \A c \in SlabSizes : DOMAIN slab_pages[c] = {}
    BY <1>2
  <2> QED BY <1>2, <1>3, <2>1, <2>2, <2>3 DEF SlabInv
<1>8. HeldInv
  <2>1. held \in [DOMAIN held -> Sizes]
    BY <1>2
  <2> QED BY <1>2, <1>3, <1>5, <2>1 DEF HeldInv
<1> QED BY <1>2, <1>4, <1>6, <1>7, <1>8 DEF HeapInv

-----------------------------------------------------------------------------
(* One call of kmalloc, and a step of a caller.                             *)
LEMMA KmallocKeeps ==
  ASSUME HeapInv, NEW n \in Sizes, Kmalloc(n)
  PROVE  HeapInv' /\ DOMAIN held \subseteq DOMAIN held' /\ FailsOnlyWhenFull'
<1>1. CASE SlabAlloc(n)
  BY <1>1, SlabAllocKeeps DEF FailsOnlyWhenFull
<1>2. CASE SlabNewPage(n)
  BY <1>2, SlabNewPageKeeps DEF FailsOnlyWhenFull
<1>3. CASE ListAlloc(n)
  BY <1>3, ListAllocKeeps DEF FailsOnlyWhenFull
<1>4. CASE ReturnsNull(n)
  BY <1>4, ReturnsNullKeeps
<1> QED BY <1>1, <1>2, <1>3, <1>4 DEF Kmalloc

IInv == HeapInv /\ moving \in DOMAIN held \cup {NULL} /\ FailsOnlyWhenFull

LEMMA StepKeeps == IInv /\ [Next]_vars => IInv'
<1> SUFFICES ASSUME IInv, [Next]_vars PROVE IInv'
  OBVIOUS
<1>1. HeapInv /\ moving \in DOMAIN held \cup {NULL} /\ FailsOnlyWhenFull
  BY DEF IInv
<1>2. CASE Malloc
  <2>1. /\ \E n \in Sizes : Kmalloc(n)
        /\ moving' = moving
    BY <1>2 DEF Malloc
  <2>2. HeapInv' /\ DOMAIN held \subseteq DOMAIN held' /\ FailsOnlyWhenFull'
    BY <1>1, <2>1, KmallocKeeps
  <2> QED BY <1>1, <2>1, <2>2 DEF IInv
<1>3. CASE Free
  <2>1. /\ moving = NULL /\ moving' = moving
        /\ \E ptr \in DOMAIN held : Kfree(ptr)
    BY <1>3 DEF Free
  <2>2. HeapInv' /\ failed' = 0
    BY <1>1, <2>1, KfreeKeeps
  <2> QED BY <2>1, <2>2 DEF IInv, FailsOnlyWhenFull
<1>4. CASE ReallocInPlace
  <2>1. moving = NULL /\ moving' = moving
    BY <1>4 DEF ReallocInPlace
  <2>2. HeapInv' /\ failed' = 0
    BY <1>1, <1>4, ReallocInPlaceKeeps
  <2> QED BY <2>1, <2>2 DEF IInv, FailsOnlyWhenFull
<1>5. CASE ReallocMoves
  <2>1. PICK ptr \in DOMAIN held, n \in Sizes :
          Kmalloc(n) /\ moving' = IF failed' = 0 THEN ptr ELSE NULL
    BY <1>5 DEF ReallocMoves
  <2>2. HeapInv' /\ DOMAIN held \subseteq DOMAIN held' /\ FailsOnlyWhenFull'
    BY <1>1, <2>1, KmallocKeeps
  <2> QED BY <2>1, <2>2 DEF IInv
<1>6. CASE ReallocFrees
  <2>1. moving # NULL /\ Kfree(moving) /\ moving' = NULL
    BY <1>6 DEF ReallocFrees
  <2>2. HeapInv' /\ failed' = 0
    BY <1>1, <2>1, KfreeKeeps
  <2> QED BY <2>1, <2>2 DEF IInv, FailsOnlyWhenFull
<1>7. CASE UNCHANGED vars
  <2>1. UNCHANGED << bitmap, used_pages, last_alloc_hint, slab_page, slab_pages,
                     slab_page_addrs, blocks, next_fit_hint, held, moving, failed >>
    BY <1>7 DEF vars, pages, slab, list
  <2>2. PagesInv' /\ ListInv' /\ SlabInv'
    BY <1>1, <2>1 DEF HeapInv, PagesInv, PagesTypeOK, ListInv, SlabInv, Blocks
  <2>3. HeldInv'
    BY <1>1, <2>1 DEF HeapInv, HeldInv, HeldInList, HeldInSlab, Blocks
  <2>4. FailsOnlyWhenFull'
    BY <1>1, <2>1 DEF FailsOnlyWhenFull, Fits
  <2> QED BY <1>1, <2>1, <2>2, <2>3, <2>4 DEF IInv, HeapInv
<1> QED BY <1>2, <1>3, <1>4, <1>5, <1>6, <1>7 DEF Next

LEMMA Inductive == Spec => []IInv
<1>1. Init => IInv
  BY InitHeap DEF IInv, FailsOnlyWhenFull
<1> QED BY <1>1, StepKeeps, PTL DEF Spec
-----------------------------------------------------------------------------
(* What the invariant says of the heap.                                     *)
LEMMA SlabHeader ==
  ASSUME HeapInv, NEW p \in DOMAIN slab_page
  PROVE  /\ p \in Page /\ p \in Nat
         /\ slab_page[p].size_class \in SlabSizes
         /\ slab_page[p].free_count \in Nat
         /\ slab_page[p].free_list \subseteq Blocks(p)
         /\ Blocks(p) \subseteq UnitsOf(p)
         /\ p * PAGE_SIZE \notin Blocks(p) /\ p * PAGE_SIZE \in UnitsOf(p)
<1>1. /\ p \in Page /\ slab_page[p] \in Header
      /\ slab_page[p].free_list \subseteq Blocks(p)
  BY DEF HeapInv, SlabInv
<1>2. p \in Nat /\ slab_page[p].size_class \in SlabSizes /\ slab_page[p].free_count \in Nat
  BY <1>1, Constants DEF Page, Header
<1>3. p * PAGE_SIZE \in UnitsOf(p)
  <2>1. p * PAGE_SIZE \in Nat /\ (p + 1) * PAGE_SIZE = p * PAGE_SIZE + PAGE_SIZE
    BY <1>2, Constants
  <2> QED BY <2>1, Constants DEF UnitsOf
<1> QED BY <1>1, <1>2, <1>3, CarvedInPage DEF Blocks

LEMMA TypeFromInv == IInv => TypeOK
<1> SUFFICES ASSUME IInv PROVE TypeOK
  OBVIOUS
<1>1. HeapInv /\ moving \in DOMAIN held \cup {NULL}
  BY DEF IInv
<1>2. /\ DOMAIN blocks \subseteq HeapUnits
      /\ \A b \in DOMAIN blocks :
           blocks[b] \in [size : Nat \ {0}, is_free : BOOLEAN, next : Nat, prev : Nat]
      /\ next_fit_hint \in Nat
  <2>1. Chain(blocks) /\ next_fit_hint \in DOMAIN blocks
    BY <1>1 DEF HeapInv, ListInv
  <2> QED BY <2>1, ChainBlock DEF Chain, Block
<1>3. \A p \in DOMAIN slab_page :
        /\ slab_page[p].size_class \in SlabSizes
        /\ slab_page[p].free_list \subseteq UnitsOf(p)
        /\ slab_page[p].free_count \in Nat
        /\ p \in Page
  BY <1>1, SlabHeader
<1>4. \A c \in SlabSizes : \A i \in DOMAIN slab_pages[c] :
        slab_pages[c][i] \in DOMAIN slab_page
  BY <1>1 DEF HeapInv, SlabInv
<1> QED BY <1>1, <1>2, <1>3, <1>4 DEF TypeOK, HeapInv, PagesInv, SlabInv, HeldInv

LEMMA TiledFromInv == IInv => Tiled
<1> SUFFICES ASSUME IInv PROVE Tiled
  OBVIOUS
<1>1. Chain(blocks) /\ next_fit_hint \in DOMAIN blocks
  BY DEF IInv, HeapInv, ListInv
<1>2. ASSUME NEW b \in DOMAIN blocks
      PROVE  LET end == b + HEADER_SIZE + blocks[b].size
             IN  /\ blocks[b].prev \in Links /\ blocks[b].next \in Links
                 /\ IF blocks[b].next = NULL THEN end = HeapEnd
                    ELSE blocks[b].next = end /\ blocks[end].prev = b
  <2>1. NextOk(blocks, b) /\ PrevOk(blocks, b)
    BY <1>1 DEF Chain
  <2> QED BY <2>1 DEF NextOk, PrevOk, EndOf, Links
<1> QED BY <1>1, <1>2 DEF Tiled, Chain

LEMMA LostFromInv == IInv => NothingLost
<1> SUFFICES ASSUME IInv PROVE NothingLost
  OBVIOUS
<1>1. HeapInv /\ Merged(blocks)
  BY DEF IInv, HeapInv, ListInv
<1>2. ASSUME NEW b \in DOMAIN blocks
      PROVE  /\ ~blocks[b].is_free => b + HEADER_SIZE \in DOMAIN held
             /\ blocks[b].is_free /\ blocks[b].next # NULL
                  => ~blocks[blocks[b].next].is_free
  BY <1>1 DEF HeapInv, HeldInv, Merged, MergedBut
<1>3. ASSUME NEW page \in slab_page_addrs
      PROVE  Carved(page, slab_page[page].size_class) \ slab_page[page].free_list
               = DOMAIN held \cap UnitsOf(page)
  <2>1. page \in DOMAIN slab_page /\ page \in Nat /\ Blocks(page) \subseteq UnitsOf(page)
    BY <1>1, SlabHeader DEF HeapInv, SlabInv
  <2>2. Blocks(page) \ slab_page[page].free_list \subseteq DOMAIN held \cap UnitsOf(page)
    BY <1>1, <2>1 DEF HeapInv, HeldInv
  <2>3. ASSUME NEW ptr \in DOMAIN held, ptr \in UnitsOf(page)
        PROVE  ptr \in Blocks(page) \ slab_page[page].free_list
    <3>1. PageOf(ptr) = page
      BY <2>1, <2>3, UnitOfPage
    <3>2. ~HeldInList(ptr)
      BY <1>1, <2>1, <3>1, HeldPlace
    <3>3. HeldInSlab(ptr)
      BY <1>1, <3>2 DEF HeapInv, HeldInv
    <3> QED BY <3>1, <3>3 DEF HeldInSlab
  <2> QED BY <2>2, <2>3 DEF Blocks
<1> QED BY <1>2, <1>3 DEF NothingLost

(* Where what a caller holds lies: in its block of the list, ...            *)
LEMMA OwnedInList ==
  ASSUME HeapInv, NEW ptr \in DOMAIN held, HeldInList(ptr)
  PROVE  LET b == ptr - HEADER_SIZE
         IN  /\ b \in DOMAIN blocks /\ b \in Nat
             /\ EndOf(blocks, b) \in Nat
             /\ \A u \in Owned(ptr) : b < u /\ u < EndOf(blocks, b)
             /\ Owned(ptr) \subseteq HeapUnits
<1> DEFINE b == ptr - HEADER_SIZE
<1>1. /\ b \in DOMAIN blocks /\ b \in Nat /\ b \in HeapUnits
      /\ blocks[b].size \in Nat /\ held[ptr] <= blocks[b].size
      /\ EndOf(blocks, b) \in Nat /\ EndOf(blocks, b) <= HeapEnd
  BY ChainBlock DEF HeldInList, HeapInv, ListInv
<1>2. ptr \in Nat /\ held[ptr] \in Nat
  BY HeldPlace
<1>3. \A u \in Owned(ptr) : u \in Int /\ b < u /\ u < EndOf(blocks, b)
  BY <1>1, <1>2 DEF Owned, EndOf, HEADER_SIZE
<1>4. Owned(ptr) \subseteq HeapUnits
  BY <1>1, <1>3, HeapPlace DEF HeapUnits
<1> QED BY <1>1, <1>3, <1>4

(* ... or in its block of the slab page.                                    *)
LEMMA OwnedInSlab ==
  ASSUME HeapInv, AllRecorded, NEW ptr \in DOMAIN held, HeldInSlab(ptr)
  PROVE  LET p == PageOf(ptr)
             c == slab_page[PageOf(ptr)].size_class
         IN  /\ p \in DOMAIN slab_page
             /\ ptr \in Carved(p, c) /\ ptr \notin slab_page[p].free_list
             /\ c \in SlabSizes /\ c \in Nat
             /\ \A u \in Owned(ptr) : u \in Nat /\ ptr <= u /\ u < ptr + c
             /\ Owned(ptr) \subseteq UnitsOf(p)
<1> DEFINE p == PageOf(ptr)
           c == slab_page[PageOf(ptr)].size_class
<1>1. /\ p \in DOMAIN slab_page /\ p \in Nat /\ c \in SlabSizes
      /\ ptr \in Carved(p, c) /\ ptr \notin slab_page[p].free_list
      /\ held[ptr] <= c
  BY SlabHeader DEF HeldInSlab, AllRecorded, Blocks
<1>2. ptr \in Nat /\ held[ptr] \in Nat /\ c \in Nat
  <2>1. ptr \in Nat /\ held[ptr] \in Nat
    BY HeldPlace
  <2> HIDE DEF c
  <2> QED BY <1>1, <2>1, HeapAssumption, Constants
<1>3. p * PAGE_SIZE + c <= ptr /\ ptr + c <= p * PAGE_SIZE + PAGE_SIZE
  BY <1>1, CarvedPlace
<1> HIDE DEF c, p
<1>4. \A u \in Owned(ptr) : u \in Nat /\ ptr <= u /\ u < ptr + c
  BY <1>1, <1>2 DEF Owned
<1>5. Owned(ptr) \subseteq UnitsOf(p)
  <2>1. p * PAGE_SIZE \in Nat /\ (p + 1) * PAGE_SIZE = p * PAGE_SIZE + PAGE_SIZE
    BY <1>1, Constants
  <2> QED BY <1>2, <1>3, <1>4, <2>1, Constants DEF UnitsOf
<1> QED BY <1>1, <1>2, <1>4, <1>5 DEF c, p

LEMMA SharedFromInv == IInv /\ AllRecorded => NothingShared
<1> SUFFICES ASSUME IInv, AllRecorded PROVE NothingShared
  OBVIOUS
<1>1. HeapInv /\ Chain(blocks)
  BY DEF IInv, HeapInv, ListInv
<1>2. \A p \in DOMAIN held : HeldInList(p) \/ HeldInSlab(p)
  BY <1>1 DEF HeapInv, HeldInv
<1>3. DOMAIN slab_page \cap (Kernel \cup HeapPages) = {}
  BY <1>1 DEF HeapInv, SlabInv
<1>4. \A page \in DOMAIN slab_page : UnitsOf(page) \cap HeapUnits = {}
  <2> SUFFICES ASSUME NEW page \in DOMAIN slab_page, NEW u \in UnitsOf(page),
                      u \in HeapUnits
               PROVE  FALSE
    OBVIOUS
  <2>1. page \in Nat
    BY <1>1, SlabHeader
  <2>2. PageOf(u) = page /\ PageOf(u) \in HeapPages
    BY <2>1, UnitOfPage, UnitOfHeap
  <2> QED BY <1>3, <2>2
<1>5. \A b \in DOMAIN blocks : b \in HeapUnits /\ b \in Nat
  BY <1>1, ChainBlock
<1>6. ASSUME NEW p \in DOMAIN held, NEW q \in DOMAIN held, p # q,
             NEW u \in Owned(p), u \in Owned(q)
      PROVE  FALSE
  <2>0. p \in Nat /\ q \in Nat
    BY <1>1, HeldPlace
  <2>1. CASE HeldInList(p) /\ HeldInList(q)
    <3> DEFINE a == p - HEADER_SIZE
               b == q - HEADER_SIZE
    <3>1. /\ a \in DOMAIN blocks /\ a \in Nat /\ EndOf(blocks, a) \in Nat
          /\ a < u /\ u < EndOf(blocks, a) /\ u \in HeapUnits
      BY <1>1, <1>6, <2>1, OwnedInList
    <3>2. /\ b \in DOMAIN blocks /\ b \in Nat /\ EndOf(blocks, b) \in Nat
          /\ b < u /\ u < EndOf(blocks, b)
      BY <1>1, <1>6, <2>1, OwnedInList
    <3>3. a # b
      BY <1>6, <2>0 DEF HEADER_SIZE
    <3>4. u \in Nat
      BY <3>1, UnitOfHeap
    <3> HIDE DEF a, b
    <3>5. a < b => EndOf(blocks, a) <= b
      BY <1>1, <3>1, <3>2 DEF Chain, Ordered
    <3>6. b < a => EndOf(blocks, b) <= a
      BY <1>1, <3>1, <3>2 DEF Chain, Ordered
    <3> QED BY <3>1, <3>2, <3>3, <3>4, <3>5, <3>6
  <2>2. CASE HeldInList(p) /\ HeldInSlab(q)
    BY <1>1, <1>4, <1>6, <2>2, OwnedInList, OwnedInSlab
  <2>3. CASE HeldInSlab(p) /\ HeldInList(q)
    BY <1>1, <1>4, <1>6, <2>3, OwnedInList, OwnedInSlab
  <2>4. CASE HeldInSlab(p) /\ HeldInSlab(q)
    <3> DEFINE s == PageOf(p)
               c == slab_page[s].size_class
    <3>1. /\ s \in DOMAIN slab_page /\ p \in Carved(s, c)
          /\ c \in SlabSizes /\ c \in Nat
          /\ u \in Nat /\ p <= u /\ u < p + c /\ u \in UnitsOf(s)
      BY <1>1, <1>6, <2>4, OwnedInSlab
    <3>2. /\ PageOf(q) \in DOMAIN slab_page
          /\ q \in Carved(PageOf(q), slab_page[PageOf(q)].size_class)
          /\ q <= u /\ u < q + slab_page[PageOf(q)].size_class
          /\ u \in UnitsOf(PageOf(q))
      BY <1>1, <1>6, <2>4, OwnedInSlab
    <3>3. s \in Nat /\ PageOf(q) \in Nat
      BY <1>1, <3>1, <3>2, SlabHeader
    <3>4. PageOf(q) = s
      BY <3>1, <3>2, <3>3, UnitOfPage
    <3>5. q \in Carved(s, c) /\ q <= u /\ u < q + c
      BY <3>2, <3>4
    <3> HIDE DEF s, c
    <3>6. \A a, b \in Carved(s, c) : a < b => a + c <= b
      BY <3>1, <3>3, CarvedPlace
    <3>7. p < q => p + c <= q
      BY <3>1, <3>5, <3>6
    <3>8. q < p => q + c <= p
      BY <3>1, <3>5, <3>6
    <3> QED BY <1>6, <2>0, <3>1, <3>5, <3>7, <3>8
  <2> QED BY <1>2, <2>1, <2>2, <2>3, <2>4
<1>7. ASSUME NEW p \in DOMAIN held, NEW u \in Owned(p), u \in Bookkeeping
      PROVE  FALSE
  <2>1. \A page \in DOMAIN slab_page :
          /\ page \in Nat
          /\ page * PAGE_SIZE \in UnitsOf(page)
          /\ slab_page[page].free_list \subseteq UnitsOf(page)
    BY <1>1, SlabHeader
  <2>2. \/ u \in DOMAIN blocks
        \/ \E page \in DOMAIN slab_page :
             u = page * PAGE_SIZE \/ u \in slab_page[page].free_list
    BY <1>7 DEF Bookkeeping
  <2>3. CASE HeldInList(p)
    <3> DEFINE b == p - HEADER_SIZE
    <3>1. /\ b \in DOMAIN blocks /\ b \in Nat /\ EndOf(blocks, b) \in Nat
          /\ b < u /\ u < EndOf(blocks, b) /\ u \in HeapUnits
      BY <1>1, <1>7, <2>3, OwnedInList
    <3>2. u \in DOMAIN blocks
      BY <1>4, <2>1, <2>2, <3>1
    <3>3. EndOf(blocks, b) <= u
      BY <1>1, <3>1, <3>2 DEF Chain, Ordered
    <3> HIDE DEF b
    <3> QED BY <1>5, <3>1, <3>2, <3>3
  <2>4. CASE HeldInSlab(p)
    <3> DEFINE s == PageOf(p)
               c == slab_page[s].size_class
    <3>1. /\ s \in DOMAIN slab_page /\ p \in Carved(s, c)
          /\ p \notin slab_page[s].free_list
          /\ c \in SlabSizes /\ c \in Nat
          /\ u \in Nat /\ p <= u /\ u < p + c /\ u \in UnitsOf(s)
      BY <1>1, <1>7, <2>4, OwnedInSlab
    <3>2. s \in Nat /\ slab_page[s].free_list \subseteq Carved(s, c)
      BY <1>1, <3>1, SlabHeader DEF Blocks
    <3>3. u \notin DOMAIN blocks
      BY <1>4, <1>5, <3>1
    <3>4. PICK page \in DOMAIN slab_page :
            u = page * PAGE_SIZE \/ u \in slab_page[page].free_list
      BY <2>2, <3>3
    <3>5. page = s
      <4>1. u \in UnitsOf(page) /\ page \in Nat
        BY <2>1, <3>4
      <4> QED BY <3>1, <3>2, <4>1, UnitOfPage
    <3>6. u = s * PAGE_SIZE \/ u \in slab_page[s].free_list
      BY <3>4, <3>5
    <3> HIDE DEF s, c
    <3>7. /\ p \in Nat /\ s * PAGE_SIZE \in Nat
          /\ s * PAGE_SIZE + c <= p /\ c > 0
          /\ \A a, b \in Carved(s, c) : a < b => a + c <= b
      BY <3>1, <3>2, CarvedPlace, HeapAssumption, Constants
    <3>8. CASE u = s * PAGE_SIZE
      BY <3>1, <3>7, <3>8
    <3>9. CASE u \in slab_page[s].free_list
      <4>1. u \in Carved(s, c) /\ u # p
        BY <3>1, <3>2, <3>9
      <4>2. p < u
        BY <3>1, <3>7, <4>1
      <4>3. p + c <= u
        BY <3>1, <3>7, <4>1, <4>2
      <4> QED BY <3>1, <3>7, <4>3
    <3> QED BY <3>6, <3>8, <3>9
  <2> QED BY <1>2, <2>3, <2>4
<1>8. \A p \in DOMAIN held :
        \/ Owned(p) \subseteq HeapUnits
        \/ \E page \in DOMAIN slab_page : Owned(p) \subseteq UnitsOf(page)
  BY <1>1, <1>2, OwnedInList, OwnedInSlab
<1> QED BY <1>3, <1>6, <1>7, <1>8 DEF NothingShared
-----------------------------------------------------------------------------
(* The pages: an allocation takes one, or none.                             *)
LEMMA OnePageAtATime ==
  ASSUME IInv, [Next]_vars
  PROVE  \/ /\ UNCHANGED << bitmap, used_pages, slab_page_addrs >>
            /\ DOMAIN slab_page' = DOMAIN slab_page
         \/ \E page \in Page \ bitmap :
              /\ bitmap' = bitmap \cup {page} /\ used_pages' = used_pages + 1
              /\ DOMAIN slab_page' = DOMAIN slab_page \cup {page}
              /\ slab_page_addrs' = Recorded(page)
<1> DEFINE Same == /\ UNCHANGED << bitmap, used_pages, slab_page_addrs >>
                   /\ DOMAIN slab_page' = DOMAIN slab_page
           More == \E page \in Page \ bitmap :
                     /\ bitmap' = bitmap \cup {page} /\ used_pages' = used_pages + 1
                     /\ DOMAIN slab_page' = DOMAIN slab_page \cup {page}
                     /\ slab_page_addrs' = Recorded(page)
<1>1. ASSUME NEW n \in Sizes, Kmalloc(n) PROVE Same \/ More
  <2>1. CASE SlabAlloc(n)
    BY <2>1 DEF SlabAlloc, pages
  <2>2. CASE SlabNewPage(n)
    <3>1. PICK page \in Page :
            /\ AllocPage(page)
            /\ \E ptr \in Carved(page, ClassFor(n)) :
                 slab_page' =
                     [p \in DOMAIN slab_page \cup {page} |->
                        IF p # page THEN slab_page[p]
                        ELSE Popped([size_class |-> ClassFor(n),
                                     free_list |-> Carved(page, ClassFor(n)),
                                     free_count |-> Cardinality(Carved(page, ClassFor(n)))],
                                    ptr)]
            /\ slab_page_addrs' = Recorded(page)
      BY <2>2 DEF SlabNewPage
    <3>2. DOMAIN slab_page' = DOMAIN slab_page \cup {page}
      BY <3>1
    <3>3. /\ page \in Page \ bitmap
          /\ bitmap' = bitmap \cup {page} /\ used_pages' = used_pages + 1
      BY <3>1 DEF AllocPage, Found, FirstPass, FreePages, Counted
    <3> QED BY <3>1, <3>2, <3>3
  <2>3. CASE ListAlloc(n)
    BY <2>3 DEF ListAlloc, pages, slab
  <2>4. CASE ReturnsNull(n)
    BY <2>4 DEF ReturnsNull, pages, slab
  <2> HIDE DEF Same, More
  <2> QED BY <1>1, <2>1, <2>2, <2>3, <2>4 DEF Kmalloc
<1>2. ASSUME NEW ptr, Kfree(ptr) PROVE Same
  <2>1. UNCHANGED << bitmap, used_pages >>
    BY <1>2 DEF Kfree, pages
  <2>2. CASE IsSlabPtr(ptr)
    BY <1>2, <2>1, <2>2 DEF Kfree, SlabFree
  <2>3. CASE ~IsSlabPtr(ptr) /\ InHeap(ptr)
    BY <1>2, <2>1, <2>3 DEF Kfree, ListFree, slab
  <2>4. CASE ~IsSlabPtr(ptr) /\ ~InHeap(ptr)
    BY <1>2, <2>1, <2>4 DEF Kfree, slab
  <2> QED BY <2>2, <2>3, <2>4
<1>3. UNCHANGED << pages, slab >> => Same
  BY DEF pages, slab
<1> SUFFICES Same \/ More
  OBVIOUS
<1> HIDE DEF Same, More
<1>4. CASE UNCHANGED vars
  BY <1>3, <1>4 DEF vars
<1>5. CASE Malloc
  BY <1>1, <1>5 DEF Malloc
<1>6. CASE Free
  BY <1>2, <1>6 DEF Free
<1>7. CASE ReallocInPlace
  BY <1>3, <1>7 DEF ReallocInPlace
<1>8. CASE ReallocMoves
  BY <1>1, <1>8 DEF ReallocMoves
<1>9. CASE ReallocFrees
  BY <1>2, <1>9 DEF ReallocFrees
<1> QED BY <1>4, <1>5, <1>6, <1>7, <1>8, <1>9 DEF Next

(* kfree recognises the slab pages until there are too many of them.        *)
RecordsInv == AllRecorded \/ Cardinality(slab_page_addrs) >= MAX_SLAB_PAGES

LEMMA FinitelyMany ==
  ASSUME IInv
  PROVE  /\ IsFiniteSet(Page) /\ IsFiniteSet(bitmap)
         /\ IsFiniteSet(DOMAIN slab_page) /\ IsFiniteSet(slab_page_addrs)
<1>1. IsFiniteSet(Page)
  BY FS_Interval, Constants DEF Page
<1>2. /\ bitmap \subseteq Page /\ DOMAIN slab_page \subseteq Page
      /\ slab_page_addrs \subseteq DOMAIN slab_page
  BY DEF IInv, HeapInv, PagesInv, PagesTypeOK, SlabInv
<1>3. slab_page_addrs \subseteq Page
  BY <1>2
<1> QED BY <1>1, <1>2, <1>3, FS_Subset

LEMMA RecordsKept == Spec => []RecordsInv
<1>1. Init => RecordsInv
  BY DEF Init, RecordsInv, AllRecorded
<1>2. ASSUME IInv, IInv', RecordsInv, [Next]_vars PROVE RecordsInv'
  <2>1. CASE /\ UNCHANGED << bitmap, used_pages, slab_page_addrs >>
             /\ DOMAIN slab_page' = DOMAIN slab_page
    BY <1>2, <2>1 DEF RecordsInv, AllRecorded
  <2>2. CASE \E page \in Page \ bitmap :
               /\ bitmap' = bitmap \cup {page} /\ used_pages' = used_pages + 1
               /\ DOMAIN slab_page' = DOMAIN slab_page \cup {page}
               /\ slab_page_addrs' = Recorded(page)
    <3>1. PICK page \in Page \ bitmap :
            /\ DOMAIN slab_page' = DOMAIN slab_page \cup {page}
            /\ slab_page_addrs' = Recorded(page)
      BY <2>2
    <3>2. CASE Cardinality(slab_page_addrs) < MAX_SLAB_PAGES
      <4>1. Cardinality(slab_page_addrs) \in Nat /\ MAX_SLAB_PAGES \in Nat
        BY <1>2, FinitelyMany, FS_CardinalityType, HeapAssumption
      <4> QED BY <1>2, <3>1, <3>2, <4>1 DEF RecordsInv, AllRecorded, Recorded
    <3>3. CASE ~(Cardinality(slab_page_addrs) < MAX_SLAB_PAGES)
      <4>1. Cardinality(slab_page_addrs) \in Nat /\ MAX_SLAB_PAGES \in Nat
        BY <1>2, FinitelyMany, FS_CardinalityType, HeapAssumption
      <4>2. slab_page_addrs' = slab_page_addrs
        BY <3>1, <3>3 DEF Recorded
      <4> QED BY <3>3, <4>1, <4>2 DEF RecordsInv
    <3> QED BY <3>2, <3>3
  <2> QED BY <1>2, <2>1, <2>2, OnePageAtATime
<1> QED BY <1>1, <1>2, Inductive, PTL DEF Spec

(* There are not more slab pages than kfree has places to note them.        *)
FewSlabs == Cardinality(DOMAIN slab_page) <= MAX_SLAB_PAGES

LEMMA FewAreRecorded == IInv /\ RecordsInv /\ FewSlabs => AllRecorded
<1> SUFFICES ASSUME IInv, FewSlabs, Cardinality(slab_page_addrs) >= MAX_SLAB_PAGES
             PROVE  AllRecorded
  BY DEF RecordsInv
<1>1. /\ slab_page_addrs \subseteq DOMAIN slab_page
      /\ IsFiniteSet(DOMAIN slab_page) /\ IsFiniteSet(slab_page_addrs)
  BY FinitelyMany DEF IInv, HeapInv, SlabInv
<1>2. /\ Cardinality(DOMAIN slab_page) \in Nat /\ Cardinality(slab_page_addrs) \in Nat
      /\ Cardinality(slab_page_addrs) <= Cardinality(DOMAIN slab_page)
      /\ MAX_SLAB_PAGES \in Nat
  BY <1>1, FS_CardinalityType, FS_Subset, HeapAssumption
<1>3. Cardinality(DOMAIN slab_page) = Cardinality(slab_page_addrs)
  BY <1>2 DEF FewSlabs
<1>4. DOMAIN slab_page = slab_page_addrs
  BY <1>1, <1>3, FS_Subset
<1> QED BY <1>4 DEF AllRecorded

(* used_pages counts the bits, unless two entries of the map overlap.       *)
NoOverlap ==
  \A map \in MemoryMaps : \A i, j \in DOMAIN map :
    i # j => Frees(map[i]) \cap Frees(map[j]) = {}

LEMMA CountAtStart ==
  ASSUME NoOverlap, NEW map \in MemoryMaps, Initialised(map, HeapPages)
  PROVE  used_pages = Cardinality(bitmap)
<1> DEFINE F == FreedBy(map)
           E == {e \in (DOMAIN map) \X Page : e[2] \in Frees(map[e[1]])}
           R == Kernel \cup HeapPages
<1>1. IsFiniteSet(Page) /\ Cardinality(Page) = MAX_PAGES
  BY FS_Interval, Constants DEF Page
<1>2. R \subseteq Page /\ F \subseteq Page
  BY HeapAssumption DEF Kernel, FreedBy, Frees
<1>3. Cardinality(E) = Cardinality(F)
  <2> DEFINE f == [p \in F |-> << CHOOSE i \in DOMAIN map : p \in Frees(map[i]), p >>]
  <2>1. \A p \in F : \E i \in DOMAIN map : p \in Frees(map[i])
    BY DEF FreedBy
  <2>2. \A p \in F : f[p] \in E /\ f[p][2] = p
    <3> SUFFICES ASSUME NEW p \in F PROVE f[p] \in E /\ f[p][2] = p
      OBVIOUS
    <3> DEFINE i == CHOOSE i \in DOMAIN map : p \in Frees(map[i])
    <3>1. i \in DOMAIN map /\ p \in Frees(map[i])
      BY <2>1
    <3>2. f[p] = << i, p >>
      OBVIOUS
    <3>3. p \in Page
      BY <1>2
    <3> HIDE DEF i, f, F
    <3> QED BY <3>1, <3>2, <3>3
  <2>3. f \in [F -> E]
    BY <2>2
  <2>4. ASSUME NEW e \in E PROVE \E p \in F : f[p] = e
    <3>1. PICK j \in DOMAIN map, p \in Page : e = << j, p >> /\ p \in Frees(map[j])
      OBVIOUS
    <3>2. p \in F
      BY <3>1 DEF FreedBy
    <3> DEFINE i == CHOOSE i \in DOMAIN map : p \in Frees(map[i])
    <3>3. i \in DOMAIN map /\ p \in Frees(map[i])
      BY <2>1, <3>2
    <3>4. f[p] = << i, p >>
      BY <3>2
    <3> HIDE DEF i, f, F, E
    <3>5. i = j
      BY <3>1, <3>3 DEF NoOverlap
    <3> QED BY <3>1, <3>2, <3>4, <3>5
  <2>5. \A p, q \in F : f[p] = f[q] => p = q
    <3> HIDE DEF f
    <3> QED BY <2>2
  <2>6. f \in Bijection(F, E)
    <3> HIDE DEF f, F, E
    <3>1. f \in Injection(F, E)
      BY <2>3, <2>5 DEF Injection, IsInjective
    <3>2. f \in Surjection(F, E)
      BY <2>3, <2>4 DEF Surjection
    <3> QED BY <3>1, <3>2 DEF Bijection
  <2>7. IsFiniteSet(F)
    BY <1>1, <1>2, FS_Subset
  <2> HIDE DEF f, F, E
  <2> QED BY <2>6, <2>7, FS_Bijection DEF ExistsBijection
<1>4. /\ IsFiniteSet(Page \ F) /\ Cardinality(Page \ F) = MAX_PAGES - Cardinality(F)
      /\ IsFiniteSet(F) /\ Cardinality(F) \in Nat
  <2>1. Page \cap F = F
    BY <1>2
  <2>2. IsFiniteSet(F)
    BY <1>1, <1>2, FS_Subset
  <2> HIDE DEF F
  <2>3. /\ IsFiniteSet(Page \ F)
        /\ Cardinality(Page \ F) = Cardinality(Page) - Cardinality(Page \cap F)
    BY <1>1, <2>2, FS_Difference
  <2>4. Cardinality(F) \in Nat
    BY <2>2, FS_CardinalityType
  <2> QED BY <1>1, <2>1, <2>2, <2>3, <2>4
<1>5. IsFiniteSet(R \cap F) /\ Cardinality(R \cap F) \in Nat
  BY <1>4, FS_Intersection, FS_CardinalityType
<1>6. bitmap = (Page \ F) \cup (R \cap F) /\ (Page \ F) \cap (R \cap F) = {}
  BY <1>2 DEF Initialised
<1>7. Cardinality(bitmap) = Cardinality(Page \ F) + Cardinality(R \cap F)
  <2> DEFINE S == Page \ F
             T == R \cap F
  <2>1. /\ IsFiniteSet(S) /\ IsFiniteSet(T) /\ bitmap = S \cup T /\ S \cap T = {}
        /\ Cardinality(S) \in Nat /\ Cardinality(T) \in Nat
    BY <1>4, <1>5, <1>6, FS_CardinalityType
  <2> HIDE DEF S, T
  <2>2. Cardinality(S \cup T) = Cardinality(S) + Cardinality(T) - Cardinality(S \cap T)
    BY <2>1, FS_Union
  <2>3. Cardinality(S \cap T) = 0
    BY <2>1, FS_EmptySet
  <2>4. Cardinality(bitmap) = Cardinality(S) + Cardinality(T)
    BY <2>1, <2>2, <2>3
  <2> QED BY <2>4 DEF S, T
<1>8. used_pages = MAX_PAGES - Cardinality(E) + Cardinality(R \cap F)
  BY DEF Initialised
<1> HIDE DEF E, F, R
<1> QED BY <1>3, <1>4, <1>5, <1>7, <1>8, Constants

LEMMA CountKept ==
  ASSUME IInv, used_pages = Cardinality(bitmap), [Next]_vars
  PROVE  used_pages' = Cardinality(bitmap')
<1>1. CASE UNCHANGED << bitmap, used_pages >>
  BY <1>1
<1>2. CASE \E page \in Page \ bitmap :
             bitmap' = bitmap \cup {page} /\ used_pages' = used_pages + 1
  BY <1>2, FinitelyMany, FS_AddElement
<1> QED BY <1>1, <1>2, OnePageAtATime

-----------------------------------------------------------------------------
(* Type correctness of heap.c's and pmm.c's state.                          *)
THEOREM HeapTypes == Spec => []TypeOK
BY Inductive, TypeFromInv, PTL

(* Whatever kmalloc splits and kfree merges, the blocks of the list tile    *)
(* the heap, next and prev agree, and next_fit_hint points to a block.      *)
THEOREM ListTilesHeap == Spec => []Tiled
BY Inductive, TiledFromInv, PTL

(* Every block in use has a holder, free neighbours are merged, and a slab  *)
(* page's chain lists what is not held, for every sequence of kmalloc,      *)
(* kfree and realloc.                                                       *)
THEOREM HeapLosesNothing == Spec => []NothingLost
BY Inductive, LostFromInv, PTL

(* kmalloc returns NULL only when no page and no block would do: the search *)
(* from next_fit_hint visits every block.                                   *)
THEOREM FailureMeansFull == Spec => []FailsOnlyWhenFull
<1>1. IInv => FailsOnlyWhenFull
  BY DEF IInv
<1> QED BY <1>1, Inductive, PTL

(* As long as there are not more slab pages than kfree can recognise, no    *)
(* memory is in two hands.                                                  *)
THEOREM HeapSharesNothing == Spec => [](FewSlabs => NothingShared)
<1>1. IInv /\ RecordsInv => (FewSlabs => NothingShared)
  BY FewAreRecorded, SharedFromInv
<1> QED BY <1>1, Inductive, RecordsKept, PTL

(* If no two entries of a memory map overlap, used_pages is the number of   *)
(* pages marked; free_count is the length of its chain in any case.         *)
THEOREM CountersAgree == ASSUME NoOverlap PROVE Spec => []CountsAgree
<1> DEFINE Counts == used_pages = Cardinality(bitmap)
<1>1. Init => Counts
  BY CountAtStart DEF Init
<1>2. IInv /\ Counts /\ [Next]_vars => Counts'
  BY CountKept
<1>3. IInv /\ Counts => CountsAgree
  BY DEF CountsAgree, IInv, HeapInv, SlabInv
<1> HIDE DEF Counts
<1> QED BY <1>1, <1>2, <1>3, Inductive, PTL DEF Spec
=============================================================================
