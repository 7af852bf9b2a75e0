-------------------------------- MODULE Heap --------------------------------
(***************************************************************************)
(* The kernel heap of kernel/heap.c over the page allocator: slab pages for *)
(* sizes up to SLAB_MAX_SIZE and a doubly linked list of blocks, searched   *)
(* next-fit, for the rest; with realloc of lib/lua/lua_shim.c on top.  Only *)
(* the kernel task allocates, so calls do not overlap.                      *)
(*                                                                          *)
(* Sizes and addresses are counted in units of 16 bytes, to which kmalloc   *)
(* rounds: a header takes one.  A slab page's chain of free blocks is the   *)
(* set of them, and which one is taken is left open.  kmalloc_aligned has   *)
(* no caller and is left out.                                               *)
(*                                                                          *)
(* NotReserved, OneUnitMore, ForwardOnly, StaleHint and NoWrap are wrong    *)
(* variants of the definition behind them; no action uses them.  They are   *)
(* there to see that the properties notice.                                 *)
(***************************************************************************)
EXTENDS Pages, Functions

CONSTANTS
  HEAP_PAGES,      \* pages of the list heap
  SlabSizes,       \* the size classes
  MAX_SLAB_PAGES,  \* slab pages kfree can recognise
  Sizes,           \* what callers ask for
  MAX_HELD         \* bound on the blocks callers hold

HEADER_SIZE == 1
NULL == 0
SLAB_MAX_SIZE == Max(SlabSizes)

(* The heap starts at the first page behind the kernel.                     *)
HeapBase == RoundUp(KERNEL_END) * PAGE_SIZE
HeapEnd == HeapBase + HEAP_PAGES * PAGE_SIZE
NotReserved == {}
HeapPages == RoundUp(KERNEL_END) .. RoundUp(KERNEL_END) + HEAP_PAGES - 1

ASSUME HeapAssumption ==
  /\ KERNEL_END >= LOW_PAGES * PAGE_SIZE
  /\ HEAP_PAGES \in Nat \ {0}
  /\ HeapPages \subseteq Page
  /\ MAX_SLAB_PAGES \in Nat /\ MAX_HELD \in Nat
  /\ Sizes \subseteq Nat \ {0}
  /\ SlabSizes \subseteq 1 .. PAGE_SIZE - 1 /\ SlabSizes # {}
  /\ IsFiniteSet(SlabSizes)
  /\ \A c \in SlabSizes : 2 * c <= PAGE_SIZE

VARIABLES
  blocks,           \* the block headers, by address
  next_fit_hint,    \* where the search starts
  slab_page,        \* the headers of the slab pages, by page number
  slab_pages,       \* the list of the pages of each class
  slab_page_addrs,  \* the pages kfree takes for slab pages
  held,             \* what callers hold: the size they asked for, by address
  moving,           \* realloc: the block its kfree is still to be called for
  failed            \* the request the last kmalloc returned NULL for, or 0

slab == << slab_page, slab_pages, slab_page_addrs >>
list == << blocks, next_fit_hint >>
vars == << pages, slab, list, held, moving, failed >>

HeapUnits == HeapBase .. HeapEnd - 1
UnitsOf(page) == page * PAGE_SIZE .. (page + 1) * PAGE_SIZE - 1
PageOf(ptr) == ptr \div PAGE_SIZE

-----------------------------------------------------------------------------
(* kernel_main: pmm_init, heap_init and the reservation of the heap's pages.*)
Init ==
  /\ \E map \in MemoryMaps : Initialised(map, HeapPages)
  /\ blocks = [b \in {HeapBase} |->
                 [size |-> HEAP_PAGES * PAGE_SIZE - HEADER_SIZE,
                  is_free |-> TRUE, next |-> NULL, prev |-> NULL]]
  /\ next_fit_hint = HeapBase
  /\ slab_page = << >>
  /\ slab_pages = [c \in SlabSizes |-> << >>]
  /\ slab_page_addrs = {}
  /\ held = << >>
  /\ moving = NULL
  /\ failed = 0

Returned(ptr, n) ==
  /\ held' = [p \in DOMAIN held \cup {ptr} |-> IF p = ptr THEN n ELSE held[p]]
  /\ failed' = 0

-----------------------------------------------------------------------------
(* The slab pages.                                                          *)
ClassFor(n) == Min({c \in SlabSizes : n <= c})

(* The blocks of a page: aligned to their size, behind the header.          *)
Carved(page, c) == {page * PAGE_SIZE + k * c : k \in 1 .. PAGE_SIZE \div c - 1}

HasRoom(page) == slab_page[page].free_count > 0
WithRoom(c) == {i \in DOMAIN slab_pages[c] : HasRoom(slab_pages[c][i])}

Popped(header, ptr) ==
  [header EXCEPT !.free_list = @ \ {ptr}, !.free_count = @ - 1]

Recorded(page) ==
  IF Cardinality(slab_page_addrs) < MAX_SLAB_PAGES
    THEN slab_page_addrs \cup {page} ELSE slab_page_addrs

(* slab_alloc: the first page of the class with a free block.               *)
SlabAlloc(n) ==
  LET c == ClassFor(n)
      page == slab_pages[c][Min(WithRoom(c))]
  IN  /\ n <= SLAB_MAX_SIZE
      /\ WithRoom(c) # {}
      /\ \E ptr \in slab_page[page].free_list :
           /\ slab_page' = [slab_page EXCEPT ![page] = Popped(@, ptr)]
           /\ Returned(ptr, n)
      /\ UNCHANGED << pages, list, slab_pages, slab_page_addrs >>

(* ... or a new one, which becomes the head of the class's list.            *)
SlabNewPage(n) ==
  LET c == ClassFor(n)
  IN  /\ n <= SLAB_MAX_SIZE
      /\ WithRoom(c) = {}
      /\ \E page \in Page :
           /\ AllocPage(page)
           /\ \E ptr \in Carved(page, c) :
                /\ slab_page' =
                     [p \in DOMAIN slab_page \cup {page} |->
                        IF p # page THEN slab_page[p]
                        ELSE Popped([size_class |-> c,
                                     free_list |-> Carved(page, c),
                                     free_count |-> Cardinality(Carved(page, c))],
                                    ptr)]
                /\ Returned(ptr, n)
           /\ slab_pages' = [slab_pages EXCEPT ![c] = << page >> \o @]
           /\ slab_page_addrs' = Recorded(page)
      /\ UNCHANGED list

(* Neither: kmalloc turns to the list.                                      *)
NotFromSlab(n) ==
  n <= SLAB_MAX_SIZE => WithRoom(ClassFor(n)) = {} /\ NoPage

-----------------------------------------------------------------------------
(* The list.  The search visits every block once, from the hint on, and     *)
(* wraps at the end.                                                        *)
NoWrap(b) == IF blocks[b].next = NULL THEN b ELSE blocks[b].next
Following(b) == IF blocks[b].next = NULL THEN HeapBase ELSE blocks[b].next

Visits == 0 .. Cardinality(DOMAIN blocks) - 1
Visit[i \in Nat] == IF i = 0 THEN next_fit_hint ELSE Following(Visit[i - 1])

Fits(b, n) == blocks[b].is_free /\ blocks[b].size >= n
Fitting(n) == {i \in Visits : Fits(Visit[i], n)}

OneUnitMore(b, n) == blocks[b].size >= n + HEADER_SIZE
Splits(b, n) == blocks[b].size >= n + HEADER_SIZE + 1

(* The rest of a block that is split, and its links.                        *)
Rest(b, n) == b + HEADER_SIZE + n
RestSize(b, n) == blocks[b].size - n - HEADER_SIZE

Split(b, n) ==
  LET r == Rest(b, n)
      after == blocks[b].next
  IN  [a \in DOMAIN blocks \cup {r} |->
         CASE a = r -> [size |-> RestSize(b, n), is_free |-> TRUE,
                        next |-> after, prev |-> b]
           [] a = b -> [size |-> n, is_free |-> FALSE,
                        next |-> r, prev |-> blocks[b].prev]
           [] a = after -> [blocks[a] EXCEPT !.prev = r]
           [] OTHER -> blocks[a]]

Used(b, n) ==
  IF Splits(b, n) THEN Split(b, n) ELSE [blocks EXCEPT ![b].is_free = FALSE]

ListAlloc(n) ==
  /\ NotFromSlab(n)
  /\ Fitting(n) # {}
  /\ LET b == Visit[Min(Fitting(n))]
     IN  /\ blocks' = Used(b, n)
         /\ next_fit_hint' =
              IF blocks'[b].next # NULL THEN blocks'[b].next ELSE HeapBase
         /\ Returned(b + HEADER_SIZE, n)
  /\ UNCHANGED << pages, slab >>

ReturnsNull(n) ==
  /\ NotFromSlab(n)
  /\ Fitting(n) = {}
  /\ failed' = n
  /\ UNCHANGED << pages, slab, list, held >>

Kmalloc(n) == SlabAlloc(n) \/ SlabNewPage(n) \/ ListAlloc(n) \/ ReturnsNull(n)

-----------------------------------------------------------------------------
(* Block a takes in the block behind it.                                    *)
Absorb(bs, a) ==
  LET x == bs[a].next
  IN  [b \in DOMAIN bs \ {x} |->
         CASE b = a -> [bs[a] EXCEPT !.size = @ + HEADER_SIZE + bs[x].size,
                                     !.next = bs[x].next]
           [] b = bs[x].next -> [bs[b] EXCEPT !.prev = a]
           [] OTHER -> bs[b]]

FreeAfter(bs, b) == bs[b].next # NULL /\ bs[bs[b].next].is_free
ForwardOnly(bs, b) == FALSE
FreeBefore(bs, b) == bs[b].prev # NULL /\ bs[bs[b].prev].is_free

StaleHint(b) == next_fit_hint
HintAfter(b) ==
  LET forward == FreeAfter(blocks, b) /\ next_fit_hint = blocks[b].next
  IN  IF FreeBefore(blocks, b) /\ (forward \/ next_fit_hint = b)
        THEN blocks[b].prev
      ELSE IF forward THEN b ELSE next_fit_hint

ListFree(b) ==
  LET freed == [blocks EXCEPT ![b].is_free = TRUE]
      merged == IF FreeAfter(freed, b) THEN Absorb(freed, b) ELSE freed
  IN  /\ blocks' = IF FreeBefore(merged, b)
                     THEN Absorb(merged, merged[b].prev) ELSE merged
      /\ next_fit_hint' = HintAfter(b)
      /\ UNCHANGED slab

SlabFree(ptr) ==
  /\ slab_page' = [slab_page EXCEPT ![PageOf(ptr)].free_list = @ \cup {ptr},
                                    ![PageOf(ptr)].free_count = @ + 1]
  /\ UNCHANGED << list, slab_pages, slab_page_addrs >>

IsSlabPtr(ptr) == PageOf(ptr) \in slab_page_addrs
InHeap(ptr) == HeapBase + HEADER_SIZE <= ptr /\ ptr < HeapEnd

(* kfree of a block its caller holds.  A block of a slab page that was not  *)
(* recorded lies outside the heap and is ignored.                           *)
Kfree(ptr) ==
  /\ CASE IsSlabPtr(ptr) -> SlabFree(ptr)
       [] ~IsSlabPtr(ptr) /\ InHeap(ptr) -> ListFree(ptr - HEADER_SIZE)
       [] OTHER -> UNCHANGED << slab, list >>
  /\ held' = Restrict(held, DOMAIN held \ {ptr})
  /\ failed' = 0
  /\ UNCHANGED pages

(* kmalloc_usable_size.  In a slab page that was not recorded it reads the  *)
(* 16 bytes before the block: the page's header, or what somebody has       *)
(* written in the block before.                                             *)
UsableSize(ptr) ==
  CASE IsSlabPtr(ptr) -> {slab_page[PageOf(ptr)].size_class}
    [] ~IsSlabPtr(ptr) /\ InHeap(ptr) -> {blocks[ptr - HEADER_SIZE].size}
    [] OTHER -> {0} \cup Sizes

-----------------------------------------------------------------------------
(* The callers: kmalloc, kfree and realloc, which keeps a block that is     *)
(* large enough and otherwise allocates, copies and frees.                  *)
Malloc ==
  /\ moving = NULL
  /\ Cardinality(DOMAIN held) < MAX_HELD
  /\ \E n \in Sizes : Kmalloc(n)
  /\ UNCHANGED moving

Free ==
  /\ moving = NULL
  /\ \E ptr \in DOMAIN held : Kfree(ptr)
  /\ UNCHANGED moving

ReallocInPlace ==
  /\ moving = NULL
  /\ \E ptr \in DOMAIN held, n \in Sizes :
       /\ \E usable \in UsableSize(ptr) : n <= usable
       /\ held' = [held EXCEPT ![ptr] = n]
  /\ failed' = 0
  /\ UNCHANGED << pages, slab, list, moving >>

ReallocMoves ==
  /\ moving = NULL
  /\ Cardinality(DOMAIN held) < MAX_HELD
  /\ \E ptr \in DOMAIN held, n \in Sizes :
       /\ \E usable \in UsableSize(ptr) : n > usable
       /\ Kmalloc(n)
       /\ moving' = IF failed' = 0 THEN ptr ELSE NULL

ReallocFrees ==
  /\ moving # NULL
  /\ Kfree(moving)
  /\ moving' = NULL

Next == Malloc \/ Free \/ ReallocInPlace \/ ReallocMoves \/ ReallocFrees

Spec == Init /\ [][Next]_vars

-----------------------------------------------------------------------------
Links == DOMAIN blocks \cup {NULL}

TypeOK ==
  /\ PagesTypeOK
  /\ DOMAIN blocks \subseteq HeapUnits
  /\ \A b \in DOMAIN blocks :
       blocks[b] \in [size : Nat \ {0}, is_free : BOOLEAN, next : Nat, prev : Nat]
  /\ next_fit_hint \in Nat
  /\ DOMAIN slab_page \subseteq Page
  /\ \A p \in DOMAIN slab_page :
       /\ slab_page[p].size_class \in SlabSizes
       /\ slab_page[p].free_list \subseteq UnitsOf(p)
       /\ slab_page[p].free_count \in Nat
  /\ \A c \in SlabSizes : \A i \in DOMAIN slab_pages[c] :
       slab_pages[c][i] \in DOMAIN slab_page
  /\ slab_page_addrs \subseteq DOMAIN slab_page
  /\ DOMAIN held \subseteq Nat
  /\ \A ptr \in DOMAIN held : held[ptr] \in Sizes
  /\ moving \in DOMAIN held \cup {NULL}
  /\ failed \in Sizes \cup {0}

(* What a caller may write to.                                              *)
Owned(ptr) == ptr .. ptr + held[ptr] - 1

(* What the allocators rely on: the headers of blocks and of slab pages and *)
(* the chains of free blocks.                                               *)
Bookkeeping ==
  DOMAIN blocks \cup {p * PAGE_SIZE : p \in DOMAIN slab_page}
    \cup UNION {slab_page[p].free_list : p \in DOMAIN slab_page}

(* No memory is in two hands: what callers hold does not overlap, covers no *)
(* bookkeeping, lies in the heap or in a slab page and never in a page of   *)
(* the kernel; and no page serves the list heap and the slabs at once.      *)
NothingShared ==
  /\ \A p, q \in DOMAIN held : p # q => Owned(p) \cap Owned(q) = {}
  /\ \A p \in DOMAIN held :
       /\ Owned(p) \cap Bookkeeping = {}
       /\ \/ Owned(p) \subseteq HeapUnits
          \/ \E page \in DOMAIN slab_page : Owned(p) \subseteq UnitsOf(page)
  /\ DOMAIN slab_page \cap (Kernel \cup HeapPages) = {}

(* The list tiles the heap: each block ends where the next one begins, next *)
(* and prev agree, and the search starts at a block that still exists       *)
(* although blocks are absorbed by their neighbours.                        *)
Tiled ==
  /\ HeapBase \in DOMAIN blocks /\ blocks[HeapBase].prev = NULL
  /\ next_fit_hint \in DOMAIN blocks
  /\ \A b \in DOMAIN blocks :
       LET end == b + HEADER_SIZE + blocks[b].size
       IN  /\ blocks[b].prev \in Links /\ blocks[b].next \in Links
           /\ IF blocks[b].next = NULL THEN end = HeapEnd
              ELSE blocks[b].next = end /\ blocks[end].prev = b

(* Nothing is lost: a block in use has a holder who can free it, and free   *)
(* neighbours are merged, so that the heap is one block again when all have *)
(* freed what they hold; a slab page whose blocks are all free is full.     *)
NothingLost ==
  /\ \A b \in DOMAIN blocks :
       /\ ~blocks[b].is_free => b + HEADER_SIZE \in DOMAIN held
       /\ blocks[b].is_free /\ blocks[b].next # NULL
            => ~blocks[blocks[b].next].is_free
  /\ \A page \in slab_page_addrs :
       Carved(page, slab_page[page].size_class) \ slab_page[page].free_list
         = DOMAIN held \cap UnitsOf(page)

(* kmalloc returns NULL only if there is no block of that size anywhere:    *)
(* the next-fit searches leave no page and no block out.                    *)
FailsOnlyWhenFull ==
  failed # 0 =>
    /\ \A b \in DOMAIN blocks : ~Fits(b, failed)
    /\ failed <= SLAB_MAX_SIZE =>
         /\ bitmap = Page
         /\ \A page \in DOMAIN slab_page :
              slab_page[page].size_class = ClassFor(failed)
                => slab_page[page].free_list = {}

(* The counters that stand for a set: used_pages is the number of the bits  *)
(* set (provided no two entries of the memory map overlap), free_count the  *)
(* length of the chain it guards.                                           *)
CountsAgree ==
  /\ used_pages = Cardinality(bitmap)
  /\ \A page \in DOMAIN slab_page :
       slab_page[page].free_count = Cardinality(slab_page[page].free_list)
=============================================================================
