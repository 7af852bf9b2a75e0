------------------------------- MODULE Pages -------------------------------
(***************************************************************************)
(* The physical page allocator of kernel/pmm.c: a bitmap filled from the    *)
(* BIOS memory map, a count of the pages in use, and a next-fit search that *)
(* goes through the bitmap byte by byte.                                    *)
(*                                                                          *)
(* Addresses are counted in units of 16 bytes, the grain of the heap above. *)
(* The bitmap is the set of the pages whose bit is 1.  pmm_free_page has no *)
(* caller and is left out; so are the totals, which are only displayed.     *)
(*                                                                          *)
(* Uncounted is a wrong variant of the definition behind it; no action uses *)
(* it.  It is there to see that the properties notice.                      *)
(***************************************************************************)
EXTENDS Integers, Sequences, FiniteSets, FiniteSetsExt

CONSTANTS
  MAX_PAGES,   \* pages the bitmap covers
  PAGE_SIZE,   \* units in a page
  BYTE,        \* pages to a byte of the bitmap
  WORD,        \* where 32-bit addresses wrap
  LOW_PAGES,   \* pages of the first megabyte
  KERNEL_END,  \* address behind the kernel
  MemoryMaps   \* what the BIOS may report: sequences of E820 entries

ASSUME PagesAssumption ==
  /\ {MAX_PAGES, PAGE_SIZE, BYTE, WORD, LOW_PAGES, KERNEL_END} \subseteq Nat
  /\ PAGE_SIZE > 0 /\ BYTE > 0 /\ LOW_PAGES > 0
  /\ MAX_PAGES * PAGE_SIZE <= WORD
  /\ MAX_PAGES % BYTE = 0
  /\ \A map \in MemoryMaps : IsFiniteSet(DOMAIN map) /\ \A i \in DOMAIN map :
       map[i].base \in Nat /\ map[i].length \in Nat /\ map[i].usable \in BOOLEAN

VARIABLES
  bitmap,          \* the pages in use
  used_pages,      \* their number
  last_alloc_hint  \* where the search starts

pages == << bitmap, used_pages, last_alloc_hint >>

Page == 0 .. MAX_PAGES - 1
RoundUp(addr) == (addr + PAGE_SIZE - 1) \div PAGE_SIZE

-----------------------------------------------------------------------------
(* The pages a usable entry frees.  Its 64-bit base and length are cut to   *)
(* 32 bits, its first page is rounded up and its last one down.             *)
Frees(entry) ==
  LET base == entry.base % WORD
      end == (base + (entry.length % WORD)) % WORD
      first == ((base + PAGE_SIZE - 1) % WORD) \div PAGE_SIZE
  IN  IF entry.usable
        THEN {p \in Page : first <= p /\ p < end \div PAGE_SIZE}
        ELSE {}

FreedBy(map) == UNION {Frees(map[i]) : i \in DOMAIN map}

(* The first megabyte and the kernel.                                       *)
Kernel == {p \in Page : p < LOW_PAGES \/ p < RoundUp(KERNEL_END)}

(* pmm_init, then pmm_reserve_page for each page of `reserved`.  A page two *)
(* entries free is counted twice.                                           *)
Initialised(map, reserved) ==
  /\ bitmap = (Page \ FreedBy(map)) \cup Kernel \cup reserved
  /\ used_pages = MAX_PAGES
                  - Cardinality({e \in (DOMAIN map) \X Page : e[2] \in Frees(map[e[1]])})
                  + Cardinality((Kernel \cup reserved) \cap FreedBy(map))
  /\ last_alloc_hint = 0

(* The search: from the byte of the hint to the end, then from the start.   *)
FreePages == Page \ bitmap
FirstPass == {p \in FreePages : p \div BYTE >= last_alloc_hint \div BYTE}
Found == IF FirstPass # {} THEN FirstPass ELSE FreePages

Uncounted(page) == used_pages
Counted(page) == used_pages + 1

(* pmm_alloc_page, when it returns a page, and when it returns 0.           *)
AllocPage(page) ==
  /\ page \in Found
  /\ page = Min(Found)
  /\ bitmap' = bitmap \cup {page}
  /\ used_pages' = Counted(page)
  /\ last_alloc_hint' = page + 1

NoPage == Found = {}

-----------------------------------------------------------------------------
PagesTypeOK ==
  /\ bitmap \subseteq Page
  /\ used_pages \in Int
  /\ last_alloc_hint \in 0 .. MAX_PAGES
=============================================================================
