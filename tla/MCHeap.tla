------------------------------- MODULE MCHeap -------------------------------
(* Small instances of the heap and the page allocator.  Pages have four     *)
(* units; the kernel takes two pages, the heap four.  One memory map has a  *)
(* hole, ends inside a page and has an entry above the 32-bit limit; the    *)
(* other has no page left for slabs.                                        *)
EXTENDS Heap

Entry(first, size, ok) == [base |-> first, length |-> size, usable |-> ok]

Maps == {<< Entry(0, 28, TRUE), Entry(28, 2, FALSE), Entry(30, 9, TRUE),
            Entry(64, 3, TRUE) >>,
         << Entry(0, 27, TRUE) >>}
=============================================================================
