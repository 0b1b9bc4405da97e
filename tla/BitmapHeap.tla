----------------------------- MODULE BitmapHeap -----------------------------
(***************************************************************************)
(* The default memory manager (Kernel/memory_manager/mem_bitmap.c): one     *)
(* byte of state per page, first-fit allocation, and free by walking from   *)
(* the page of the pointer to the bounds of its block.  Every call runs to  *)
(* its end with interrupts disabled (system calls and boot), so a call is   *)
(* one action.  (The one caller with interrupts enabled, the exit of a       *)
(* process, is DEAD when it calls malloc: preempted there it never runs     *)
(* again, and the pages it marked stay marked.)                             *)
(***************************************************************************)
EXTENDS Integers, FiniteSets

CONSTANTS base_addres,   \* where init_mm puts the bitmap
          mem_ammount,   \* bytes init_mm is asked to manage
          PAGE_SIZE,     \* bytes per page
          Sizes          \* the byte counts callers pass to malloc

ASSUME HeapAssumption == /\ base_addres \in Nat \ {0}
                         /\ mem_ammount \in Nat
                         /\ PAGE_SIZE \in Nat \ {0}
                         /\ Sizes \subseteq Nat

\* Page states and results of the C enumeration.
FREE == "FREE"
ALLOCATED == "ALLOCATED"
START_PAGE_BOUND == "START_PAGE_BOUND"
END_PAGE_BOUND == "END_PAGE_BOUND"
SINGLE_PAGE == "SINGLE_PAGE"
INVALID_ADDRESS == -1
NULL == 0
VOID == -1   \* stands for the result of free, which has none

PageState == {FREE, ALLOCATED, START_PAGE_BOUND, END_PAGE_BOUND, SINGLE_PAGE}

size_to_num_of_pages(size) ==
  size \div PAGE_SIZE + (IF size % PAGE_SIZE # 0 THEN 1 ELSE 0)

\* The heap descriptor init_mm computes: the bitmap comes first, rounded up to
\* whole pages, then the managed pages.  (The test against MAX_MEM is settled
\* by the one call in kernel.c, whose amount fits.)
page_qty == size_to_num_of_pages(mem_ammount)
start == base_addres + size_to_num_of_pages(page_qty) * PAGE_SIZE
end == start + page_qty * PAGE_SIZE

VARIABLES pages,    \* heap_struct.pages
          blocks,   \* history: the blocks handed out and not given back
          arg,      \* history: the pages or the pointer the last call was given
          ret       \* what the last call returned

vars == <<pages, blocks, arg, ret>>

PageIndex == 0 .. (page_qty - 1)

\* Pointers callers pass to free: any address below, in and just behind the heap.
Pointers == 0 .. (end + 1)

address(i) == start + i * PAGE_SIZE

PagesOf(b) == b.first .. (b.first + b.n - 1)

\* Mutants of FreeRun: the last page of the run, or of the heap, is not looked at.
FreeRunShort(i, n) == i + n =< page_qty /\ \A j \in i .. (i + n - 2) : pages[j] = FREE

FreeRunNotLast(i, n) == i + n < page_qty /\ \A j \in i .. (i + n - 1) : pages[j] = FREE

FreeRun(i, n) == i + n =< page_qty /\ \A j \in i .. (i + n - 1) : pages[j] = FREE

\* Mutants of find_pages: a request of no page succeeds; the last run is taken.
find_pages_none_needed(pages_needed) ==
  LET found == {i \in PageIndex : FreeRun(i, pages_needed)}
  IN  IF found = {} THEN INVALID_ADDRESS
      ELSE CHOOSE i \in found : \A j \in found : i =< j

find_pages_last_fit(pages_needed) ==
  LET found == {i \in PageIndex : FreeRun(i, pages_needed)}
  IN  IF pages_needed = 0 \/ found = {}
        THEN INVALID_ADDRESS
        ELSE CHOOSE i \in found : \A j \in found : j =< i

\* The scan counts consecutive free pages and stops at the first run of
\* pages_needed; with pages_needed = 0 the count, incremented before it is
\* compared, never matches.  last_freed_page is never assigned after init_mm,
\* so malloc's two scans both start at page 0.
find_pages(pages_needed) ==
  LET found == {i \in PageIndex : FreeRun(i, pages_needed)}
  IN  IF pages_needed = 0 \/ found = {}
        THEN INVALID_ADDRESS
        ELSE CHOOSE i \in found : \A j \in found : i =< j

\* The loop of find_pages as it is written: at page i, with pages_found free
\* pages just behind it.
scan_pages(pages_needed) ==
  LET loop[i \in Nat] ==
        [pages_found \in Nat |->
           IF i >= page_qty THEN INVALID_ADDRESS
           ELSE IF pages[i] # FREE THEN loop[i + 1][0]
           ELSE IF pages_found + 1 = pages_needed THEN i - pages_needed + 1
           ELSE loop[i + 1][pages_found + 1]]
  IN  loop[0][0]

\* The byte malloc writes for page i of a block of n pages starting at f.
Mark(f, n, i) ==
  IF i = f THEN IF n = 1 THEN SINGLE_PAGE ELSE START_PAGE_BOUND
  ELSE IF i = f + n - 1 THEN END_PAGE_BOUND
  ELSE ALLOCATED

MarkedPages(f, n) ==
  [i \in PageIndex |-> IF i \in f .. (f + n - 1) THEN Mark(f, n, i) ELSE pages[i]]

get_page_index(mem) ==
  IF mem > end \/ mem < start THEN INVALID_ADDRESS
                              ELSE (mem - start) \div PAGE_SIZE

\* Walks down to the nearest START_PAGE_BOUND, unless already on the first page.
get_first_page_index(i) ==
  IF pages[i] \in {SINGLE_PAGE, START_PAGE_BOUND} THEN i
  ELSE CHOOSE s \in 0 .. i : /\ pages[s] = START_PAGE_BOUND
                             /\ \A j \in (s + 1) .. i : pages[j] # START_PAGE_BOUND

\* Walks up from page i to the nearest END_PAGE_BOUND.
last_page_index(i) ==
  CHOOSE e \in i .. (page_qty - 1) : /\ pages[e] = END_PAGE_BOUND
                                     /\ \A j \in i .. (e - 1) : pages[j] # END_PAGE_BOUND

\* Mutant of ClearedPages: the END page is left behind.
ClearedPagesButEnd(f, l) == [i \in PageIndex |-> IF i \in f .. (l - 1) THEN FREE ELSE pages[i]]

ClearedPages(f, l) == [i \in PageIndex |-> IF i \in f .. l THEN FREE ELSE pages[i]]

-----------------------------------------------------------------------------
Init == /\ pages = [i \in PageIndex |-> FREE]
        /\ blocks = {}
        /\ arg = 0
        /\ ret = NULL

malloc(size) ==
  LET n == size_to_num_of_pages(size)
      f == find_pages(n)
  IN  /\ arg' = n
      /\ \/ /\ f # INVALID_ADDRESS
            /\ pages' = MarkedPages(f, n)
            /\ blocks' = blocks \cup {[first |-> f, n |-> n]}
            /\ ret' = address(f)
         \/ /\ f = INVALID_ADDRESS
            /\ ret' = NULL
            /\ UNCHANGED <<pages, blocks>>

\* free of a pointer into a block of one page, of several pages, or into no
\* block at all (the two messages "Invalid address").
FreeSingle(i) == /\ pages[i] = SINGLE_PAGE
                 /\ pages' = [pages EXCEPT ![i] = FREE]

FreeRange(i) == /\ pages[i] \notin {FREE, SINGLE_PAGE}
                /\ LET f == get_first_page_index(i)
                   IN  pages' = ClearedPages(f, last_page_index(f))

\* The pages from f to l are given back, whoever holds them.
GivesBack(f, l) == /\ pages' = ClearedPages(f, l)
                   /\ blocks' = {b \in blocks : b.first \notin f .. l}

Bounds(state) == {i \in PageIndex : pages[i] = state}

\* free of end, which get_page_index takes for a page: pages[page_qty] is the byte
\* behind the bitmap, padding or the first byte of somebody's page.  Where it
\* reads FREE, SINGLE_PAGE or START_PAGE_BOUND the bitmap is left alone; where it
\* reads END_PAGE_BOUND or ALLOCATED the walk down ends on the last
\* START_PAGE_BOUND; else, or without such a page, free starts below the bitmap
\* and clears up to the first END_PAGE_BOUND it meets, there or in the bitmap.
FreeEnd ==
  \/ UNCHANGED <<pages, blocks>>
  \/ \E f \in Bounds(START_PAGE_BOUND) : /\ \A s \in Bounds(START_PAGE_BOUND) : s =< f
                                         /\ GivesBack(f, last_page_index(f))
  \/ \E l \in Bounds(END_PAGE_BOUND) : /\ \A e \in Bounds(END_PAGE_BOUND) : l =< e
                                       /\ GivesBack(0, l)
  \/ Bounds(END_PAGE_BOUND) = {} /\ GivesBack(0, page_qty - 1)

free(mem) ==
  LET i == get_page_index(mem)
  IN  /\ arg' = mem
      /\ ret' = VOID
      /\ \/ /\ i \in PageIndex
            /\ FreeSingle(i) \/ FreeRange(i)
            /\ blocks' = {b \in blocks : i \notin PagesOf(b)}
         \/ i = page_qty /\ FreeEnd
         \/ /\ i # page_qty /\ (i # INVALID_ADDRESS => pages[i] = FREE)
            /\ UNCHANGED <<pages, blocks>>

Next == \/ \E size \in Sizes : malloc(size)
        \/ \E mem \in Pointers : free(mem)

Spec == Init /\ [][Next]_vars

-----------------------------------------------------------------------------
TypeOK == /\ pages \in [PageIndex -> PageState]
          /\ blocks \subseteq [first : PageIndex, n : 1 .. page_qty]
          /\ \A b \in blocks : b.first + b.n =< page_qty
          /\ arg \in Nat
          /\ ret \in Nat \cup {VOID}

\* No two blocks that were handed out and not given back share a page: malloc
\* never hands out memory of a block that no free was called for, or reached,
\* whatever the order of earlier mallocs and frees.
BlocksDisjoint ==
  \A b, c \in blocks : b # c => PagesOf(b) \cap PagesOf(c) = {}

\* The bitmap describes exactly the blocks not given back: each is a
\* SINGLE_PAGE, or START .. ALLOCATED .. END, and every other page is FREE, so
\* the walks of free stay inside the block they start in and no page leaks; free
\* of end gives back whole blocks, if not its caller's.
BitmapDescribesBlocks ==
  /\ \A b \in blocks : \A i \in PagesOf(b) : pages[i] = Mark(b.first, b.n, i)
  /\ \A i \in PageIndex : (\A b \in blocks : i \notin PagesOf(b)) => pages[i] = FREE

\* The counting loop of find_pages finds the first run that is long enough, on
\* every bitmap that mallocs and frees can produce and for every request.
ScanIsFirstFit ==
  \A size \in Sizes : LET n == size_to_num_of_pages(size)
                      IN  scan_pages(n) = find_pages(n)

\* The bitmap heap implements the abstract heap.
AbstractHeap == INSTANCE Heap WITH PageQty <- page_qty,
                                   Addr <- address,
                                   Counts <- {size_to_num_of_pages(s) : s \in Sizes},
                                   Pointers <- Pointers

\* malloc and free keep the promises of the abstract heap: in particular malloc
\* fails only when no run of free pages is long enough, and free of any pointer
\* into a block releases that block and no other, of any other pointer nothing,
\* with one exception: free of end may give back blocks of others.
ImplementsHeap == AbstractHeap!Spec
=============================================================================
