-------------------------- MODULE BitmapHeapProofs --------------------------
(***************************************************************************)
(* Proofs about BitmapHeap for every heap size, page size and set of        *)
(* request sizes.                                                           *)
(***************************************************************************)
EXTENDS BitmapHeap, WellFoundedInduction, TLAPS

\* The inductive invariant: disjointness and the bitmap each need the other.
HeapInv == TypeOK /\ BlocksDisjoint /\ BitmapDescribesBlocks

\* A nonempty set of naturals has a smallest member.
LEMMA SmallestExists ==
  ASSUME NEW S, S \subseteq Nat, S # {}
  PROVE  \E i \in S : \A j \in S : i =< j
<1>. DEFINE R == OpToRel(<, Nat)
<1>1. \A j, i \in Nat : j < i => <<j, i>> \in R
  BY DEF OpToRel
<1>2. IsWellFoundedOn(R, Nat)
  BY NatLessThanWellFounded
<1>. HIDE DEF R
<1>3. \E i \in S : \A j \in S : ~(<<j, i>> \in R)
  BY <1>2, WFMin, Zenon
<1>4. PICK i \in S : \A j \in S : ~(<<j, i>> \in R)
  BY <1>3
<1>5. ASSUME NEW j \in S PROVE i =< j
  <2>1. i \in Nat /\ j \in Nat /\ ~(<<j, i>> \in R)
    BY <1>4, <1>5
  <2>2. ~(j < i)
    BY <1>1, <2>1
  <2>. QED  BY <2>1, <2>2
<1>. QED  BY <1>5

\* Rounding a byte count up to pages yields a page count that covers it.
LEMMA PagesCover ==
  ASSUME NEW size \in Nat
  PROVE  /\ size_to_num_of_pages(size) \in Nat
         /\ size =< size_to_num_of_pages(size) * PAGE_SIZE
<1>1. /\ size \div PAGE_SIZE \in Nat
      /\ size % PAGE_SIZE \in 0 .. (PAGE_SIZE - 1)
      /\ size = PAGE_SIZE * (size \div PAGE_SIZE) + (size % PAGE_SIZE)
  BY HeapAssumption
<1>2. (size \div PAGE_SIZE + 1) * PAGE_SIZE = PAGE_SIZE * (size \div PAGE_SIZE) + PAGE_SIZE
  BY <1>1, HeapAssumption
<1>. QED  BY <1>1, <1>2, HeapAssumption DEF size_to_num_of_pages

\* The quotient of an offset below q pages is the index of one of the q pages.
LEMMA IndexInRange ==
  ASSUME NEW q \in Nat, NEW a \in Nat, a < q * PAGE_SIZE
  PROVE  a \div PAGE_SIZE \in 0 .. (q - 1)
<1>1. /\ a \div PAGE_SIZE \in Nat
      /\ a % PAGE_SIZE \in 0 .. (PAGE_SIZE - 1)
      /\ a = PAGE_SIZE * (a \div PAGE_SIZE) + (a % PAGE_SIZE)
  BY HeapAssumption
<1>2. SUFFICES ASSUME a \div PAGE_SIZE >= q PROVE FALSE
  BY <1>1
<1>3. PAGE_SIZE * (a \div PAGE_SIZE) >= PAGE_SIZE * q
  BY <1>1, <1>2, HeapAssumption
<1>. QED  BY <1>1, <1>3, HeapAssumption

\* An offset lies below q pages exactly when its quotient is below q.
LEMMA QuotientBound ==
  ASSUME NEW q \in Nat, NEW a \in Nat
  PROVE  a < q * PAGE_SIZE <=> a \div PAGE_SIZE < q
<1>1. /\ a \div PAGE_SIZE \in Nat
      /\ a % PAGE_SIZE \in 0 .. (PAGE_SIZE - 1)
      /\ a = PAGE_SIZE * (a \div PAGE_SIZE) + (a % PAGE_SIZE)
  BY HeapAssumption
<1>2. ASSUME a < q * PAGE_SIZE PROVE a \div PAGE_SIZE < q
  BY <1>1, <1>2, IndexInRange
<1>3. ASSUME a \div PAGE_SIZE < q PROVE a < q * PAGE_SIZE
  <2>1. PAGE_SIZE * (a \div PAGE_SIZE + 1) =< PAGE_SIZE * q
    BY <1>1, <1>3, HeapAssumption
  <2>2. PAGE_SIZE * (a \div PAGE_SIZE + 1) = PAGE_SIZE * (a \div PAGE_SIZE) + PAGE_SIZE
    BY <1>1, HeapAssumption
  <2>3. PAGE_SIZE * q = q * PAGE_SIZE
    BY HeapAssumption
  <2>. QED  BY <1>1, <2>1, <2>2, <2>3, HeapAssumption
<1>. QED  BY <1>2, <1>3

\* init_mm: the heap has a start and an end, and every page has an address.
LEMMA HeapGeometry ==
  /\ page_qty \in Nat
  /\ start \in Nat /\ start > 0
  /\ end \in Nat /\ start =< end
  /\ \A i \in PageIndex : address(i) \in Nat
<1>1. page_qty \in Nat
  BY PagesCover, HeapAssumption DEF page_qty
<1>2. size_to_num_of_pages(page_qty) * PAGE_SIZE \in Nat
  BY <1>1, PagesCover, HeapAssumption
<1>3. start \in Nat /\ start > 0
  BY <1>2, HeapAssumption DEF start
<1>4. page_qty * PAGE_SIZE \in Nat
  BY <1>1, HeapAssumption
<1>5. \A i \in PageIndex : address(i) \in Nat
  BY <1>1, <1>3, HeapAssumption DEF address, PageIndex
<1>. QED  BY <1>1, <1>3, <1>4, <1>5 DEF end

\* get_page_index maps every pointer below the end of the heap to a page, and
\* the end itself to the page behind the last.
LEMMA GoodIndex ==
  ASSUME NEW mem \in Pointers
  PROVE  /\ mem < start \/ mem > end => get_page_index(mem) = INVALID_ADDRESS
         /\ mem = end => get_page_index(mem) = page_qty
         /\ start =< mem /\ mem < end => get_page_index(mem) \in PageIndex
<1>0. mem \in Int /\ start \in Nat /\ end \in Nat /\ start =< end /\ page_qty \in Nat
  BY HeapGeometry DEF Pointers
<1>1. ASSUME mem < start \/ mem > end PROVE get_page_index(mem) = INVALID_ADDRESS
  BY <1>0, <1>1 DEF get_page_index
<1>2. ASSUME start =< mem, mem =< end
      PROVE  /\ mem - start \in Nat
             /\ get_page_index(mem) = (mem - start) \div PAGE_SIZE
             /\ (mem - start) \div PAGE_SIZE \in Nat
             /\ mem < end <=> mem - start < page_qty * PAGE_SIZE
             /\ mem = end <=> mem - start = page_qty * PAGE_SIZE
  <2>1. page_qty * PAGE_SIZE \in Nat
    BY <1>0, HeapAssumption
  <2>. QED  BY <1>0, <1>2, <2>1, HeapAssumption DEF get_page_index, end
<1>3. ASSUME start =< mem, mem < end PROVE get_page_index(mem) \in PageIndex
  BY <1>0, <1>2, <1>3, IndexInRange DEF PageIndex
<1>4. ASSUME mem = end PROVE get_page_index(mem) = page_qty
  <2>. DEFINE a == mem - start
  <2>1. /\ a \in Nat /\ a = page_qty * PAGE_SIZE
        /\ get_page_index(mem) = a \div PAGE_SIZE /\ a \div PAGE_SIZE \in Nat
    BY <1>0, <1>2, <1>4
  <2>2. (page_qty + 1) * PAGE_SIZE = page_qty * PAGE_SIZE + PAGE_SIZE /\ page_qty + 1 \in Nat
    BY <1>0, HeapAssumption
  <2>. HIDE DEF a
  <2>3. ~(a < page_qty * PAGE_SIZE) /\ a < (page_qty + 1) * PAGE_SIZE
    BY <1>0, <2>1, <2>2, HeapAssumption
  <2>4. ~(a \div PAGE_SIZE < page_qty) /\ a \div PAGE_SIZE < page_qty + 1
    BY <1>0, <2>1, <2>2, <2>3, QuotientBound
  <2>. QED  BY <1>0, <2>1, <2>4
<1>. QED  BY <1>1, <1>3, <1>4

\* The bitmap init_mm puts below the pages never reaches into them.
THEOREM BitmapBelowPages == base_addres + page_qty =< start
<1>1. page_qty =< size_to_num_of_pages(page_qty) * PAGE_SIZE
  BY HeapGeometry, PagesCover
<1>. QED  BY <1>1, HeapGeometry, PagesCover, HeapAssumption DEF start

-----------------------------------------------------------------------------
\* Every page of a live block is a page of the heap.
LEMMA BlockPages ==
  ASSUME TypeOK, NEW b \in blocks
  PROVE  /\ PagesOf(b) \subseteq PageIndex
         /\ b.first \in PagesOf(b)
         /\ b.first \in Int /\ b.n \in Nat /\ b.n > 0
<1>1. page_qty \in Nat
  BY HeapGeometry
<1>2. /\ b.first \in PageIndex /\ b.n \in 1 .. page_qty /\ b.first + b.n =< page_qty
  BY DEF TypeOK
<1>. QED  BY <1>1, <1>2 DEF PagesOf, PageIndex

\* A successful find_pages returns a page from which pages_needed pages are free.
LEMMA FoundRunIsFree ==
  ASSUME NEW n \in Nat, find_pages(n) # INVALID_ADDRESS
  PROVE  /\ n > 0
         /\ find_pages(n) \in PageIndex
         /\ FreeRun(find_pages(n), n)
<1>. DEFINE found == {i \in PageIndex : FreeRun(i, n)}
<1>1. n > 0 /\ found # {}
  BY DEF find_pages
<1>2. \E i \in found : \A j \in found : i =< j
  <2>1. found \subseteq Nat
    BY HeapGeometry DEF PageIndex
  <2>. HIDE DEF found
  <2>. QED  BY <1>1, <2>1, SmallestExists
<1>3. find_pages(n) \in found
  BY <1>1, <1>2 DEF find_pages
<1>. QED  BY <1>1, <1>3

\* The walk of get_first_page_index ends on the first page of the block it
\* starts in.
LEMMA FirstPage ==
  ASSUME HeapInv, NEW b \in blocks, NEW i \in PagesOf(b), b.n > 1
  PROVE  get_first_page_index(i) = b.first
<1>1. i \in PageIndex /\ i \in Int /\ b.first \in Nat /\ b.n \in Nat /\ b.first =< i
  BY BlockPages, HeapGeometry DEF HeapInv, PagesOf, PageIndex
<1>2. \A j \in PagesOf(b) : pages[j] = Mark(b.first, b.n, j)
  BY DEF HeapInv, BitmapDescribesBlocks
<1>3. \A j \in PagesOf(b) : pages[j] = START_PAGE_BOUND <=> j = b.first
  BY <1>1, <1>2 DEF Mark, PagesOf, START_PAGE_BOUND, SINGLE_PAGE, END_PAGE_BOUND, ALLOCATED
<1>4. pages[i] # SINGLE_PAGE
  BY <1>1, <1>2 DEF Mark, START_PAGE_BOUND, SINGLE_PAGE, END_PAGE_BOUND, ALLOCATED
<1>5. CASE i = b.first
  BY <1>3, <1>5 DEF get_first_page_index
<1>6. CASE i # b.first
  <2>. DEFINE Good(s) == /\ pages[s] = START_PAGE_BOUND
                         /\ \A j \in (s + 1) .. i : pages[j] # START_PAGE_BOUND
  <2>1. b.first \in 0 .. i /\ \A j \in b.first .. i : j \in PagesOf(b)
    BY <1>1 DEF PagesOf
  <2>2. Good(b.first)
    BY <1>1, <1>3, <2>1
  <2>3. \A s \in 0 .. i : Good(s) => s = b.first
    <3>1. SUFFICES ASSUME NEW s \in 0 .. i, Good(s), s # b.first PROVE FALSE
      OBVIOUS
    <3>2. CASE s < b.first
      BY <1>1, <1>3, <2>1, <3>1, <3>2
    <3>3. CASE s > b.first
      BY <1>1, <1>3, <2>1, <3>1, <3>3
    <3>. QED  BY <1>1, <3>1, <3>2, <3>3
  <2>4. get_first_page_index(i) = CHOOSE s \in 0 .. i : Good(s)
    BY <1>3, <1>4, <1>6 DEF get_first_page_index
  <2>. HIDE DEF Good
  <2>. QED  BY <2>1, <2>2, <2>3, <2>4
<1>. QED  BY <1>5, <1>6

\* The walk of free ends on the last page of the block it starts in.
LEMMA LastPage ==
  ASSUME HeapInv, NEW b \in blocks, b.n > 1
  PROVE  last_page_index(b.first) = b.first + b.n - 1
<1>. DEFINE l == b.first + b.n - 1
            Good(e) == /\ pages[e] = END_PAGE_BOUND
                       /\ \A j \in b.first .. (e - 1) : pages[j] # END_PAGE_BOUND
<1>1. /\ b.first \in Nat /\ b.n \in Nat /\ l \in Nat /\ page_qty \in Nat
      /\ PagesOf(b) = b.first .. l
      /\ l \in b.first .. (page_qty - 1)
  <2>1. page_qty \in Nat
    BY HeapGeometry
  <2>2. b.first \in PageIndex /\ b.n \in 1 .. page_qty /\ b.first + b.n =< page_qty
    BY DEF HeapInv, TypeOK
  <2>. QED  BY <2>1, <2>2 DEF PagesOf, PageIndex
<1>2. \A j \in PagesOf(b) : pages[j] = Mark(b.first, b.n, j)
  BY DEF HeapInv, BitmapDescribesBlocks
<1>3. \A j \in PagesOf(b) : pages[j] = END_PAGE_BOUND <=> j = l
  BY <1>1, <1>2 DEF Mark, START_PAGE_BOUND, SINGLE_PAGE, END_PAGE_BOUND, ALLOCATED
<1>4. Good(l)
  BY <1>1, <1>3
<1>5. \A e \in b.first .. (page_qty - 1) : Good(e) => e = l
  <2>1. SUFFICES ASSUME NEW e \in b.first .. (page_qty - 1), Good(e), e # l PROVE FALSE
    OBVIOUS
  <2>2. CASE e < l
    BY <1>1, <1>3, <2>1, <2>2
  <2>3. CASE e > l
    BY <1>1, <1>3, <2>1, <2>3
  <2>. QED  BY <1>1, <2>1, <2>2, <2>3
<1>6. last_page_index(b.first) = CHOOSE e \in b.first .. (page_qty - 1) : Good(e)
  BY DEF last_page_index
<1>. HIDE DEF Good
<1>. QED  BY <1>1, <1>4, <1>5, <1>6

-----------------------------------------------------------------------------
\* A page a block owns is not FREE, so a run of free pages avoids every block.
LEMMA FreeRunAvoidsBlocks ==
  ASSUME HeapInv, NEW f \in PageIndex, NEW n \in Nat, FreeRun(f, n), NEW b \in blocks
  PROVE  PagesOf(b) \cap (f .. (f + n - 1)) = {}
<1>1. \A i \in PagesOf(b) : pages[i] # FREE
  BY DEF HeapInv, BitmapDescribesBlocks, Mark,
         FREE, START_PAGE_BOUND, SINGLE_PAGE, END_PAGE_BOUND, ALLOCATED
<1>. QED  BY <1>1 DEF FreeRun

\* What a successful malloc does to the blocks and the bitmap.
LEMMA MallocPreserves ==
  ASSUME HeapInv, NEW size \in Sizes, malloc(size)
  PROVE  HeapInv'
<1>. DEFINE n == size_to_num_of_pages(size)
            f == find_pages(n)
            nb == [first |-> f, n |-> n]
<1>1. n \in Nat
  BY PagesCover, HeapAssumption
<1>2. CASE f = INVALID_ADDRESS
  <2>1. UNCHANGED <<pages, blocks>> /\ ret' = 0
    BY <1>2 DEF malloc, NULL
  <2>2. arg' \in Nat
    BY <1>1 DEF malloc
  <2>. QED  BY <2>1, <2>2 DEF HeapInv, TypeOK, BlocksDisjoint, BitmapDescribesBlocks, PagesOf, Mark
<1>3. CASE f # INVALID_ADDRESS
  <2>1. n > 0 /\ f \in PageIndex /\ FreeRun(f, n)
    BY <1>1, <1>3, FoundRunIsFree
  <2>2. /\ pages' = MarkedPages(f, n)
        /\ blocks' = blocks \cup {nb}
        /\ arg' = n
        /\ ret' = address(f)
    BY <1>3 DEF malloc
  <2>3. /\ PagesOf(nb) = f .. (f + n - 1)
        /\ f + n =< page_qty
        /\ nb \in [first : PageIndex, n : 1 .. page_qty]
    <3>1. f + n =< page_qty
      BY <2>1 DEF FreeRun
    <3>. HIDE DEF f, n
    <3>. QED  BY <1>1, <2>1, <3>1, HeapGeometry DEF PageIndex, PagesOf
  <2>. HIDE DEF f, n
  <2>4. TypeOK'
    <3>1. pages' \in [PageIndex -> PageState]
      BY <2>2 DEF MarkedPages, Mark, HeapInv, TypeOK, PageState
    <3>2. /\ blocks' \subseteq [first : PageIndex, n : 1 .. page_qty]
          /\ \A b \in blocks' : b.first + b.n =< page_qty
      BY <2>2, <2>3 DEF HeapInv, TypeOK
    <3>3. arg' \in Nat /\ ret' \in Nat
      BY <1>1, <2>1, <2>2, HeapGeometry
    <3>. QED  BY <3>1, <3>2, <3>3 DEF TypeOK
  <2>5. \A b \in blocks : PagesOf(b) \cap PagesOf(nb) = {}
    BY <1>1, <2>1, <2>3, FreeRunAvoidsBlocks
  <2>6. BlocksDisjoint'
    BY <2>2, <2>5 DEF HeapInv, BlocksDisjoint, PagesOf
  <2>7. BitmapDescribesBlocks'
    <3>1. ASSUME NEW b \in blocks', NEW i \in PagesOf(b)
          PROVE  pages'[i] = Mark(b.first, b.n, i)
      <4>1. CASE b = nb
        <5>1. i \in PageIndex /\ i \in f .. (f + n - 1)
          BY <1>1, <2>1, <2>3, <3>1, <4>1, HeapGeometry DEF PageIndex
        <5>. QED  BY <2>2, <4>1, <5>1 DEF MarkedPages
      <4>2. CASE b \in blocks
        <5>1. i \in PageIndex /\ i \notin f .. (f + n - 1)
          BY <2>3, <2>5, <3>1, <4>2, BlockPages DEF HeapInv
        <5>2. pages'[i] = pages[i]
          BY <2>2, <5>1 DEF MarkedPages
        <5>. QED  BY <3>1, <4>2, <5>2 DEF HeapInv, BitmapDescribesBlocks
      <4>. QED  BY <2>2, <4>1, <4>2
    <3>2. ASSUME NEW i \in PageIndex, \A b \in blocks' : i \notin PagesOf(b)
          PROVE  pages'[i] = FREE
      <4>1. i \notin f .. (f + n - 1) /\ \A b \in blocks : i \notin PagesOf(b)
        BY <2>2, <2>3, <3>2
      <4>2. pages'[i] = pages[i]
        BY <2>2, <4>1 DEF MarkedPages
      <4>. QED  BY <4>1, <4>2 DEF HeapInv, BitmapDescribesBlocks
    <3>. QED  BY <3>1, <3>2 DEF BitmapDescribesBlocks, PagesOf, Mark
  <2>. QED  BY <2>4, <2>6, <2>7 DEF HeapInv
<1>. QED  BY <1>2, <1>3

\* free of a pointer into page i frees the pages of the block that owns i.
LEMMA FreeClearsOwner ==
  ASSUME HeapInv, NEW i \in PageIndex, FreeSingle(i) \/ FreeRange(i)
  PROVE  \E b \in blocks :
           /\ i \in PagesOf(b)
           /\ pages' = [j \in PageIndex |-> IF j \in PagesOf(b) THEN FREE ELSE pages[j]]
<1>1. pages[i] # FREE
  BY DEF FreeSingle, FreeRange, FREE, SINGLE_PAGE
<1>2. PICK b \in blocks : i \in PagesOf(b)
  BY <1>1 DEF HeapInv, BitmapDescribesBlocks
<1>3. /\ b.first \in Nat /\ b.n \in Nat /\ b.n > 0
      /\ pages[i] = Mark(b.first, b.n, i)
      /\ PagesOf(b) = b.first .. (b.first + b.n - 1)
  <2>1. b.first \in PageIndex /\ page_qty \in Nat
    BY HeapGeometry DEF HeapInv, TypeOK
  <2>2. b.n \in Nat /\ b.n > 0
    BY BlockPages DEF HeapInv
  <2>3. pages[i] = Mark(b.first, b.n, i)
    BY <1>2 DEF HeapInv, BitmapDescribesBlocks
  <2>. QED  BY <2>1, <2>2, <2>3 DEF PageIndex, PagesOf
<1>4. CASE b.n = 1
  <2>1. i = b.first /\ PagesOf(b) = {i}
    BY <1>2, <1>3, <1>4
  <2>2. pages[i] = SINGLE_PAGE
    BY <1>3, <1>4, <2>1 DEF Mark
  <2>3. pages' = [pages EXCEPT ![i] = FREE]
    BY <2>2 DEF FreeSingle, FreeRange
  <2>. QED  BY <1>2, <2>1, <2>3 DEF HeapInv, TypeOK
<1>5. CASE b.n > 1
  <2>1. pages[i] # SINGLE_PAGE
    BY <1>3, <1>5 DEF Mark, START_PAGE_BOUND, SINGLE_PAGE, END_PAGE_BOUND, ALLOCATED
  <2>2. pages' = ClearedPages(b.first, b.first + b.n - 1)
    BY <1>2, <1>5, <2>1, FirstPage, LastPage DEF FreeSingle, FreeRange
  <2>. QED  BY <1>2, <1>3, <2>2 DEF ClearedPages
<1>. QED  BY <1>3, <1>4, <1>5

\* Pages that hold every block wholly or not at all can be given back.
LEMMA GivesBackPreserves ==
  ASSUME HeapInv, NEW f \in Int, NEW l \in Int, GivesBack(f, l),
         \A b \in blocks : IF b.first \in f .. l THEN PagesOf(b) \subseteq f .. l
                           ELSE PagesOf(b) \cap (f .. l) = {},
         arg' \in Nat, ret' = VOID
  PROVE  HeapInv'
<1>1. /\ pages' = [j \in PageIndex |-> IF j \in f .. l THEN FREE ELSE pages[j]]
      /\ blocks' = {b \in blocks : b.first \notin f .. l}
  BY DEF GivesBack, ClearedPages
<1>2. TypeOK'
  BY <1>1 DEF HeapInv, TypeOK, PageState, FREE
<1>3. BlocksDisjoint'
  BY <1>1 DEF HeapInv, BlocksDisjoint, PagesOf
<1>4. BitmapDescribesBlocks'
  <2>1. ASSUME NEW c \in blocks', NEW j \in PagesOf(c)
        PROVE  pages'[j] = Mark(c.first, c.n, j)
    <3>1. c \in blocks /\ j \in PageIndex /\ j \notin f .. l
      BY <1>1, <2>1, BlockPages DEF HeapInv
    <3>. QED  BY <1>1, <2>1, <3>1 DEF HeapInv, BitmapDescribesBlocks
  <2>2. ASSUME NEW j \in PageIndex, \A c \in blocks' : j \notin PagesOf(c)
        PROVE  pages'[j] = FREE
    <3>1. CASE j \in f .. l
      BY <1>1, <3>1
    <3>2. CASE j \notin f .. l
      <4>1. \A c \in blocks : j \notin PagesOf(c)
        BY <1>1, <2>2, <3>2
      <4>. QED  BY <1>1, <3>2, <4>1 DEF HeapInv, BitmapDescribesBlocks
    <3>. QED  BY <3>1, <3>2
  <2>. QED  BY <2>1, <2>2 DEF BitmapDescribesBlocks, PagesOf, Mark
<1>. QED  BY <1>2, <1>3, <1>4 DEF HeapInv

\* The page a bound marks is the first or the last of a block of several pages,
\* and each such block has both bounds.
LEMMA BoundsOfBlocks ==
  ASSUME HeapInv
  PROVE  /\ \A s \in Bounds(START_PAGE_BOUND) : \E b \in blocks : s = b.first /\ b.n > 1
         /\ \A e \in Bounds(END_PAGE_BOUND) : \E b \in blocks : e = b.first + b.n - 1 /\ b.n > 1
         /\ \A b \in blocks : b.n > 1 => b.first + b.n - 1 \in Bounds(END_PAGE_BOUND)
<1>0. ASSUME NEW b \in blocks
      PROVE  /\ b.first \in Int /\ b.n \in Nat /\ b.n > 0
             /\ PagesOf(b) = b.first .. (b.first + b.n - 1)
             /\ PagesOf(b) \subseteq PageIndex
             /\ \A i \in PagesOf(b) : pages[i] = Mark(b.first, b.n, i)
  BY <1>0, BlockPages DEF HeapInv, PagesOf, BitmapDescribesBlocks
<1>1. ASSUME NEW i \in PageIndex, pages[i] # FREE PROVE \E b \in blocks : i \in PagesOf(b)
  BY <1>1 DEF HeapInv, BitmapDescribesBlocks
<1>2. ASSUME NEW s \in Bounds(START_PAGE_BOUND) PROVE \E b \in blocks : s = b.first /\ b.n > 1
  <2>1. s \in PageIndex /\ pages[s] = START_PAGE_BOUND
    BY DEF Bounds
  <2>2. PICK b \in blocks : s \in PagesOf(b)
    BY <1>1, <2>1 DEF FREE, START_PAGE_BOUND
  <2>3. Mark(b.first, b.n, s) = START_PAGE_BOUND
    BY <1>0, <2>1, <2>2
  <2>. QED  BY <1>0, <2>2, <2>3
              DEF Mark, START_PAGE_BOUND, SINGLE_PAGE, END_PAGE_BOUND, ALLOCATED
<1>3. ASSUME NEW e \in Bounds(END_PAGE_BOUND)
      PROVE  \E b \in blocks : e = b.first + b.n - 1 /\ b.n > 1
  <2>1. e \in PageIndex /\ pages[e] = END_PAGE_BOUND
    BY DEF Bounds
  <2>2. PICK b \in blocks : e \in PagesOf(b)
    BY <1>1, <2>1 DEF FREE, END_PAGE_BOUND
  <2>3. Mark(b.first, b.n, e) = END_PAGE_BOUND
    BY <1>0, <2>1, <2>2
  <2>. QED  BY <1>0, <2>2, <2>3
              DEF Mark, START_PAGE_BOUND, SINGLE_PAGE, END_PAGE_BOUND, ALLOCATED
<1>4. ASSUME NEW b \in blocks, b.n > 1 PROVE b.first + b.n - 1 \in Bounds(END_PAGE_BOUND)
  <2>1. b.first + b.n - 1 \in PagesOf(b) /\ b.first + b.n - 1 # b.first
    BY <1>0, <1>4
  <2>2. pages[b.first + b.n - 1] = END_PAGE_BOUND
    BY <1>0, <2>1 DEF Mark
  <2>. QED  BY <1>0, <2>1, <2>2 DEF Bounds
<1>. QED  BY <1>2, <1>3, <1>4

\* Two blocks lie one behind the other.
LEMMA BlocksInOrder ==
  ASSUME HeapInv, NEW b \in blocks, NEW c \in blocks, b # c
  PROVE  b.first + b.n =< c.first \/ c.first + c.n =< b.first
<1>1. /\ b.first \in Int /\ b.n \in Nat /\ b.n > 0
      /\ c.first \in Int /\ c.n \in Nat /\ c.n > 0
  BY BlockPages DEF HeapInv
<1>2. PagesOf(b) \cap PagesOf(c) = {}
  BY DEF HeapInv, BlocksDisjoint
<1>3. b.first \notin PagesOf(c) /\ c.first \notin PagesOf(b)
  BY <1>2, BlockPages DEF HeapInv
<1>. QED  BY <1>1, <1>3 DEF PagesOf

\* free of end: whatever byte it reads, it gives back whole blocks.
LEMMA FreeEndPreserves ==
  ASSUME HeapInv, FreeEnd, arg' \in Nat, ret' = VOID
  PROVE  HeapInv'
<1>0. ASSUME NEW b \in blocks
      PROVE  /\ b.first \in Nat /\ b.n \in Nat /\ b.n > 0 /\ b.first + b.n =< page_qty
             /\ PagesOf(b) = b.first .. (b.first + b.n - 1)
             /\ b.first \in PageIndex
  BY <1>0, HeapGeometry DEF HeapInv, TypeOK, PagesOf, PageIndex
<1>1. CASE UNCHANGED <<pages, blocks>>
  BY <1>1 DEF HeapInv, TypeOK, BlocksDisjoint, BitmapDescribesBlocks, PagesOf, Mark
<1>2. ASSUME NEW f \in Bounds(START_PAGE_BOUND), GivesBack(f, last_page_index(f))
      PROVE  HeapInv'
  <2>1. PICK b \in blocks : f = b.first /\ b.n > 1
    BY BoundsOfBlocks
  <2>. DEFINE l == b.first + b.n - 1
  <2>2. /\ last_page_index(f) = l
        /\ f \in Int /\ l \in Int
    BY <1>0, <2>1, LastPage
  <2>3. ASSUME NEW c \in blocks
        PROVE  IF c.first \in f .. l THEN PagesOf(c) \subseteq f .. l
               ELSE PagesOf(c) \cap (f .. l) = {}
    <3>1. CASE c = b
      BY <1>0, <2>1, <3>1
    <3>2. CASE c # b
      <4>1. b.first + b.n =< c.first \/ c.first + c.n =< b.first
        BY <3>2, BlocksInOrder
      <4>2. /\ c.first \in Nat /\ c.n \in Nat /\ b.first \in Nat /\ b.n \in Nat
            /\ b.n > 0 /\ c.n > 0 /\ PagesOf(c) = c.first .. (c.first + c.n - 1)
        BY <1>0
      <4>3. CASE b.first + b.n =< c.first
        <5>1. c.first \notin f .. l /\ PagesOf(c) \cap (f .. l) = {}
          BY <2>1, <4>2, <4>3
        <5>. QED  BY <5>1
      <4>4. CASE c.first + c.n =< b.first
        <5>1. c.first \notin f .. l /\ PagesOf(c) \cap (f .. l) = {}
          BY <2>1, <4>2, <4>4
        <5>. QED  BY <5>1
      <4>. QED  BY <4>1, <4>3, <4>4
    <3>. QED  BY <3>1, <3>2
  <2>. HIDE DEF l
  <2>. QED  BY <1>2, <2>2, <2>3, GivesBackPreserves
<1>3. ASSUME NEW l \in Bounds(END_PAGE_BOUND), \A e \in Bounds(END_PAGE_BOUND) : l =< e,
             GivesBack(0, l)
      PROVE  HeapInv'
  <2>1. PICK b \in blocks : l = b.first + b.n - 1 /\ b.n > 1
    BY BoundsOfBlocks
  <2>2. l \in Int
    BY <1>0, <2>1
  <2>3. ASSUME NEW c \in blocks
        PROVE  IF c.first \in 0 .. l THEN PagesOf(c) \subseteq 0 .. l
               ELSE PagesOf(c) \cap (0 .. l) = {}
    <3>1. CASE c = b
      BY <1>0, <2>1, <3>1
    <3>2. CASE c # b
      <4>1. b.first + b.n =< c.first \/ c.first + c.n =< b.first
        BY <3>2, BlocksInOrder
      <4>2. /\ c.first \in Nat /\ c.n \in Nat /\ b.first \in Nat /\ b.n \in Nat
            /\ b.n > 0 /\ c.n > 0 /\ PagesOf(c) = c.first .. (c.first + c.n - 1)
        BY <1>0
      <4>3. CASE b.first + b.n =< c.first
        <5>1. c.first \notin 0 .. l /\ PagesOf(c) \cap (0 .. l) = {}
          BY <2>1, <4>2, <4>3
        <5>. QED  BY <5>1
      <4>4. CASE c.first + c.n =< b.first
        <5>1. c.first \in 0 .. l /\ PagesOf(c) \subseteq 0 .. l
          BY <2>1, <4>2, <4>4
        <5>. QED  BY <5>1
      <4>. QED  BY <4>1, <4>3, <4>4
    <3>. QED  BY <3>1, <3>2
  <2>. QED  BY <1>3, <2>2, <2>3, GivesBackPreserves
<1>4. CASE GivesBack(0, page_qty - 1)
  <2>1. ASSUME NEW c \in blocks
        PROVE  IF c.first \in 0 .. (page_qty - 1) THEN PagesOf(c) \subseteq 0 .. (page_qty - 1)
               ELSE PagesOf(c) \cap (0 .. (page_qty - 1)) = {}
    BY <1>0, HeapGeometry
  <2>2. 0 \in Int /\ page_qty - 1 \in Int
    BY HeapGeometry
  <2>. QED  BY <1>4, <2>1, <2>2, GivesBackPreserves
<1>. QED  BY <1>1, <1>2, <1>3, <1>4 DEF FreeEnd

\* free keeps the invariant, whether it returns at once or gives back a block.
LEMMA FreePreserves ==
  ASSUME HeapInv, NEW mem \in Pointers, free(mem)
  PROVE  HeapInv'
<1>. DEFINE i == get_page_index(mem)
<1>1. ret' = VOID /\ arg' \in Nat
  BY HeapGeometry DEF free, Pointers
<1>2. CASE UNCHANGED <<pages, blocks>>
  BY <1>1, <1>2 DEF HeapInv, TypeOK, BlocksDisjoint, BitmapDescribesBlocks, PagesOf, Mark
<1>4. CASE FreeEnd
  BY <1>1, <1>4, FreeEndPreserves
<1>3. CASE /\ i \in PageIndex
           /\ FreeSingle(i) \/ FreeRange(i)
           /\ blocks' = {b \in blocks : i \notin PagesOf(b)}
  <2>1. i \in PageIndex
    BY <1>3
  <2>2. PICK b \in blocks :
           /\ i \in PagesOf(b)
           /\ pages' = [j \in PageIndex |-> IF j \in PagesOf(b) THEN FREE ELSE pages[j]]
    BY <1>3, <2>1, FreeClearsOwner
  <2>. HIDE DEF i
  <2>3. \A c \in blocks : c # b => PagesOf(c) \cap PagesOf(b) = {}
    BY DEF HeapInv, BlocksDisjoint
  <2>4. blocks' = blocks \ {b}
    BY <1>3, <2>2, <2>3
  <2>5. TypeOK'
    BY <1>1, <2>2, <2>4 DEF HeapInv, TypeOK, PageState, FREE
  <2>6. BlocksDisjoint'
    BY <2>4 DEF HeapInv, BlocksDisjoint, PagesOf
  <2>7. BitmapDescribesBlocks'
    <3>1. ASSUME NEW c \in blocks', NEW j \in PagesOf(c)
          PROVE  pages'[j] = Mark(c.first, c.n, j)
      <4>1. c \in blocks /\ j \in PageIndex /\ j \notin PagesOf(b)
        BY <2>3, <2>4, <3>1, BlockPages DEF HeapInv
      <4>. QED  BY <2>2, <3>1, <4>1 DEF HeapInv, BitmapDescribesBlocks
    <3>2. ASSUME NEW j \in PageIndex, \A c \in blocks' : j \notin PagesOf(c)
          PROVE  pages'[j] = FREE
      BY <2>2, <2>4, <3>2 DEF HeapInv, BitmapDescribesBlocks
    <3>. QED  BY <3>1, <3>2 DEF BitmapDescribesBlocks, PagesOf, Mark
  <2>. QED  BY <2>5, <2>6, <2>7 DEF HeapInv
<1>. QED  BY <1>2, <1>3, <1>4 DEF free

-----------------------------------------------------------------------------
\* The inductive invariant holds of every reachable heap.
THEOREM HeapInvariant == Spec => []HeapInv
<1>1. Init => HeapInv
  BY HeapGeometry DEF Init, HeapInv, TypeOK, BlocksDisjoint, BitmapDescribesBlocks, PageState, NULL
<1>2. HeapInv /\ [Next]_vars => HeapInv'
  <2>1. SUFFICES ASSUME HeapInv, [Next]_vars PROVE HeapInv'
    OBVIOUS
  <2>2. CASE UNCHANGED vars
    BY <2>1, <2>2 DEF vars, HeapInv, TypeOK, BlocksDisjoint, BitmapDescribesBlocks, PagesOf, Mark
  <2>3. CASE Next
    BY <2>1, <2>3, MallocPreserves, FreePreserves DEF Next
  <2>. QED  BY <2>1, <2>2, <2>3
<1>. QED  BY <1>1, <1>2, PTL DEF Spec

\* malloc never hands out a page of a block that is still held (mem_bitmap.c,
\* malloc), for every heap size and every sequence of calls.
THEOREM MallocNeverOverlaps == Spec => []BlocksDisjoint
  BY HeapInvariant, PTL DEF HeapInv

\* The page map and the held blocks always agree, so no page leaks and no walk
\* of free leaves its block.
THEOREM BitmapIsExact == Spec => []BitmapDescribesBlocks
  BY HeapInvariant, PTL DEF HeapInv

\* Type correctness.
THEOREM HeapTypeCorrect == Spec => []TypeOK
  BY HeapInvariant, PTL DEF HeapInv

-----------------------------------------------------------------------------
\* get_page_index sends a pointer to a page of the block whose bytes hold it.
LEMMA PointerInBlock ==
  ASSUME TypeOK, NEW mem \in Pointers, NEW b \in blocks
  PROVE  mem \in AbstractHeap!Bytes(b)
           <=> get_page_index(mem) # INVALID_ADDRESS /\ get_page_index(mem) \in PagesOf(b)
<1>. DEFINE f == b.first
            g == b.first + b.n
<1>1. /\ f \in Nat /\ b.n \in Nat /\ g \in Nat
      /\ mem \in Int
      /\ start \in Nat /\ end \in Nat /\ page_qty \in Nat /\ g =< page_qty
  BY HeapGeometry DEF TypeOK, Pointers, PageIndex
<1>2. f * PAGE_SIZE \in Nat /\ g * PAGE_SIZE \in Nat
  BY <1>1, HeapAssumption
<1>3. mem \in AbstractHeap!Bytes(b)
        <=> start + f * PAGE_SIZE =< mem /\ mem < start + g * PAGE_SIZE
  BY <1>1, <1>2 DEF AbstractHeap!Bytes, address
<1>4. CASE mem < start
  <2>1. get_page_index(mem) = INVALID_ADDRESS
    BY <1>1, <1>4 DEF get_page_index
  <2>. QED  BY <1>1, <1>2, <1>3, <1>4, <2>1
<1>6. CASE mem > end
  <2>1. get_page_index(mem) = INVALID_ADDRESS
    BY <1>6, GoodIndex
  <2>2. g * PAGE_SIZE =< page_qty * PAGE_SIZE /\ page_qty * PAGE_SIZE \in Nat
    BY <1>1, HeapAssumption
  <2>3. ~(mem < start + g * PAGE_SIZE)
    BY <1>1, <1>2, <1>6, <2>2 DEF end
  <2>. QED  BY <1>3, <2>1, <2>3
<1>5. CASE mem >= start /\ mem =< end
  <2>. DEFINE a == mem - start
  <2>1. a \in Nat /\ get_page_index(mem) = a \div PAGE_SIZE /\ a \div PAGE_SIZE \in Nat
    BY <1>1, <1>5, HeapAssumption DEF get_page_index
  <2>2. mem \in AbstractHeap!Bytes(b) <=> ~(a < f * PAGE_SIZE) /\ a < g * PAGE_SIZE
    BY <1>1, <1>2, <1>3
  <2>3. /\ a < f * PAGE_SIZE <=> a \div PAGE_SIZE < f
        /\ a < g * PAGE_SIZE <=> a \div PAGE_SIZE < g
    BY <1>1, <2>1, QuotientBound
  <2>4. \A q \in Nat : q \in PagesOf(b) <=> ~(q < f) /\ q < g
    BY <1>1 DEF PagesOf
  <2>. QED  BY <2>1, <2>2, <2>3, <2>4 DEF INVALID_ADDRESS
<1>. QED  BY <1>1, <1>4, <1>5, <1>6

\* A run of free pages in the bitmap is a run that touches no block, and back:
\* when find_pages gives up, no place between the blocks is long enough.
LEMMA NoFitWhenNotFound ==
  ASSUME HeapInv, NEW n \in Nat, n > 0, find_pages(n) = INVALID_ADDRESS
  PROVE  AbstractHeap!Fits(n) = {}
<1>1. SUFFICES ASSUME NEW f \in AbstractHeap!Fits(n) PROVE FALSE
  OBVIOUS
<1>2. /\ f \in PageIndex /\ f + n =< page_qty
      /\ \A b \in blocks : PagesOf(b) \cap (f .. (f + n - 1)) = {}
  BY <1>1 DEF AbstractHeap!Fits, AbstractHeap!PagesOf, PagesOf, PageIndex
<1>3. \A j \in f .. (f + n - 1) : j \in PageIndex
  BY <1>2, HeapGeometry DEF PageIndex
<1>4. FreeRun(f, n)
  BY <1>2, <1>3 DEF FreeRun, HeapInv, BitmapDescribesBlocks
<1>. DEFINE found == {i \in PageIndex : FreeRun(i, n)}
<1>5. found \subseteq Nat /\ found # {}
  BY <1>2, <1>4, HeapGeometry DEF PageIndex
<1>6. find_pages(n) = CHOOSE i \in found : \A j \in found : i =< j
  BY <1>5 DEF find_pages
<1>. HIDE DEF found
<1>7. \E i \in found : \A j \in found : i =< j
  BY <1>5, SmallestExists
<1>8. find_pages(n) \in found
  BY <1>6, <1>7
<1>. QED  BY <1>5, <1>8 DEF INVALID_ADDRESS

\* The bitmap heap implements the abstract heap: malloc returns NULL only when
\* no run of free pages is long enough, and free of any pointer but end releases
\* exactly the block the pointer lies in; free of end takes no memory.
THEOREM BitmapImplementsHeap == Spec => ImplementsHeap
<1>1. Init => AbstractHeap!Init
  BY DEF Init, AbstractHeap!Init, NULL, AbstractHeap!NULL
<1>2. HeapInv /\ [Next]_vars => [AbstractHeap!Next]_AbstractHeap!vars
  <2>1. SUFFICES ASSUME HeapInv, [Next]_vars
                 PROVE  [AbstractHeap!Next]_AbstractHeap!vars
    OBVIOUS
  <2>2. CASE UNCHANGED vars
    BY <2>2 DEF vars, AbstractHeap!vars
  <2>3. ASSUME NEW size \in Sizes, malloc(size) PROVE AbstractHeap!Next
    <3>. DEFINE n == size_to_num_of_pages(size)
                f == find_pages(n)
    <3>1. n \in Nat
      BY PagesCover, HeapAssumption
    <3>2. SUFFICES AbstractHeap!Malloc(n)
      BY DEF AbstractHeap!Next
    <3>5. arg' = n
      BY <2>3 DEF malloc
    <3>3. CASE f = INVALID_ADDRESS
      <4>1. UNCHANGED blocks /\ ret' = AbstractHeap!NULL
        BY <2>3, <3>3 DEF malloc, NULL, AbstractHeap!NULL
      <4>2. n = 0 \/ AbstractHeap!Fits(n) = {}
        BY <2>1, <3>1, <3>3, NoFitWhenNotFound
      <4>. QED  BY <3>5, <4>1, <4>2 DEF AbstractHeap!Malloc
    <3>4. CASE f # INVALID_ADDRESS
      <4>1. /\ blocks' = blocks \cup {[first |-> f, n |-> n]}
            /\ ret' = address(f)
        BY <2>3, <3>4 DEF malloc
      <4>2. n > 0 /\ f \in PageIndex /\ FreeRun(f, n)
        BY <3>1, <3>4, FoundRunIsFree
      <4>3. \A b \in blocks : PagesOf(b) \cap (f .. (f + n - 1)) = {}
        BY <2>1, <3>1, <4>2, FreeRunAvoidsBlocks
      <4>4. f + n =< page_qty
        BY <4>2 DEF FreeRun
      <4>. HIDE DEF f, n
      <4>5. f \in AbstractHeap!Fits(n)
        BY <4>2, <4>3, <4>4 DEF AbstractHeap!Fits, AbstractHeap!PagesOf, PagesOf, PageIndex
      <4>. QED  BY <3>5, <4>1, <4>2, <4>5 DEF AbstractHeap!Malloc
    <3>. QED  BY <3>3, <3>4
  <2>4. ASSUME NEW mem \in Pointers, free(mem) PROVE AbstractHeap!Next
    <3>. DEFINE i == get_page_index(mem)
                rest == {b \in blocks : mem \notin AbstractHeap!Bytes(b)}
    <3>1. arg' = mem /\ ret' = AbstractHeap!VOID
      BY <2>4 DEF free, VOID, AbstractHeap!VOID
    <3>2. \A b \in blocks : mem \in AbstractHeap!Bytes(b)
                              <=> i # INVALID_ADDRESS /\ i \in PagesOf(b)
      BY <2>1, <2>4, PointerInBlock DEF HeapInv
    <3>5. mem = address(page_qty) <=> mem = end
      BY DEF end, address
    <3>6. i = page_qty <=> mem = end
      BY <2>4, GoodIndex, HeapGeometry DEF Pointers, PageIndex, INVALID_ADDRESS
    <3>7. CASE i = page_qty /\ FreeEnd
      <4>1. blocks' \subseteq blocks
        BY <3>7 DEF FreeEnd, GivesBack
      <4>. HIDE DEF i
      <4>. QED  BY <2>4, <3>1, <3>5, <3>6, <3>7, <4>1 DEF AbstractHeap!Next, AbstractHeap!Free
    <3>3. CASE /\ i # page_qty
               /\ i # INVALID_ADDRESS => pages[i] = FREE
               /\ UNCHANGED blocks
      <4>1. \A b \in blocks : \A j \in PagesOf(b) : pages[j] # FREE
        BY <2>1 DEF HeapInv, BitmapDescribesBlocks, Mark,
                    FREE, START_PAGE_BOUND, SINGLE_PAGE, END_PAGE_BOUND, ALLOCATED
      <4>. HIDE DEF i
      <4>2. blocks' = rest
        BY <3>2, <3>3, <4>1
      <4>. QED  BY <2>4, <3>1, <3>3, <3>5, <3>6, <4>2 DEF AbstractHeap!Next, AbstractHeap!Free
    <3>4. CASE i \in PageIndex /\ blocks' = {b \in blocks : i \notin PagesOf(b)}
      <4>. HIDE DEF i
      <4>0. i # INVALID_ADDRESS /\ i # page_qty
        BY <3>4, HeapGeometry DEF PageIndex, INVALID_ADDRESS
      <4>1. blocks' = rest
        BY <3>2, <3>4, <4>0
      <4>. QED  BY <2>4, <3>1, <3>5, <3>6, <4>0, <4>1 DEF AbstractHeap!Next, AbstractHeap!Free
    <3>. QED  BY <2>4, <3>3, <3>4, <3>7 DEF free
  <2>. QED  BY <2>1, <2>2, <2>3, <2>4 DEF Next
<1>. QED  BY <1>1, <1>2, HeapInvariant, PTL DEF Spec, ImplementsHeap, AbstractHeap!Spec

-----------------------------------------------------------------------------
\* One turn of the loop of find_pages at page i with c free pages behind it; f
\* is what the turns after it return.
Turn(n, f, i, c) == IF i >= page_qty THEN INVALID_ADDRESS
                    ELSE IF pages[i] # FREE THEN f[i + 1][0]
                    ELSE IF c + 1 = n THEN i - n + 1
                    ELSE f[i + 1][c + 1]

\* The loop ends: some function satisfies its equation at every page.  It is
\* built from the last page down.
LEMMA LoopExists ==
  ASSUME NEW n \in Nat
  PROVE  \E f \in [Nat -> [Nat -> Int]] : \A i, c \in Nat : f[i][c] = Turn(n, f, i, c)
<1>. DEFINE Upto(m, f) == \A i, c \in Nat : i + m >= page_qty => f[i][c] = Turn(n, f, i, c)
            Good(m) == \E f \in [Nat -> [Nat -> Int]] : Upto(m, f)
            Bad == {m \in Nat : ~Good(m)}
<1>0. page_qty \in Nat
  BY HeapGeometry
<1>1. Good(0)
  <2>. DEFINE f == [i \in Nat |-> [c \in Nat |-> INVALID_ADDRESS]]
  <2>1. f \in [Nat -> [Nat -> Int]]
    BY DEF INVALID_ADDRESS
  <2>2. Upto(0, f)
    BY <1>0 DEF Turn
  <2>. QED  BY <2>1, <2>2
<1>2. ASSUME NEW m \in Nat, Good(m) PROVE Good(m + 1)
  <2>1. PICK f \in [Nat -> [Nat -> Int]] : Upto(m, f)
    BY <1>2
  <2>. DEFINE g == [i \in Nat |-> [c \in Nat |-> Turn(n, f, i, c)]]
  <2>2. \A i, c \in Nat : g[i][c] = Turn(n, f, i, c)
    OBVIOUS
  <2>3. \A i, c \in Nat : Turn(n, f, i, c) \in Int
    BY <1>0, <2>1 DEF Turn, INVALID_ADDRESS
  <2>4. g \in [Nat -> [Nat -> Int]]
    BY <2>3
  <2>. HIDE DEF g
  <2>5. ASSUME NEW i \in Nat, NEW c \in Nat, i + (m + 1) >= page_qty
        PROVE  g[i][c] = Turn(n, g, i, c)
    <3>1. \A d \in Nat : g[i + 1][d] = f[i + 1][d]
      BY <1>0, <2>1, <2>2, <2>5
    <3>2. Turn(n, g, i, c) = Turn(n, f, i, c)
      BY <3>1 DEF Turn
    <3>. QED  BY <2>2, <3>2
  <2>6. Upto(m + 1, g)
    BY <2>5
  <2>. QED  BY <2>4, <2>6
<1>. HIDE DEF Good
<1>3. Bad = {}
  <2>. SUFFICES ASSUME Bad # {} PROVE FALSE
    OBVIOUS
  <2>0. Bad \subseteq Nat
    OBVIOUS
  <2>. HIDE DEF Bad
  <2>1. PICK m \in Bad : \A k \in Bad : m =< k
    BY <2>0, SmallestExists
  <2>2. m \in Nat /\ m > 0 /\ m - 1 \in Nat /\ m - 1 \notin Bad
    BY <1>1, <2>1 DEF Bad
  <2>3. Good(m - 1) /\ ~Good(m) /\ (m - 1) + 1 = m
    BY <2>1, <2>2 DEF Bad
  <2>. QED  BY <1>2, <2>2, <2>3
<1>4. PICK f \in [Nat -> [Nat -> Int]] : Upto(page_qty, f)
  BY <1>0, <1>3 DEF Good
<1>. QED  BY <1>0, <1>4

\* What scan_pages returns is what the loop returns from page 0.
LEMMA ScanLoop ==
  ASSUME NEW n \in Nat
  PROVE  \E f : /\ \A i, c \in Nat : f[i][c] = Turn(n, f, i, c)
                /\ scan_pages(n) = f[0][0]
<1>. DEFINE Eq(f) == f = [i \in Nat |-> [c \in Nat |-> Turn(n, f, i, c)]]
            loop == CHOOSE f : Eq(f)
<1>1. \E f : Eq(f)
  <2>1. PICK f \in [Nat -> [Nat -> Int]] : \A i, c \in Nat : f[i][c] = Turn(n, f, i, c)
    BY LoopExists
  <2>2. Eq(f)
    BY <2>1
  <2>. QED  BY <2>2
<1>2. Eq(loop)
  BY <1>1
<1>3. scan_pages(n) = loop[0][0]
  BY DEF scan_pages, Turn
<1>. HIDE DEF loop
<1>4. \A i, c \in Nat : loop[i][c] = Turn(n, loop, i, c)
  BY <1>2
<1>. QED  BY <1>3, <1>4

\* Where the loop stands: the c pages behind page i are free, fewer than it
\* needs, and no run that is long enough starts before them.
Standing(n, i, c) == /\ c =< i /\ i =< page_qty /\ c < n
                     /\ \A j \in (i - c) .. (i - 1) : pages[j] = FREE
                     /\ \A j \in 0 .. (i - c - 1) : ~FreeRun(j, n)

\* A run that is found and that no earlier page starts is the one find_pages
\* takes.
LEMMA FirstRun ==
  ASSUME NEW n \in Nat, n > 0, NEW k \in PageIndex, FreeRun(k, n),
         \A j \in 0 .. (k - 1) : ~FreeRun(j, n)
  PROVE  find_pages(n) = k
<1>. DEFINE found == {i \in PageIndex : FreeRun(i, n)}
<1>1. k \in found /\ \A j \in found : k =< j
  BY HeapGeometry DEF PageIndex
<1>2. found \subseteq Int
  BY HeapGeometry DEF PageIndex
<1>3. find_pages(n) = CHOOSE i \in found : \A j \in found : i =< j
  BY <1>1 DEF find_pages
<1>. HIDE DEF found
<1>4. find_pages(n) \in found /\ \A j \in found : find_pages(n) =< j
  BY <1>1, <1>3
<1>5. find_pages(n) =< k /\ k =< find_pages(n)
  BY <1>1, <1>4
<1>6. k \in Int /\ find_pages(n) \in Int
  BY <1>1, <1>2, <1>4
<1>. QED  BY <1>5, <1>6

\* One turn of the loop: it ends with the answer of find_pages, or stands one
\* page further on.
LEMMA TurnStands ==
  ASSUME NEW n \in Nat, NEW f, NEW i \in Nat, NEW c \in Nat, Standing(n, i, c)
  PROVE  \/ Turn(n, f, i, c) = find_pages(n)
         \/ /\ i < page_qty
            /\ \E d \in Nat : Standing(n, i + 1, d) /\ Turn(n, f, i, c) = f[i + 1][d]
<1>0. page_qty \in Nat /\ n > 0 /\ c =< i /\ i =< page_qty /\ c < n
  BY HeapGeometry DEF Standing
<1>1. CASE i = page_qty
  <2>1. \A j \in PageIndex : ~FreeRun(j, n)
    <3>. TAKE j \in PageIndex
    <3>1. CASE j < i - c
      BY <1>0, <3>1 DEF Standing, PageIndex
    <3>2. CASE j >= i - c
      BY <1>0, <1>1, <3>2 DEF FreeRun, PageIndex
    <3>. QED  BY <1>0, <3>1, <3>2 DEF PageIndex
  <2>2. find_pages(n) = INVALID_ADDRESS
    BY <2>1 DEF find_pages
  <2>. QED  BY <1>0, <1>1, <2>2 DEF Turn
<1>2. CASE i < page_qty /\ pages[i] # FREE
  <2>1. Turn(n, f, i, c) = f[i + 1][0]
    BY <1>0, <1>2 DEF Turn
  <2>2. \A j \in 0 .. i : ~FreeRun(j, n)
    <3>. TAKE j \in 0 .. i
    <3>1. CASE j < i - c
      BY <1>0, <3>1 DEF Standing
    <3>2. CASE j >= i - c
      BY <1>0, <1>2, <3>2 DEF FreeRun
    <3>. QED  BY <1>0, <3>1, <3>2
  <2>3. Standing(n, i + 1, 0)
    BY <1>0, <1>2, <2>2 DEF Standing
  <2>. QED  BY <1>2, <2>1, <2>3
<1>3. CASE i < page_qty /\ pages[i] = FREE
  <2>1. \A j \in (i - c) .. i : pages[j] = FREE
    BY <1>0, <1>3 DEF Standing
  <2>2. CASE c + 1 = n
    <3>1. Turn(n, f, i, c) = i - n + 1
      BY <1>0, <1>3, <2>2 DEF Turn
    <3>2. i - n + 1 = i - c /\ i - c \in PageIndex /\ FreeRun(i - c, n)
      BY <1>0, <1>3, <2>1, <2>2 DEF FreeRun, PageIndex
    <3>3. \A j \in 0 .. (i - c - 1) : ~FreeRun(j, n)
      BY DEF Standing
    <3>4. find_pages(n) = i - c
      BY <1>0, <3>2, <3>3, FirstRun
    <3>. QED  BY <3>1, <3>2, <3>4
  <2>3. CASE c + 1 # n
    <3>1. Turn(n, f, i, c) = f[i + 1][c + 1]
      BY <1>0, <1>3, <2>3 DEF Turn
    <3>2. (i + 1) - (c + 1) = i - c /\ (i + 1) - 1 = i /\ c + 1 \in Nat
      OBVIOUS
    <3>3. Standing(n, i + 1, c + 1)
      BY <1>0, <1>3, <2>1, <2>3, <3>2 DEF Standing
    <3>. QED  BY <1>3, <3>1, <3>2, <3>3
  <2>. QED  BY <2>2, <2>3
<1>. QED  BY <1>0, <1>1, <1>2, <1>3

\* The loop, from wherever it stands, returns what find_pages returns: by
\* induction on the pages left.
LEMMA LoopFromHere ==
  ASSUME NEW n \in Nat, NEW f, \A i, c \in Nat : f[i][c] = Turn(n, f, i, c)
  PROVE  \A i, c \in Nat : Standing(n, i, c) => f[i][c] = find_pages(n)
<1>. DEFINE Good(m) == \A i, c \in Nat :
                          i + m = page_qty /\ Standing(n, i, c) => f[i][c] = find_pages(n)
            Bad == {m \in Nat : ~Good(m)}
<1>0. page_qty \in Nat
  BY HeapGeometry
<1>1. ASSUME NEW m \in Nat, m = 0 \/ Good(m - 1) PROVE Good(m)
  <2>. SUFFICES ASSUME NEW i \in Nat, NEW c \in Nat, i + m = page_qty, Standing(n, i, c)
                PROVE  f[i][c] = find_pages(n)
    OBVIOUS
  <2>1. CASE Turn(n, f, i, c) = find_pages(n)
    BY <2>1
  <2>2. ASSUME i < page_qty, NEW d \in Nat, Standing(n, i + 1, d), Turn(n, f, i, c) = f[i + 1][d]
        PROVE  f[i][c] = find_pages(n)
    <3>1. m # 0 /\ (i + 1) + (m - 1) = page_qty /\ i + 1 \in Nat
      BY <1>0, <2>2
    <3>2. f[i + 1][d] = find_pages(n)
      BY <1>1, <2>2, <3>1
    <3>. QED  BY <2>2, <3>2
  <2>3. \/ Turn(n, f, i, c) = find_pages(n)
        \/ /\ i < page_qty
           /\ \E d \in Nat : Standing(n, i + 1, d) /\ Turn(n, f, i, c) = f[i + 1][d]
    BY TurnStands
  <2>. QED  BY <2>1, <2>2, <2>3
<1>. HIDE DEF Good
<1>2. Bad = {}
  <2>. SUFFICES ASSUME Bad # {} PROVE FALSE
    OBVIOUS
  <2>0. Bad \subseteq Nat
    OBVIOUS
  <2>. HIDE DEF Bad
  <2>1. PICK m \in Bad : \A k \in Bad : m =< k
    BY <2>0, SmallestExists
  <2>2. m \in Nat /\ ~Good(m) /\ (m = 0 \/ (m - 1 \in Nat /\ m - 1 \notin Bad))
    BY <2>1 DEF Bad
  <2>3. m = 0 \/ Good(m - 1)
    BY <2>2 DEF Bad
  <2>. QED  BY <1>1, <2>2, <2>3
<1>3. ASSUME NEW i \in Nat, NEW c \in Nat, Standing(n, i, c) PROVE f[i][c] = find_pages(n)
  <2>1. page_qty - i \in Nat /\ i + (page_qty - i) = page_qty
    BY <1>0, <1>3 DEF Standing
  <2>2. Good(page_qty - i)
    BY <1>2, <2>1
  <2>. QED  BY <1>3, <2>1, <2>2 DEF Good
<1>. QED  BY <1>3

\* With no page needed the count, incremented before it is compared, never
\* matches, and the loop runs to the end.
LEMMA NoneNeeded ==
  ASSUME NEW f, \A i, c \in Nat : f[i][c] = Turn(0, f, i, c)
  PROVE  f[0][0] = INVALID_ADDRESS
<1>. DEFINE Good(m) == \A i, c \in Nat : i + m >= page_qty => f[i][c] = INVALID_ADDRESS
            Bad == {m \in Nat : ~Good(m)}
<1>0. page_qty \in Nat
  BY HeapGeometry
<1>1. ASSUME NEW m \in Nat, m = 0 \/ Good(m - 1) PROVE Good(m)
  <2>. SUFFICES ASSUME NEW i \in Nat, NEW c \in Nat, i + m >= page_qty
                PROVE  f[i][c] = INVALID_ADDRESS
    OBVIOUS
  <2>1. f[i][c] = Turn(0, f, i, c) /\ c + 1 # 0
    OBVIOUS
  <2>2. CASE i >= page_qty
    BY <2>1, <2>2 DEF Turn
  <2>3. CASE i < page_qty
    <3>1. m # 0 /\ (i + 1) + (m - 1) >= page_qty
      BY <1>0, <2>3
    <3>2. \A d \in Nat : f[i + 1][d] = INVALID_ADDRESS
      BY <1>1, <3>1
    <3>. QED  BY <1>0, <2>1, <2>3, <3>2 DEF Turn
  <2>. QED  BY <1>0, <2>2, <2>3
<1>. HIDE DEF Good
<1>2. Bad = {}
  <2>. SUFFICES ASSUME Bad # {} PROVE FALSE
    OBVIOUS
  <2>0. Bad \subseteq Nat
    OBVIOUS
  <2>. HIDE DEF Bad
  <2>1. PICK m \in Bad : \A k \in Bad : m =< k
    BY <2>0, SmallestExists
  <2>2. m \in Nat /\ ~Good(m) /\ (m = 0 \/ (m - 1 \in Nat /\ m - 1 \notin Bad))
    BY <2>1 DEF Bad
  <2>3. m = 0 \/ Good(m - 1)
    BY <2>2 DEF Bad
  <2>. QED  BY <1>1, <2>2, <2>3
<1>3. Good(page_qty)
  BY <1>0, <1>2
<1>. QED  BY <1>0, <1>3 DEF Good

\* The loop of find_pages, on any bitmap, is first fit.
LEMMA ScanMeetsFind ==
  ASSUME NEW n \in Nat
  PROVE  scan_pages(n) = find_pages(n)
<1>1. PICK f : /\ \A i, c \in Nat : f[i][c] = Turn(n, f, i, c)
               /\ scan_pages(n) = f[0][0]
  BY ScanLoop
<1>2. CASE n = 0
  <2>1. find_pages(n) = INVALID_ADDRESS
    BY <1>2 DEF find_pages
  <2>. QED  BY <1>1, <1>2, <2>1, NoneNeeded
<1>3. CASE n # 0
  <2>1. Standing(n, 0, 0)
    BY <1>3, HeapGeometry DEF Standing
  <2>2. \A i, c \in Nat : Standing(n, i, c) => f[i][c] = find_pages(n)
    BY <1>1, LoopFromHere
  <2>. QED  BY <1>1, <2>1, <2>2
<1>. QED  BY <1>2, <1>3

\* The counting loop of find_pages returns the first run of free pages that is
\* long enough, and INVALID_ADDRESS exactly when there is none, whatever the
\* bitmap, the size of the heap and the request.
THEOREM ScanFindsFirstFit == Spec => []ScanIsFirstFit
<1>1. ScanIsFirstFit
  BY ScanMeetsFind, PagesCover, HeapAssumption DEF ScanIsFirstFit
<1>. QED  BY <1>1, PTL
=============================================================================
