-------------------------------- MODULE Heap --------------------------------
(***************************************************************************)
(* What a memory manager of BOKE-OS promises to its callers: malloc hands   *)
(* out runs of pages no other live block touches, it refuses only when no   *)
(* run of the wanted length is free, and free gives back the whole block    *)
(* that contains the pointer and nothing else.  One pointer is excepted: of *)
(* free of the address just behind the heap nothing is promised but that it *)
(* takes no memory.  No placement policy, no bitmap: BitmapHeap implements  *)
(* this specification.                                                      *)
(***************************************************************************)
EXTENDS Integers

CONSTANTS PageQty,  \* pages the heap manages
          Addr(_),  \* the address a caller gets for the page with this index
          Counts,   \* the page counts callers ask for
          Pointers  \* the pointers callers pass to free

NULL == 0
VOID == -1   \* what free returns

VARIABLES blocks,   \* the blocks handed out and not given back
          arg,      \* the page count or the pointer the last call was given
          ret       \* what the last call returned: a pointer, NULL or VOID

vars == <<blocks, arg, ret>>

Block == [first : 0 .. (PageQty - 1), n : 1 .. PageQty]

PagesOf(b) == b.first .. (b.first + b.n - 1)

\* The addresses inside a block.
Bytes(b) == Addr(b.first) .. (Addr(b.first + b.n) - 1)

\* Where a run of n pages fits between the live blocks.
Fits(n) == {f \in 0 .. (PageQty - 1) :
              /\ f + n =< PageQty
              /\ \A b \in blocks : PagesOf(b) \cap (f .. (f + n - 1)) = {}}

Init == blocks = {} /\ arg = 0 /\ ret = NULL

Malloc(n) ==
  /\ arg' = n
  /\ \/ \E f \in Fits(n) : /\ n > 0
                           /\ blocks' = blocks \cup {[first |-> f, n |-> n]}
                           /\ ret' = Addr(f)
     \/ /\ n = 0 \/ Fits(n) = {}
        /\ ret' = NULL
        /\ UNCHANGED blocks

Free(mem) == /\ arg' = mem
             /\ ret' = VOID
             /\ \/ mem # Addr(PageQty) /\ blocks' = {b \in blocks : mem \notin Bytes(b)}
                \/ mem = Addr(PageQty) /\ blocks' \in SUBSET blocks

Next == \/ \E n \in Counts : Malloc(n)
        \/ \E mem \in Pointers : Free(mem)

Spec == Init /\ [][Next]_vars
=============================================================================
