----------------------------- MODULE BuddyHeap ------------------------------
(***************************************************************************)
(* The memory manager of "make buddy" (Kernel/memory_manager/mem_buddy.c): a *)
(* binary tree of nodes written into the memory init_mm is given, a node's   *)
(* children index places after it.  malloc takes the leftmost leaf that is   *)
(* large enough and halves it; free merges two free halves.  A node is named *)
(* by its place in the array.  The tree is assumed to end below the heap.    *)
(***************************************************************************)
EXTENDS Integers, FiniteSetsExt

CONSTANTS MemAmmounts,   \* the amounts of memory init_mm may be given
          Requests,      \* the byte counts callers pass to malloc
          Places,        \* the places of the node array a tree can reach
          Width          \* bits of mem_allocated

VARIABLES node,            \* the array of nodes; node[root] is the whole heap
          mem_allocated,
          held,            \* history: the blocks callers hold
          slack            \* history: bytes of freed blocks beyond what was asked for

vars == <<node, mem_allocated, held, slack>>

root == 0
NULL == 0   \* also no child: the root is nobody's

\* The heap starts at the address mem_ammount, not at base_addres.
init_mm(mem_ammount) ==
  node = [n \in Places |-> [start |-> IF n = root THEN mem_ammount ELSE 0,
                            size |-> IF n = root THEN mem_ammount ELSE 0,
                            state |-> "FREE", index |-> 0, left |-> NULL, right |-> NULL]]

Init == /\ \E mem_ammount \in MemAmmounts : init_mm(mem_ammount)
        /\ mem_allocated = 0 /\ held = {} /\ slack = 0

\* Mutant of check_state: the right half is not looked at.
check_state_left(t, n) ==
  [t EXCEPT ![n].state = IF t[n].left = NULL THEN "FREE" ELSE t[t[n].left].state]

check_state(t, n) ==
  LET halves == {t[t[n].left].state, t[t[n].right].state}
  IN  [t EXCEPT ![n].state = IF t[n].left = NULL \/ t[n].right = NULL \/ halves = {"FREE"} THEN "FREE"
                             ELSE IF halves = {"ALLOCATED"} THEN "ALLOCATED"
                             ELSE "PARCIAL"]

\* A child keeps the left and right its place in the array holds.
create_childs(t, n) ==
  LET left_index == 2 * t[n].index + 1
      new_size == t[n].size \div 2
      Child(c, i, s) == [t[c] EXCEPT !.start = s, !.size = new_size, !.state = "FREE", !.index = i]
      l == n + left_index
      r == l + 1
  IN  [t EXCEPT ![n].left = l, ![n].right = r,
                ![l] = Child(l, left_index, t[n].start),
                ![r] = Child(r, left_index + 1, t[n].start + new_size)]

\* The nodes after the search below n, and the address found.
RECURSIVE malloc_rec(_, _, _)
malloc_rec(t, n, bytes) ==
  LET InHalf(t1, half) == LET found == malloc_rec(t1, half, bytes)
                          IN  [found EXCEPT !.node = check_state(found.node, n)]
      left == InHalf(t, t[n].left)
  IN  IF t[n].state = "ALLOCATED" THEN [node |-> t, address |-> NULL]
      ELSE IF t[n].left # NULL
        THEN IF left.address # NULL THEN left ELSE InHalf(left.node, t[n].right)
      ELSE IF bytes > t[n].size THEN [node |-> t, address |-> NULL]
      ELSE IF t[n].size \div 2 >= bytes
        THEN LET split == create_childs(t, n) IN InHalf(split, split[n].left)
      ELSE [node |-> [t EXCEPT ![n].state = "ALLOCATED"], address |-> t[n].start]

PowersOfTwo == {2 ^ k : k \in 0 .. Width}
RoundedUp(bytes) == Min({p \in PowersOfTwo : p >= bytes})

Wrap(n) == n % 2 ^ Width

Refused(bytes) == node[root].size < bytes /\ UNCHANGED vars

malloc(bytes) ==
  /\ node[root].size >= bytes
  /\ LET found == malloc_rec(node, root, RoundedUp(bytes))
     IN  /\ node' = found.node
         /\ mem_allocated' = Wrap(mem_allocated + IF found.address # NULL THEN RoundedUp(bytes) ELSE 0)
         /\ held' = IF found.address = NULL THEN held
                    ELSE held \cup {[start |-> found.address, bytes |-> RoundedUp(bytes)]}
         /\ UNCHANGED slack

\* Mutant of free_leaf: a free leaf is freed again.
free_leaf_twice(t, n, ptr) ==
  IF t[n].start = ptr
  THEN [node |-> [t EXCEPT ![n].state = "FREE"], size |-> t[n].size]
  ELSE [node |-> t, size |-> 0]

free_leaf(t, n, ptr) ==
  IF t[n].state = "ALLOCATED" /\ t[n].start = ptr
  THEN [node |-> [t EXCEPT ![n].state = "FREE"], size |-> t[n].size]
  ELSE [node |-> t, size |-> 0]

\* The nodes after the search below n for the block at ptr, and the size freed.
RECURSIVE free_rec(_, _, _)
free_rec(t, n, ptr) ==
  IF t[n].left # NULL
  THEN LET half == IF t[t[n].right].start > ptr THEN t[n].left ELSE t[n].right
           below == free_rec(t, half, ptr)
           t1 == check_state(below.node, n)
       IN  [below EXCEPT !.node = IF t1[n].state = "FREE" THEN [t1 EXCEPT ![n].left = NULL, ![n].right = NULL]
                                  ELSE t1]
  ELSE free_leaf(t, n, ptr)

\* The nodes of the tree, from the root down its links.
RECURSIVE Below(_)
Below(n) == {n} \cup IF node[n].left = NULL THEN {} ELSE Below(node[n].left) \cup Below(node[n].right)

Leaves == {n \in Below(root) : node[n].left = NULL}

\* What the leaf of block b has and its caller did not ask for.
Unasked(b) == Max({node[n].size : n \in {m \in Leaves : node[m].start = b.start}}) - b.bytes

free(mem) == LET freed == free_rec(node, root, mem)
                 given == {b \in held : b.start = mem}
             IN  /\ node' = freed.node
                 /\ mem_allocated' = Wrap(mem_allocated - freed.size)
                 /\ held' = held \ given
                 /\ slack' = Wrap(slack + MapThenSumSet(Unasked, given))

\* Any address of the heap, and the one before and after it.
Addresses == (node[root].start - 1) .. (node[root].start + node[root].size)

Next == (\E bytes \in Requests : Refused(bytes) \/ malloc(bytes)) \/ (\E mem \in Addresses : free(mem))

Spec == Init /\ [][Next]_vars
-----------------------------------------------------------------------------
\* The tree describes the blocks callers hold, after every sequence of mallocs
\* and frees of any address: they are the allocated leaves, as large as asked
\* for and disjoint; no free half is left beside a free half; and malloc refuses
\* a request only when no free leaf is large enough for it.
TreeDescribesBlocks ==
  LET Block(n) == node[n].start .. (node[n].start + node[n].size - 1)
      taken == {n \in Leaves : node[n].state = "ALLOCATED"}
  IN  /\ {b.start : b \in held} = {node[n].start : n \in taken}
      /\ \A b \in held : \E n \in taken : node[n].start = b.start /\ node[n].size >= b.bytes
      /\ \A n, m \in Leaves : n # m => Block(n) \cap Block(m) = {}
      /\ \A n \in Below(root) \ Leaves : {node[node[n].left].state, node[node[n].right].state} # {"FREE"}
      /\ \A bytes \in PowersOfTwo :
           malloc_rec(node, root, bytes).address = NULL
             => \A n \in Leaves : node[n].state = "FREE" => node[n].size < bytes

\* What MEM prints as allocated is what callers hold, less what the blocks they
\* freed had beyond what was asked for: malloc adds the bytes of the request and
\* free takes away those of the leaf.  On a power of two of memory the leaves are
\* as large as the requests and nothing is lost; on the kernel's amount the
\* counter sinks with every such free, and wraps below 0.
AllocatedSinksBySlack ==
  /\ mem_allocated = Wrap(MapThenSumSet(LAMBDA b : b.bytes, held) - slack)
  /\ node[root].size \in PowersOfTwo => slack = 0
=============================================================================
