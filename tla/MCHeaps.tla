------------------------------ MODULE MCHeaps -------------------------------
(***************************************************************************)
(* Model-checking instance of the two memory managers: the kernel is built   *)
(* with one of them.                                                         *)
(***************************************************************************)
EXTENDS BitmapHeap

CONSTANTS MemAmmounts, Requests, Width

VARIABLES build,                       \* the make target: "all" or "buddy"
          node, mem_allocated, held, slack    \* of the buddy heap

\* Halving 8 or 12 three times takes the tree to place 22 of its array.
Buddy == INSTANCE BuddyHeap WITH Places <- 0 .. 22

buddyvars == <<node, mem_allocated, held, slack>>
buildvars == <<vars, buddyvars, build>>

BuildInit == build \in {"all", "buddy"} /\ Init /\ Buddy!Init

BuildNext == \/ build = "all" /\ Next /\ UNCHANGED <<buddyvars, build>>
             \/ build = "buddy" /\ Buddy!Next /\ UNCHANGED <<vars, build>>

BuildSpec == BuildInit /\ [][BuildNext]_buildvars

\* The states check_state leaves in the tree, its splits and its merges describe
\* the blocks callers hold, and malloc refuses only what no free leaf can take.
TreeDescribesBlocks == Buddy!TreeDescribesBlocks

\* On every amount of memory, mem_allocated is what callers hold less what the
\* blocks they freed had beyond their requests, whatever pointers they free and
\* however often.
AllocatedSinksBySlack == Buddy!AllocatedSinksBySlack
=============================================================================
