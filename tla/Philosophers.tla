---------------------------- MODULE Philosophers ----------------------------
(***************************************************************************)
(* The dining philosophers (Userland/SampleCodeModule/phylo.c).  Every       *)
(* semaphore is used by its index cast to a name, which names none, so that  *)
(* a wait or a post returns at once: they are left out, and a process can be *)
(* preempted wherever it reads or writes fork_states.  phylo and the handler *)
(* it starts never work at the same time and are one process here, Table.    *)
(* The messages, print_state and the count of meals change nothing else.     *)
(***************************************************************************)
EXTENDS Integers, Sequences

CONSTANTS MAX_PHILOSOPHERS, MIN_PHILOSOPHERS, START_PHILOSOPHERS

VARIABLES num_philosophers, fork_states, last,
          c,        \* the key handle acts on, and acts on again until the next
          at,       \* where a process is
          tests,    \* the philosophers it has still to test
          mayEat    \* its test found the first of them hungry between free forks

vars == <<num_philosophers, fork_states, last, c, at, tests, mayEat>>

Seats == 0 .. MAX_PHILOSOPHERS - 1
Table == MAX_PHILOSOPHERS
Processes == Seats \cup {Table}

left(i) == (i + num_philosophers - 1) % num_philosophers
right(i) == (i + 1) % num_philosophers

Init == /\ num_philosophers = 0 /\ last = FALSE /\ c = "other"
        /\ fork_states = [i \in Seats |-> "THINKING"]
        /\ at = [p \in Processes |-> IF p = Table THEN "start" ELSE "dead"]
        /\ tests = [p \in Processes |-> << >>]
        /\ mayEat = [p \in Processes |-> FALSE]

\* Process p is out of test and does its next step at l1, going on at l2.
Step(p, l1, l2) == at[p] = l1 /\ tests[p] = << >> /\ at' = [at EXCEPT ![p] = l2]
-----------------------------------------------------------------------------
\* test, in two steps: what it read is stale when it writes.
Check(p) == /\ tests[p] # << >> /\ ~mayEat[p]
            /\ LET i == Head(tests[p])
                   free == /\ fork_states[i] = "HUNGRY"
                           /\ fork_states[left(i)] # "EATING" /\ fork_states[right(i)] # "EATING"
               IN  /\ mayEat' = [mayEat EXCEPT ![p] = free]
                   /\ tests' = IF free THEN tests ELSE [tests EXCEPT ![p] = Tail(@)]
            /\ UNCHANGED <<num_philosophers, fork_states, last, c, at>>

SetEating(p) == /\ mayEat[p] /\ mayEat' = [mayEat EXCEPT ![p] = FALSE]
                /\ fork_states' = [fork_states EXCEPT ![Head(tests[p])] = "EATING"]
                /\ tests' = [tests EXCEPT ![p] = Tail(@)]
                /\ UNCHANGED <<num_philosophers, last, c, at>>

think(p) == /\ Step(p, "think", IF last THEN "dead" ELSE "take")
            /\ UNCHANGED <<num_philosophers, fork_states, last, c, tests, mayEat>>

take_forks(p) == /\ Step(p, "take", "eat")
                 /\ fork_states' = [fork_states EXCEPT ![p] = "HUNGRY"]
                 /\ tests' = [tests EXCEPT ![p] = <<p>>]
                 /\ UNCHANGED <<num_philosophers, last, c, mayEat>>

\* Eating or, since the wait for the fork returns at once, still hungry.
eat(p) == /\ Step(p, "eat", "put")
          /\ UNCHANGED <<num_philosophers, fork_states, last, c, tests, mayEat>>

put_forks(p) == /\ Step(p, "put", "put_right")
                /\ fork_states' = [fork_states EXCEPT ![p] = "THINKING"]
                /\ tests' = [tests EXCEPT ![p] = <<left(p)>>]
                /\ UNCHANGED <<num_philosophers, last, c, mayEat>>

put_right(p) == /\ Step(p, "put_right", "think")
                /\ tests' = [tests EXCEPT ![p] = <<right(p)>>]
                /\ UNCHANGED <<num_philosophers, fork_states, last, c, mayEat>>

philosopher(p) == think(p) \/ take_forks(p) \/ eat(p) \/ put_forks(p) \/ put_right(p)
-----------------------------------------------------------------------------
\* The new philosopher first thinks for 100 ms, so that its creation and the
\* count are one step; its number may be that of one that was removed.
add_philosopher == LET n == num_philosophers
                   IN  /\ fork_states' = [fork_states EXCEPT ![n] = "THINKING"]
                       /\ at' = [at EXCEPT ![n] = "think"]
                       /\ num_philosophers' = n + 1
                       /\ tests' = [tests EXCEPT ![Table] = <<n>>]
                       /\ UNCHANGED <<last, c, mayEat>>

phylo == /\ at[Table] = "start" /\ tests[Table] = << >>
         /\ IF num_philosophers < START_PHILOSOPHERS
            THEN add_philosopher
            ELSE /\ at' = [at EXCEPT ![Table] = "handle"]
                 /\ UNCHANGED <<num_philosophers, fork_states, last, c, tests, mayEat>>

Handling == at[Table] = "handle" /\ tests[Table] = << >>

NextKey == /\ Handling /\ c' \in {"A", "R", "Q", "other"}
           /\ UNCHANGED <<num_philosophers, fork_states, last, at, tests, mayEat>>

AddKey == Handling /\ c = "A" /\ num_philosophers < MAX_PHILOSOPHERS /\ add_philosopher

\* remove_philosopher up to its tests, with 100 ms of grace for one who eats.
RemoveKey == /\ Handling /\ c = "R" /\ num_philosophers > MIN_PHILOSOPHERS
             /\ LET n == num_philosophers - 1
                IN  tests' = [tests EXCEPT ![Table] = <<left(n), right(n)>>]
             /\ at' = [at EXCEPT ![Table] = "kill"]
             /\ UNCHANGED <<num_philosophers, fork_states, last, c, mayEat>>

\* The removed philosopher is killed wherever it is.
Kill == LET n == num_philosophers - 1
        IN  /\ at[Table] = "kill" /\ tests[Table] = << >>
            /\ at' = [at EXCEPT ![Table] = "handle", ![n] = "dead"]
            /\ tests' = [tests EXCEPT ![n] = << >>]
            /\ mayEat' = [mayEat EXCEPT ![n] = FALSE]
            /\ fork_states' = [fork_states EXCEPT ![n] = "THINKING"]
            /\ num_philosophers' = n
            /\ UNCHANGED <<last, c>>

QuitKey == /\ Handling /\ c = "Q" /\ last' = TRUE /\ at' = [at EXCEPT ![Table] = "end"]
           /\ UNCHANGED <<num_philosophers, fork_states, c, tests, mayEat>>

KillAll == /\ at[Table] = "end" /\ at' = [p \in Processes |-> "dead"]
           /\ tests' = [p \in Processes |-> << >>] /\ mayEat' = [p \in Processes |-> FALSE]
           /\ UNCHANGED <<num_philosophers, fork_states, last, c>>

Next == \/ \E p \in Processes : Check(p) \/ SetEating(p)
        \/ \E p \in Seats : philosopher(p)
        \/ phylo \/ NextKey \/ AddKey \/ RemoveKey \/ Kill \/ QuitKey \/ KillAll

Spec == Init /\ [][Next]_vars
-----------------------------------------------------------------------------
\* "Run the dining philosophers solution": of two neighbours at the table, who
\* share a fork, at most one eats.
NeighboursDoNotEat ==
  \A i \in 0 .. num_philosophers - 1 :
    fork_states[i] = "EATING" /\ left(i) # i => fork_states[left(i)] # "EATING"
=============================================================================
