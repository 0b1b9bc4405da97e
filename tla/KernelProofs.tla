--------------------------- MODULE KernelProofs ----------------------------
(***************************************************************************)
(* What the proofs about Kernel.tla share: the scheduler while the idle     *)
(* process is left alone (Safe); that a scheduler function does to a kernel *)
(* record what it does to the scheduler's part of it, and leaves the        *)
(* semaphore table and the processes alone (Frame, Parts); and what each    *)
(* action of the kernel does to each variable (the lemmas named Effect).    *)
(***************************************************************************)
EXTENDS Kernel, SchedulerProofs

-----------------------------------------------------------------------------
(* The scheduler while the idle process is left alone. *)

Safe(k) == Sound(k) /\ IdleFirst(k) /\ k.status[IDLE_PID] # BLOCKED /\ ~k.fault

\* Nobody is blocked, woken, killed, revived or handed out.
Alike(k, r) == \A x \in Pids : /\ r.status[x] = BLOCKED <=> k.status[x] = BLOCKED
                               /\ r.status[x] = DEAD <=> k.status[x] = DEAD
                               /\ r.status[x] = NONE <=> k.status[x] = NONE

\* What a context switch leaves behind.
Switched(k, r) == /\ Safe(r) /\ Alike(k, r) /\ r.pid = k.pid
                  /\ r.waiting_for_remove = <<>> /\ r.creation_queue = <<>>
                  /\ r.status[r.current_pcb] = RUNNING

\* Somebody can always run, and whoever is found is neither BLOCKED nor DEAD.
LEMMA FoundIsAwake ==
  ASSUME NEW k, Safe(k)
  PROVE  /\ ~NothingToRun(k) /\ find_next_process(k) \in Pids
         /\ k.status[find_next_process(k)] \in {READY, RUNNING}
<1>1. ~NothingToRun(k)
  BY DEF Safe, IdleFirst, NothingToRun
<1>2. k \in SchedState /\ Good(k)
  BY DEF Safe, Sound, Good
<1>3. find_next_process(k) \in Pids
  BY <1>1, <1>2, FindNextFinds
<1>4. CASE Levels(k, READY) # {}
  BY <1>1, <1>2, <1>3, <1>4, FindNextFinds
<1>5. CASE Levels(k, READY) = {} /\ Levels(k, RUNNING) # {}
  <2>. DEFINE i == Smallest(Levels(k, RUNNING))
              n == Largest(At(k, i, RUNNING))
  <2>1. i \in Levels(k, RUNNING) /\ n \in At(k, i, RUNNING)
    BY <1>2, <1>5, ScanFinds
  <2>2. find_next_process(k) = k.queue[i][n]
    BY <1>5 DEF KeepRunning, find_next_process
  <2>. HIDE DEF i, n
  <2>. QED  BY <1>1, <1>3, <2>1, <2>2 DEF At
<1>6. CASE Levels(k, READY) = {} /\ Levels(k, RUNNING) = {}
  <2>1. find_next_process(k) = IDLE_PID
    BY <1>6 DEF find_next_process, Safe, IdleFirst
  <2>2. k.status[IDLE_PID] \in Statuses /\ ~(IDLE_PID >= k.pid)
    BY <1>2, ConstantFacts, QueueTypes DEF Safe, IDLE_PID
  <2>3. k.status[IDLE_PID] # NONE
    BY <2>2, ConstantFacts DEF Safe, Sound, HandedOut
  <2>. QED  BY <1>1, <1>3, <2>1, <2>2, <2>3 DEF Safe, IdleFirst, Statuses
<1>. QED  BY <1>4, <1>5, <1>6

\* switch_context.
LEMMA SwitchCalm ==
  ASSUME NEW k, Safe(k), k.ticks[k.current_pcb] >= quantum
  PROVE  Switched(k, switch_context(k))
<1>. DEFINE d == stop_current_process(create_processes_in_creation_queue(
                   kill_processes_in_removal_queue(k)))
            p == find_next_process(d)
            r == switch_context(k)
<1>1. /\ Sound(d) /\ d.status = k.status /\ d.current_pcb = k.current_pcb
      /\ d.fault = k.fault /\ d.pid = k.pid
      /\ d.waiting_for_remove = <<>> /\ d.creation_queue = <<>> /\ IdleFirst(d)
  BY PreparedSound DEF Safe
<1>2. r = IF NothingToRun(d) THEN [d EXCEPT !.fault = TRUE] ELSE Dispatch(d, p)
  BY DEF switch_context
<1>. HIDE DEF d
<1>3. Safe(d)
  BY <1>1 DEF Safe
<1>4. ~NothingToRun(d) /\ p \in Pids /\ d.status[p] \in {READY, RUNNING}
  BY <1>3, FoundIsAwake
<1>5. r = Dispatch(d, p)
  BY <1>2, <1>4
<1>6. Sound(r) /\ IdleFirst(r)
  <2>1. ~d.fault
    BY <1>3 DEF Safe
  <2>. QED  BY <1>1, <1>4, <1>5, <2>1, DispatchSound
<1>7. /\ r.current_pcb = p /\ r.pid = d.pid /\ r.fault = d.fault
      /\ r.waiting_for_remove = d.waiting_for_remove /\ r.creation_queue = d.creation_queue
      /\ \A x \in Pids : r.status[x] = IF x = p THEN RUNNING
                                       ELSE IF x = d.current_pcb /\ d.status[x] = RUNNING
                                         THEN READY ELSE d.status[x]
  BY <1>1, <1>4, <1>5, DispatchFields
<1>. HIDE DEF r, p
<1>8. Alike(k, r)
  BY <1>1, <1>4, <1>7 DEF Alike, RUNNING, READY, BLOCKED, DEAD, NONE
<1>9. r.status[r.current_pcb] = RUNNING
  BY <1>4, <1>7
<1>10. r.status[IDLE_PID] # BLOCKED
  BY <1>8, ConstantFacts DEF Alike, Safe
<1>. QED  BY <1>1, <1>3, <1>6, <1>7, <1>8, <1>9, <1>10 DEF Switched, Safe, r

\* finish_current_tick.
LEMMA FinishTickCalm ==
  ASSUME NEW k, Safe(k)
  PROVE  Switched(k, finish_current_tick(k))
<1>. DEFINE b == [k EXCEPT !.ticks[k.current_pcb] = quantum]
<1>1. quantum \in 0 .. quantum
  BY ConstantFacts
<1>2. /\ Lawful(k, b) /\ ~b.fault /\ b.current_pcb = k.current_pcb
      /\ b.ticks[b.current_pcb] = quantum /\ Gentle(k, b)
  BY <1>1, TicksSound DEF Safe
<1>3. b.status = k.status /\ b.pid = k.pid
  BY QueueTypes DEF Safe, SchedState
<1>. HIDE DEF b
<1>4. Safe(b)
  BY <1>2, <1>3 DEF Safe, Lawful, Gentle
<1>5. Switched(b, switch_context(b))
  BY <1>2, <1>4, SwitchCalm, ConstantFacts
<1>. QED  BY <1>3, <1>5 DEF Switched, Alike, finish_current_tick, b

\* The timer counts a tick or switches.
LEMMA TimerCalm ==
  ASSUME NEW k, Safe(k)
  PROVE  LET r == timer_interrupt(k)
         IN  \/ Switched(k, r)
             \/ /\ Safe(r) /\ r.status = k.status /\ r.current_pcb = k.current_pcb /\ r.pid = k.pid
                /\ r.waiting_for_remove = k.waiting_for_remove
                /\ r.creation_queue = k.creation_queue
<1>. DEFINE t == k.ticks[k.current_pcb] + 1
            b == [k EXCEPT !.ticks[k.current_pcb] = t]
<1>1. k.ticks[k.current_pcb] \in 0 .. quantum /\ quantum \in Nat
  BY QueueTypes, ConstantFacts DEF SchedState, Safe
<1>2. CASE k.ticks[k.current_pcb] < quantum
  <2>1. t \in 0 .. quantum
    BY <1>1, <1>2
  <2>2. timer_interrupt(k) = b
    BY <1>2 DEF timer_interrupt
  <2>. HIDE DEF t
  <2>3. Lawful(k, b) /\ ~b.fault /\ Gentle(k, b)
    BY <2>1, TicksSound DEF Safe
  <2>4. /\ b.status = k.status /\ b.current_pcb = k.current_pcb /\ b.pid = k.pid
        /\ b.waiting_for_remove = k.waiting_for_remove /\ b.creation_queue = k.creation_queue
    BY QueueTypes DEF Safe, SchedState
  <2>. HIDE DEF b
  <2>. QED  BY <2>2, <2>3, <2>4 DEF Safe, Lawful, Gentle
<1>3. CASE ~(k.ticks[k.current_pcb] < quantum)
  <2>1. k.ticks[k.current_pcb] >= quantum
    BY <1>1, <1>3
  <2>. QED  BY <1>3, <2>1, SwitchCalm DEF timer_interrupt
<1>. QED  BY <1>2, <1>3

\* The globals other than status and the lists.
SameRest(k, r) == /\ r.pid = k.pid /\ r.current_pcb = k.current_pcb /\ r.queue = k.queue

SameLists(k, r) == /\ r.waiting_for_remove = k.waiting_for_remove
                   /\ r.creation_queue = k.creation_queue

\* A process other than idle, still alive, blocks, or dies.
LEMMA SetStatusCalm ==
  ASSUME NEW k, Safe(k), NEW p \in Pids, p # IDLE_PID, NEW s \in {BLOCKED, DEAD},
         k.status[p] # NONE, k.status[p] # DEAD \/ s = DEAD
  PROVE  LET r == [k EXCEPT !.status[p] = s]
         IN  /\ Safe(r) /\ SameRest(k, r) /\ SameLists(k, r)
             /\ \A x \in Pids : r.status[x] = IF x = p THEN s ELSE k.status[x]
<1>. DEFINE r == [k EXCEPT !.status[p] = s]
<1>1. s \in Statuses \ {RUNNING, NONE}
  BY DEF Statuses, BLOCKED, DEAD, RUNNING, NONE
<1>2. Sound(r) /\ IdleFirst(r) /\ ~r.fault
  BY <1>1, SetStatusSound DEF Safe, Lawful, Gentle
<1>3. k \in SchedState
  BY QueueTypes DEF Safe
<1>4. SameRest(k, r) /\ SameLists(k, r)
  BY <1>3 DEF SchedState, SameRest, SameLists
<1>5. \A x \in Pids : r.status[x] = IF x = p THEN s ELSE k.status[x]
  BY <1>3 DEF SchedState
<1>. HIDE DEF r
<1>6. r.status[IDLE_PID] # BLOCKED
  BY <1>5, ConstantFacts DEF Safe
<1>7. Safe(r)
  BY <1>2, <1>6 DEF Safe
<1>. QED  BY <1>4, <1>5, <1>7 DEF r

\* The current process goes to sleep.
LEMMA BlockCalm ==
  ASSUME NEW k, Safe(k), k.current_pcb # IDLE_PID, k.status[k.current_pcb] # DEAD
  PROVE  LET r == block_current(k)
         IN  /\ Safe(r) /\ r.pid = k.pid /\ r.waiting_for_remove = <<>> /\ r.creation_queue = <<>>
             /\ r.status[r.current_pcb] = RUNNING
             /\ \A x \in Pids : /\ r.status[x] = BLOCKED <=> x = k.current_pcb \/ k.status[x] = BLOCKED
                                /\ r.status[x] = DEAD <=> k.status[x] = DEAD
                                /\ r.status[x] = NONE <=> k.status[x] = NONE
<1>. DEFINE c == k.current_pcb
            b == [k EXCEPT !.status[c] = BLOCKED]
            r == block_current(k)
<1>1. c \in Pids /\ k.status[c] # NONE
  BY QueuedIsHandedOut, QueueTypes DEF Safe
<1>2. /\ Safe(b) /\ SameRest(k, b) /\ SameLists(k, b)
      /\ \A x \in Pids : b.status[x] = IF x = c THEN BLOCKED ELSE k.status[x]
  BY <1>1, SetStatusCalm
<1>3. r = finish_current_tick(b)
  BY DEF block_current
<1>. HIDE DEF b
<1>4. Switched(b, r)
  BY <1>2, <1>3, FinishTickCalm
<1>. HIDE DEF r
<1>5. \A x \in Pids : /\ r.status[x] = BLOCKED <=> x = c \/ k.status[x] = BLOCKED
                      /\ r.status[x] = DEAD <=> k.status[x] = DEAD
                      /\ r.status[x] = NONE <=> k.status[x] = NONE
  BY <1>1, <1>2, <1>4 DEF Switched, Alike, BLOCKED, DEAD, NONE
<1>. QED  BY <1>2, <1>4, <1>5 DEF Switched, SameRest, r

\* Wake-ups.
LEMMA ReviveCalm ==
  ASSUME NEW k, Safe(k), NEW W
  PROVE  LET r == os_revive_process(k, W)
         IN  /\ Safe(r) /\ SameRest(k, r) /\ SameLists(k, r)
             /\ \A x \in Pids : r.status[x] = IF /\ x \in W /\ get_pcb_entry(k, x)
                                                 /\ k.status[x] \in {BLOCKED, RUNNING}
                                              THEN READY ELSE k.status[x]
<1>. DEFINE r == os_revive_process(k, W)
<1>1. Sound(r) /\ IdleFirst(r) /\ ~r.fault
  BY ReviveSound DEF Safe, Lawful, Gentle
<1>2. k \in SchedState
  BY QueueTypes DEF Safe
<1>3. SameRest(k, r) /\ SameLists(k, r)
  BY <1>2 DEF SchedState, SameRest, SameLists, os_revive_process
<1>4. \A x \in Pids : r.status[x] = IF /\ x \in W /\ get_pcb_entry(k, x)
                                       /\ k.status[x] \in {BLOCKED, RUNNING}
                                    THEN READY ELSE k.status[x]
  BY <1>2 DEF SchedState, os_revive_process
<1>. HIDE DEF r
<1>5. r.status[IDLE_PID] # BLOCKED
  BY <1>4, ConstantFacts DEF Safe, READY, BLOCKED
<1>6. Safe(r)
  BY <1>1, <1>5 DEF Safe
<1>. QED  BY <1>3, <1>4, <1>6 DEF r

\* A dead process is queued for removal.
LEMMA RemovalCalm ==
  ASSUME NEW k, Safe(k), NEW p \in Pids, k.status[p] = DEAD
  PROVE  LET r == add_process_to_removal_queue(k, p)
         IN  /\ Safe(r) /\ SameRest(k, r) /\ r.status = k.status
             /\ r.creation_queue = k.creation_queue
             /\ r.waiting_for_remove = Append(k.waiting_for_remove, p)
<1>. DEFINE r == add_process_to_removal_queue(k, p)
<1>1. Sound(r) /\ IdleFirst(r) /\ ~r.fault
  BY RemovalQueueSound DEF Safe, Lawful, Gentle
<1>2. k \in SchedState
  BY QueueTypes DEF Safe
<1>3. /\ SameRest(k, r) /\ r.status = k.status
      /\ r.creation_queue = k.creation_queue
      /\ r.waiting_for_remove = Append(k.waiting_for_remove, p)
  BY <1>2 DEF SchedState, SameRest, add_process_to_removal_queue
<1>. HIDE DEF r
<1>. QED  BY <1>1, <1>3 DEF Safe, r

\* A new process, in its queue at once or later.
LEMMA CreateCalm ==
  ASSUME NEW k, Safe(k), k.pid =< MaxPid
  PROVE  LET r == create_and_insert_process(k)
         IN  /\ Safe(r) /\ r.pid = k.pid + 1 /\ r.current_pcb = k.current_pcb /\ SameLists(k, r)
             /\ k.pid \in Clients /\ k.status[k.pid] = NONE
             /\ \A x \in Pids : r.status[x] = IF x = k.pid THEN READY ELSE k.status[x]
<1>. DEFINE r == create_and_insert_process(k)
            b == create_process(k)
<1>1. Sound(r) /\ IdleFirst(r)
  BY CreateSound DEF Safe, Lawful, Gentle
<1>2. /\ Good(b) /\ k.pid \in Pids /\ k.pid > 3 /\ k.status[k.pid] = NONE
      /\ \A x \in Pids : b.status[x] = IF x = k.pid THEN READY ELSE k.status[x]
      /\ b.pid = k.pid + 1 /\ SameLists(k, b) /\ b.current_pcb = k.current_pcb /\ b.fault = k.fault
  BY CreateFields DEF Safe, SameLists
<1>3. r = add_new_process(b, k.pid)
  BY DEF create_and_insert_process
<1>. HIDE DEF b, r
<1>4. /\ r.status = b.status /\ r.pid = b.pid /\ r.current_pcb = b.current_pcb /\ r.fault = b.fault
      /\ r.waiting_for_remove = b.waiting_for_remove /\ r.creation_queue = b.creation_queue
  BY <1>2, <1>3 DEF add_new_process, Good, SchedState
<1>5. \A x \in Pids : r.status[x] = IF x = k.pid THEN READY ELSE k.status[x]
  BY <1>2, <1>4
<1>6. r.status[IDLE_PID] # BLOCKED
  BY <1>5, ConstantFacts DEF Safe, READY, BLOCKED
<1>7. Safe(r)
  BY <1>1, <1>2, <1>4, <1>6 DEF Safe
<1>8. k.pid \in Clients
  BY <1>2, ConstantFacts DEF Clients, Pids
<1>. QED  BY <1>2, <1>4, <1>5, <1>7, <1>8 DEF SameLists, r

\* add_process_to_creation_queue hands out the next pid and inserts it later.
LEMMA CreateLaterCalm ==
  ASSUME NEW k, Safe(k), k.pid =< MaxPid
  PROVE  LET r == add_process_to_creation_queue(k)
         IN  /\ Safe(r) /\ r.pid = k.pid + 1 /\ r.current_pcb = k.current_pcb
             /\ r.waiting_for_remove = k.waiting_for_remove
             /\ r.creation_queue = Append(k.creation_queue, k.pid)
             /\ k.pid \in Clients /\ k.status[k.pid] = NONE
             /\ \A x \in Pids : r.status[x] = IF x = k.pid THEN READY ELSE k.status[x]
<1>. DEFINE r == add_process_to_creation_queue(k)
            b == create_process(k)
<1>1. Sound(r) /\ IdleFirst(r)
  BY CreateLaterSound DEF Safe, Lawful, Gentle
<1>2. /\ Good(b) /\ k.pid \in Pids /\ k.pid > 3 /\ k.status[k.pid] = NONE
      /\ \A x \in Pids : b.status[x] = IF x = k.pid THEN READY ELSE k.status[x]
      /\ b.pid = k.pid + 1 /\ SameLists(k, b) /\ b.current_pcb = k.current_pcb /\ b.fault = k.fault
  BY CreateFields DEF Safe, SameLists
<1>3. r = [b EXCEPT !.creation_queue = Append(@, k.pid)]
  BY DEF add_process_to_creation_queue
<1>. HIDE DEF b, r
<1>4. /\ r.status = b.status /\ r.pid = b.pid /\ r.current_pcb = b.current_pcb /\ r.fault = b.fault
      /\ r.waiting_for_remove = b.waiting_for_remove
      /\ r.creation_queue = Append(b.creation_queue, k.pid)
  BY <1>2, <1>3 DEF Good, SchedState
<1>5. \A x \in Pids : r.status[x] = IF x = k.pid THEN READY ELSE k.status[x]
  BY <1>2, <1>4
<1>6. r.status[IDLE_PID] # BLOCKED
  BY <1>5, ConstantFacts DEF Safe, READY, BLOCKED
<1>7. Safe(r)
  BY <1>1, <1>2, <1>4, <1>6 DEF Safe
<1>8. k.pid \in Clients
  BY <1>2, ConstantFacts DEF Clients, Pids
<1>. QED  BY <1>2, <1>4, <1>5, <1>7, <1>8 DEF SameLists, r

\* A process is killed: it is the current one and the processor goes to another,
\* or the processor stays.
LEMMA KillCalm ==
  ASSUME NEW k, Safe(k), NEW p \in Pids, p # IDLE_PID, p # SHELL_PID, get_pcb_entry(k, p), NEW W
  PROVE  LET r == kill(k, p, W)
             woken(x) == x \in W /\ get_pcb_entry(k, x) /\ k.status[x] = BLOCKED
         IN  /\ Safe(r) /\ r.pid = k.pid
             /\ p = k.current_pcb => /\ r.waiting_for_remove = <<>> /\ r.creation_queue = <<>>
                                     /\ r.status[r.current_pcb] = RUNNING
             /\ p # k.current_pcb => /\ r.current_pcb = k.current_pcb
                                     /\ r.waiting_for_remove = Append(k.waiting_for_remove, p)
                                     /\ r.creation_queue = k.creation_queue
             /\ \A x \in Pids : /\ r.status[x] = DEAD <=> x = p \/ k.status[x] = DEAD
                                /\ r.status[x] = NONE <=> k.status[x] = NONE
                                /\ r.status[x] = BLOCKED <=> x # p /\ k.status[x] = BLOCKED /\ ~woken(x)
<1>. DEFINE woken(x) == x \in W /\ get_pcb_entry(k, x) /\ k.status[x] = BLOCKED
            v == os_revive_process(k, W)
            d == [v EXCEPT !.status[p] = DEAD]
            e == add_process_to_removal_queue(d, p)
            r == kill(k, p, W)
<1>1. r = IF p = k.current_pcb THEN finish_current_tick(e) ELSE e
  BY DEF kill
<1>2. /\ Safe(v) /\ SameRest(k, v) /\ SameLists(k, v)
      /\ \A x \in Pids : v.status[x] = IF /\ x \in W /\ get_pcb_entry(k, x)
                                          /\ k.status[x] \in {BLOCKED, RUNNING}
                                       THEN READY ELSE k.status[x]
  BY ReviveCalm
<1>3. k.status[p] # NONE
  BY QueuedIsHandedOut DEF Safe
<1>. HIDE DEF v, r
<1>4. v.status[p] # NONE
  BY <1>2, <1>3 DEF READY, NONE
<1>5. /\ Safe(d) /\ SameRest(v, d) /\ SameLists(v, d)
      /\ \A x \in Pids : d.status[x] = IF x = p THEN DEAD ELSE v.status[x]
  BY <1>2, <1>4, SetStatusCalm
<1>. HIDE DEF d
<1>6. /\ Safe(e) /\ SameRest(d, e) /\ e.status = d.status
      /\ e.creation_queue = d.creation_queue
      /\ e.waiting_for_remove = Append(d.waiting_for_remove, p)
  BY <1>5, RemovalCalm
<1>. HIDE DEF e
<1>7. \A x \in Pids : /\ e.status[x] = DEAD <=> x = p \/ k.status[x] = DEAD
                      /\ e.status[x] = NONE <=> k.status[x] = NONE
                      /\ e.status[x] = BLOCKED <=> x # p /\ k.status[x] = BLOCKED /\ ~woken(x)
  BY <1>2, <1>3, <1>5, <1>6 DEF READY, DEAD, NONE, BLOCKED, RUNNING
<1>. HIDE DEF woken
<1>8. CASE p # k.current_pcb
  BY <1>1, <1>2, <1>5, <1>6, <1>7, <1>8 DEF SameRest, SameLists, woken, r
<1>9. CASE p = k.current_pcb
  <2>1. Switched(e, r)
    BY <1>1, <1>6, <1>9, FinishTickCalm
  <2>2. \A x \in Pids : /\ r.status[x] = DEAD <=> x = p \/ k.status[x] = DEAD
                        /\ r.status[x] = NONE <=> k.status[x] = NONE
                        /\ r.status[x] = BLOCKED <=> x # p /\ k.status[x] = BLOCKED /\ ~woken(x)
    BY <1>7, <2>1 DEF Switched, Alike
  <2>3. Safe(r) /\ r.pid = k.pid
    BY <1>2, <1>5, <1>6, <2>1 DEF Switched, SameRest
  <2>4. r.waiting_for_remove = <<>> /\ r.creation_queue = <<>> /\ r.status[r.current_pcb] = RUNNING
    BY <2>1 DEF Switched
  <2>. QED  BY <1>9, <2>2, <2>3, <2>4 DEF woken, r
<1>. QED  BY <1>8, <1>9

-----------------------------------------------------------------------------
(* The scheduler inside the kernel. *)

\* k is a record with the fields of Now.
IsKernel(k) ==
  k = [status |-> k.status, priority |-> k.priority, ticks |-> k.ticks,
       queue |-> k.queue, waiting_for_remove |-> k.waiting_for_remove,
       creation_queue |-> k.creation_queue, current_pcb |-> k.current_pcb,
       pid |-> k.pid, fault |-> k.fault, sem_spaces |-> k.sem_spaces,
       foreground_pid |-> k.foreground_pid, at |-> k.at, holding |-> k.holding]

\* The scheduler's globals in k.
Globals(k) ==
  [status |-> k.status, priority |-> k.priority, ticks |-> k.ticks,
   queue |-> k.queue, waiting_for_remove |-> k.waiting_for_remove,
   creation_queue |-> k.creation_queue, current_pcb |-> k.current_pcb,
   pid |-> k.pid, fault |-> k.fault]

\* r has the scheduler's globals s and the rest of k.
Frame(k, r, s) ==
  /\ IsKernel(r) /\ Globals(r) = s
  /\ r.sem_spaces = k.sem_spaces /\ r.foreground_pid = k.foreground_pid
  /\ r.at = k.at /\ r.holding = k.holding

\* The scheduler part of a kernel record has the same fields.
LEMMA GlobalsFields ==
  ASSUME NEW k
  PROVE  /\ Globals(k).status = k.status /\ Globals(k).priority = k.priority
         /\ Globals(k).ticks = k.ticks /\ Globals(k).queue = k.queue
         /\ Globals(k).waiting_for_remove = k.waiting_for_remove
         /\ Globals(k).creation_queue = k.creation_queue
         /\ Globals(k).current_pcb = k.current_pcb
         /\ Globals(k).pid = k.pid /\ Globals(k).fault = k.fault
  BY DEF Globals

\* A record is framed by itself.
LEMMA FrameSelf == ASSUME NEW k, IsKernel(k) PROVE Frame(k, k, Globals(k))
  BY DEF Frame

\* Frames compose.
LEMMA FrameTrans ==
  ASSUME NEW k, NEW a, NEW s, NEW b, NEW t, Frame(k, a, s), Frame(a, b, t)
  PROVE  Frame(k, b, t)
  BY DEF Frame

\* Assigning one global does the same to the kernel and to its scheduler.
LEMMA SetGlobal ==
  ASSUME NEW k, NEW a, NEW s, Frame(k, a, s), NEW x
  PROVE  /\ Frame(k, [a EXCEPT !.status = x], [s EXCEPT !.status = x])
         /\ Frame(k, [a EXCEPT !.priority = x], [s EXCEPT !.priority = x])
         /\ Frame(k, [a EXCEPT !.ticks = x], [s EXCEPT !.ticks = x])
         /\ Frame(k, [a EXCEPT !.queue = x], [s EXCEPT !.queue = x])
         /\ Frame(k, [a EXCEPT !.waiting_for_remove = x], [s EXCEPT !.waiting_for_remove = x])
         /\ Frame(k, [a EXCEPT !.creation_queue = x], [s EXCEPT !.creation_queue = x])
         /\ Frame(k, [a EXCEPT !.current_pcb = x], [s EXCEPT !.current_pcb = x])
         /\ Frame(k, [a EXCEPT !.pid = x], [s EXCEPT !.pid = x])
         /\ Frame(k, [a EXCEPT !.fault = x], [s EXCEPT !.fault = x])
<1>1. s = Globals(a)
  BY DEF Frame
<1>2. Frame(k, [a EXCEPT !.status = x], [s EXCEPT !.status = x])
  BY <1>1 DEF Frame, IsKernel, Globals
<1>3. Frame(k, [a EXCEPT !.priority = x], [s EXCEPT !.priority = x])
  BY <1>1 DEF Frame, IsKernel, Globals
<1>4. Frame(k, [a EXCEPT !.ticks = x], [s EXCEPT !.ticks = x])
  BY <1>1 DEF Frame, IsKernel, Globals
<1>5. Frame(k, [a EXCEPT !.queue = x], [s EXCEPT !.queue = x])
  BY <1>1 DEF Frame, IsKernel, Globals
<1>6. Frame(k, [a EXCEPT !.waiting_for_remove = x], [s EXCEPT !.waiting_for_remove = x])
  BY <1>1 DEF Frame, IsKernel, Globals
<1>7. Frame(k, [a EXCEPT !.creation_queue = x], [s EXCEPT !.creation_queue = x])
  BY <1>1 DEF Frame, IsKernel, Globals
<1>8. Frame(k, [a EXCEPT !.current_pcb = x], [s EXCEPT !.current_pcb = x])
  BY <1>1 DEF Frame, IsKernel, Globals
<1>9. Frame(k, [a EXCEPT !.pid = x], [s EXCEPT !.pid = x])
  BY <1>1 DEF Frame, IsKernel, Globals
<1>10. Frame(k, [a EXCEPT !.fault = x], [s EXCEPT !.fault = x])
  BY <1>1 DEF Frame, IsKernel, Globals
<1>. QED  BY <1>2, <1>3, <1>4, <1>5, <1>6, <1>7, <1>8, <1>9, <1>10

\* kill_processes_in_removal_queue on the kernel and on its scheduler part.
LEMMA KillQueueFrame ==
  ASSUME NEW k, IsKernel(k)
  PROVE  Frame(k, kill_processes_in_removal_queue(k), kill_processes_in_removal_queue(Globals(k)))
<1>. DEFINE Q(l) == [i \in Priorities |->
                       Without(l.queue[i], {p \in Members(l.waiting_for_remove) : l.priority[p] = i})]
            q == Q(k)
<1>1. Q(k) = Q(Globals(k))
  BY GlobalsFields
<1>2. \A l : kill_processes_in_removal_queue(l)
               = [[l EXCEPT !.queue = Q(l)] EXCEPT !.waiting_for_remove = <<>>]
  BY DEF kill_processes_in_removal_queue
<1>. HIDE DEF Q
<1>3. Frame(k, [k EXCEPT !.queue = q], [Globals(k) EXCEPT !.queue = q])
  BY FrameSelf, SetGlobal
<1>4. Frame(k, [[k EXCEPT !.queue = q] EXCEPT !.waiting_for_remove = <<>>],
               [[Globals(k) EXCEPT !.queue = q] EXCEPT !.waiting_for_remove = <<>>])
  BY <1>3, SetGlobal
<1>. QED  BY <1>1, <1>2, <1>4

\* create_processes_in_creation_queue.
LEMMA CreateQueueFrame ==
  ASSUME NEW k, IsKernel(k)
  PROVE  Frame(k, create_processes_in_creation_queue(k), create_processes_in_creation_queue(Globals(k)))
<1>. DEFINE R(l) == [p \in Pids |-> IF p \in Members(l.creation_queue) THEN HIGH_PRIORITY ELSE l.priority[p]]
            T(l) == [p \in Pids |-> IF p \in Members(l.creation_queue) THEN 0 ELSE l.ticks[p]]
            Q(l) == [l.queue EXCEPT ![HIGH_PRIORITY] = @ \o l.creation_queue]
            r == R(k)
            t == T(k)
            q == Q(k)
<1>1. R(k) = R(Globals(k)) /\ T(k) = T(Globals(k)) /\ Q(k) = Q(Globals(k))
  BY GlobalsFields
<1>2. \A l : create_processes_in_creation_queue(l)
               = [[[[l EXCEPT !.priority = R(l)] EXCEPT !.ticks = T(l)]
                     EXCEPT !.queue = Q(l)] EXCEPT !.creation_queue = <<>>]
  BY DEF create_processes_in_creation_queue
<1>. HIDE DEF R, T, Q
<1>3. Frame(k, [k EXCEPT !.priority = r], [Globals(k) EXCEPT !.priority = r])
  BY FrameSelf, SetGlobal
<1>4. Frame(k, [[k EXCEPT !.priority = r] EXCEPT !.ticks = t],
               [[Globals(k) EXCEPT !.priority = r] EXCEPT !.ticks = t])
  BY <1>3, SetGlobal
<1>5. Frame(k, [[[k EXCEPT !.priority = r] EXCEPT !.ticks = t] EXCEPT !.queue = q],
               [[[Globals(k) EXCEPT !.priority = r] EXCEPT !.ticks = t] EXCEPT !.queue = q])
  BY <1>4, SetGlobal
<1>6. Frame(k, [[[[k EXCEPT !.priority = r] EXCEPT !.ticks = t] EXCEPT !.queue = q]
                  EXCEPT !.creation_queue = <<>>],
               [[[[Globals(k) EXCEPT !.priority = r] EXCEPT !.ticks = t] EXCEPT !.queue = q]
                  EXCEPT !.creation_queue = <<>>])
  BY <1>5, SetGlobal
<1>. QED  BY <1>1, <1>2, <1>6

\* change_process_priority.
LEMMA ChangePriorityFrame ==
  ASSUME NEW k, IsKernel(k), NEW p, NEW prio
  PROVE  Frame(k, change_process_priority(k, p, prio), change_process_priority(Globals(k), p, prio))
  BY DEF Frame, IsKernel, Globals, change_process_priority, get_pcb_entry

\* A process stopped: status READY, ticks 0.
LEMMA StoppedFrame ==
  ASSUME NEW k, IsKernel(k), NEW c
  PROVE  Frame(k, [k EXCEPT !.status[c] = READY, !.ticks[c] = 0],
                  [Globals(k) EXCEPT !.status[c] = READY, !.ticks[c] = 0])
<1>. DEFINE s == [k.status EXCEPT ![c] = READY]
            t == [k.ticks EXCEPT ![c] = 0]
<1>1. /\ [k EXCEPT !.status[c] = READY, !.ticks[c] = 0] = [[k EXCEPT !.status = s] EXCEPT !.ticks = t]
      /\ [Globals(k) EXCEPT !.status[c] = READY, !.ticks[c] = 0]
           = [[Globals(k) EXCEPT !.status = s] EXCEPT !.ticks = t]
  BY GlobalsFields
<1>. HIDE DEF s, t
<1>2. Frame(k, [k EXCEPT !.status = s], [Globals(k) EXCEPT !.status = s])
  BY FrameSelf, SetGlobal
<1>3. Frame(k, [[k EXCEPT !.status = s] EXCEPT !.ticks = t],
               [[Globals(k) EXCEPT !.status = s] EXCEPT !.ticks = t])
  BY <1>2, SetGlobal
<1>. QED  BY <1>1, <1>3

\* stop_current_process.
LEMMA StopCurrentFrame ==
  ASSUME NEW k, IsKernel(k)
  PROVE  Frame(k, stop_current_process(k), stop_current_process(Globals(k)))
<1>. DEFINE c == k.current_pcb
<1>1. Frame(k, [k EXCEPT !.status[c] = READY, !.ticks[c] = 0],
               [Globals(k) EXCEPT !.status[c] = READY, !.ticks[c] = 0])
  BY StoppedFrame
<1>2. Frame(k, change_process_priority(k, c, k.priority[c] - 1),
               change_process_priority(Globals(k), c, k.priority[c] - 1))
  BY ChangePriorityFrame
<1>. QED  BY <1>1, <1>2, FrameSelf, GlobalsFields DEF stop_current_process

\* The search of the queues reads nothing but the scheduler's globals.
LEMMA ScanFrame ==
  ASSUME NEW k
  PROVE  /\ \A s : Levels(Globals(k), s) = Levels(k, s)
         /\ NextReady(Globals(k)) = NextReady(k)
         /\ find_next_process(Globals(k)) = find_next_process(k)
         /\ NothingToRun(Globals(k)) <=> NothingToRun(k)
<1>1. \A i, s : At(Globals(k), i, s) = At(k, i, s)
  BY GlobalsFields DEF At
<1>2. \A s : Levels(Globals(k), s) = Levels(k, s)
  BY <1>1 DEF Levels
<1>3. NextReady(Globals(k)) = NextReady(k)
  BY <1>1, <1>2 DEF NextReady
<1>4. KeepRunning(Globals(k)) = KeepRunning(k)
  BY <1>1, <1>2, GlobalsFields DEF KeepRunning
<1>. QED  BY <1>1, <1>2, <1>3, <1>4, GlobalsFields DEF find_next_process, NothingToRun

\* Dispatch.
LEMMA DispatchFrame ==
  ASSUME NEW k, IsKernel(k), NEW p
  PROVE  Frame(k, Dispatch(k, p), Dispatch(Globals(k), p))
<1>. DEFINE Yes(l) == l.status[l.current_pcb] = RUNNING \/ (l.current_pcb = p /\ l.status[l.current_pcb] = READY)
            U(l) == IF Yes(l) THEN [l EXCEPT !.status[l.current_pcb] = READY, !.ticks[l.current_pcb] = 0] ELSE l
            Q(l) == IF Levels(l, READY) # {}
                      THEN [l.queue EXCEPT ![NextReady(l).level] = Advance(@, NextReady(l).at)]
                      ELSE l.queue
            u == U(k)
            g == U(Globals(k))
            q == Q(k)
            s == [u.status EXCEPT ![p] = RUNNING]
<1>1. Frame(k, u, g)
  <2>1. Yes(Globals(k)) <=> Yes(k)
    BY GlobalsFields
  <2>. HIDE DEF Yes
  <2>2. CASE Yes(k)
    <3>. DEFINE c == k.current_pcb
    <3>1. Frame(k, [k EXCEPT !.status[c] = READY, !.ticks[c] = 0],
                   [Globals(k) EXCEPT !.status[c] = READY, !.ticks[c] = 0])
      BY StoppedFrame
    <3>2. Globals(k).current_pcb = c
      BY GlobalsFields
    <3>. HIDE DEF c
    <3>3. /\ u = [k EXCEPT !.status[c] = READY, !.ticks[c] = 0]
          /\ g = [Globals(k) EXCEPT !.status[c] = READY, !.ticks[c] = 0]
      BY <2>1, <2>2, <3>2 DEF c
    <3>. QED  BY <3>1, <3>3
  <2>3. CASE ~Yes(k)
    BY <2>1, <2>3, FrameSelf
  <2>. QED  BY <2>2, <2>3
<1>2. \A l : Dispatch(l, p) = [U(l) EXCEPT !.status[p] = RUNNING, !.queue = Q(l), !.current_pcb = p]
  BY DEF Dispatch
<1>3. Q(Globals(k)) = q
  BY ScanFrame, GlobalsFields
<1>. HIDE DEF U, Q
<1>. HIDE DEF u, g, q
<1>4. g.status = u.status
  BY <1>1, GlobalsFields DEF Frame
<1>5. /\ Dispatch(k, p) = [[[u EXCEPT !.status = s] EXCEPT !.queue = q] EXCEPT !.current_pcb = p]
      /\ Dispatch(Globals(k), p) = [[[g EXCEPT !.status = s] EXCEPT !.queue = q] EXCEPT !.current_pcb = p]
  BY <1>2, <1>3, <1>4 DEF u, g, q
<1>. HIDE DEF s
<1>6. Frame(k, [u EXCEPT !.status = s], [g EXCEPT !.status = s])
  BY <1>1, SetGlobal
<1>7. Frame(k, [[u EXCEPT !.status = s] EXCEPT !.queue = q], [[g EXCEPT !.status = s] EXCEPT !.queue = q])
  BY <1>6, SetGlobal
<1>8. Frame(k, [[[u EXCEPT !.status = s] EXCEPT !.queue = q] EXCEPT !.current_pcb = p],
               [[[g EXCEPT !.status = s] EXCEPT !.queue = q] EXCEPT !.current_pcb = p])
  BY <1>7, SetGlobal
<1>. QED  BY <1>5, <1>8

\* switch_context.
LEMMA SwitchFrame ==
  ASSUME NEW k, IsKernel(k)
  PROVE  Frame(k, switch_context(k), switch_context(Globals(k)))
<1>. DEFINE a == kill_processes_in_removal_queue(k)
            b == create_processes_in_creation_queue(a)
            d == stop_current_process(b)
            g == stop_current_process(create_processes_in_creation_queue(
                   kill_processes_in_removal_queue(Globals(k))))
<1>1. Frame(k, a, kill_processes_in_removal_queue(Globals(k)))
  BY KillQueueFrame
<1>2. Frame(a, b, create_processes_in_creation_queue(Globals(a)))
  <2>1. IsKernel(a)
    BY <1>1 DEF Frame
  <2>. QED  BY <2>1, CreateQueueFrame
<1>3. Frame(b, d, stop_current_process(Globals(b)))
  <2>1. IsKernel(b)
    BY <1>2 DEF Frame
  <2>. QED  BY <2>1, StopCurrentFrame
<1>4. /\ switch_context(k) = IF NothingToRun(d) THEN [d EXCEPT !.fault = TRUE]
                             ELSE Dispatch(d, find_next_process(d))
      /\ switch_context(Globals(k)) = IF NothingToRun(g) THEN [g EXCEPT !.fault = TRUE]
                                      ELSE Dispatch(g, find_next_process(g))
  BY DEF switch_context
<1>. HIDE DEF a, b, d
<1>5. Globals(d) = g
  BY <1>1, <1>2, <1>3 DEF Frame
<1>. HIDE DEF g
<1>6. IsKernel(d) /\ Frame(k, d, g)
  BY <1>1, <1>2, <1>3, <1>5 DEF Frame
<1>7. /\ NothingToRun(g) <=> NothingToRun(d)
      /\ find_next_process(g) = find_next_process(d)
  BY <1>5, ScanFrame
<1>8. Frame(k, [d EXCEPT !.fault = TRUE], [g EXCEPT !.fault = TRUE])
  BY <1>6, SetGlobal
<1>9. Frame(d, Dispatch(d, find_next_process(d)), Dispatch(g, find_next_process(d)))
  BY <1>5, <1>6, DispatchFrame
<1>10. Frame(k, Dispatch(d, find_next_process(d)), Dispatch(g, find_next_process(d)))
  BY <1>6, <1>9, FrameTrans
<1>. QED  BY <1>4, <1>7, <1>8, <1>10

\* finish_current_tick.
LEMMA FinishTickFrame ==
  ASSUME NEW k, IsKernel(k)
  PROVE  Frame(k, finish_current_tick(k), finish_current_tick(Globals(k)))
<1>. DEFINE t == [k.ticks EXCEPT ![k.current_pcb] = quantum]
            a == [k EXCEPT !.ticks = t]
            g == [Globals(k) EXCEPT !.ticks = t]
<1>1. /\ finish_current_tick(k) = switch_context(a)
      /\ finish_current_tick(Globals(k)) = switch_context(g)
  BY GlobalsFields DEF finish_current_tick
<1>2. Frame(k, a, g)
  BY FrameSelf, SetGlobal
<1>. HIDE DEF a, g
<1>3. IsKernel(a) /\ g = Globals(a)
  BY <1>2 DEF Frame
<1>4. Frame(a, switch_context(a), switch_context(g))
  BY <1>3, SwitchFrame
<1>. QED  BY <1>1, <1>2, <1>4, FrameTrans

\* The timer interrupt.
LEMMA TimerFrame ==
  ASSUME NEW k, IsKernel(k)
  PROVE  Frame(k, timer_interrupt(k), timer_interrupt(Globals(k)))
<1>. DEFINE t == [k.ticks EXCEPT ![k.current_pcb] = @ + 1]
<1>1. Frame(k, [k EXCEPT !.ticks = t], [Globals(k) EXCEPT !.ticks = t])
  BY FrameSelf, SetGlobal
<1>2. Frame(k, switch_context(k), switch_context(Globals(k)))
  BY SwitchFrame
<1>. QED  BY <1>1, <1>2, GlobalsFields DEF timer_interrupt

\* Which processes are in a queue is read from the scheduler's globals.
LEMMA EntryFrame == ASSUME NEW k, NEW p PROVE get_pcb_entry(k, p) <=> get_pcb_entry(Globals(k), p)
  BY GlobalsFields DEF get_pcb_entry

\* os_revive_process.
LEMMA ReviveFrame ==
  ASSUME NEW k, IsKernel(k), NEW W
  PROVE  Frame(k, os_revive_process(k, W), os_revive_process(Globals(k), W))
<1>. DEFINE S(l) == [p \in Pids |-> IF /\ p \in W /\ get_pcb_entry(l, p)
                                       /\ l.status[p] \in {BLOCKED, RUNNING}
                                    THEN READY ELSE l.status[p]]
            s == S(k)
<1>1. S(k) = S(Globals(k))
  BY GlobalsFields, EntryFrame
<1>2. \A l : os_revive_process(l, W) = [l EXCEPT !.status = S(l)]
  BY DEF os_revive_process
<1>. HIDE DEF S
<1>3. Frame(k, [k EXCEPT !.status = s], [Globals(k) EXCEPT !.status = s])
  BY FrameSelf, SetGlobal
<1>. QED  BY <1>1, <1>2, <1>3

\* An assignment to one status.
LEMMA SetStatusFrame ==
  ASSUME NEW k, IsKernel(k), NEW p, NEW x
  PROVE  Frame(k, [k EXCEPT !.status[p] = x], [Globals(k) EXCEPT !.status[p] = x])
<1>. DEFINE s == [k.status EXCEPT ![p] = x]
<1>1. Frame(k, [k EXCEPT !.status = s], [Globals(k) EXCEPT !.status = s])
  BY FrameSelf, SetGlobal
<1>. QED  BY <1>1, GlobalsFields

\* Entering the removal queue.
LEMMA RemovalQueueFrame ==
  ASSUME NEW k, IsKernel(k), NEW p
  PROVE  Frame(k, add_process_to_removal_queue(k, p), add_process_to_removal_queue(Globals(k), p))
<1>. DEFINE w == Append(k.waiting_for_remove, p)
<1>1. Frame(k, [k EXCEPT !.waiting_for_remove = w], [Globals(k) EXCEPT !.waiting_for_remove = w])
  BY FrameSelf, SetGlobal
<1>. QED  BY <1>1, GlobalsFields DEF add_process_to_removal_queue

\* A process that blocks itself.
LEMMA BlockCurrentFrame ==
  ASSUME NEW k, IsKernel(k)
  PROVE  Frame(k, block_current(k), block_current(Globals(k)))
<1>. DEFINE a == [k EXCEPT !.status[k.current_pcb] = BLOCKED]
            g == [Globals(k) EXCEPT !.status[k.current_pcb] = BLOCKED]
<1>1. /\ block_current(k) = finish_current_tick(a)
      /\ block_current(Globals(k)) = finish_current_tick(g)
  BY GlobalsFields DEF block_current
<1>2. Frame(k, a, g)
  BY SetStatusFrame
<1>. HIDE DEF a, g
<1>3. IsKernel(a) /\ g = Globals(a)
  BY <1>2 DEF Frame
<1>4. Frame(a, finish_current_tick(a), finish_current_tick(g))
  BY <1>3, FinishTickFrame
<1>. QED  BY <1>1, <1>2, <1>4, FrameTrans

\* create_process.
LEMMA CreateProcessFrame ==
  ASSUME NEW k, IsKernel(k)
  PROVE  Frame(k, create_process(k), create_process(Globals(k)))
<1>. DEFINE s == [k.status EXCEPT ![k.pid] = READY]
            n == k.pid + 1
<1>1. Frame(k, [k EXCEPT !.status = s], [Globals(k) EXCEPT !.status = s])
  BY FrameSelf, SetGlobal
<1>2. Frame(k, [[k EXCEPT !.status = s] EXCEPT !.pid = n], [[Globals(k) EXCEPT !.status = s] EXCEPT !.pid = n])
  BY <1>1, SetGlobal
<1>3. /\ create_process(k) = [[k EXCEPT !.status = s] EXCEPT !.pid = n]
      /\ create_process(Globals(k)) = [[Globals(k) EXCEPT !.status = s] EXCEPT !.pid = n]
  BY GlobalsFields DEF create_process
<1>. QED  BY <1>2, <1>3

\* create_and_insert_process.
LEMMA CreateFrame ==
  ASSUME NEW k, IsKernel(k)
  PROVE  Frame(k, create_and_insert_process(k), create_and_insert_process(Globals(k)))
<1>. DEFINE a == create_process(k)
            g == create_process(Globals(k))
            n == k.pid
            r == [a.priority EXCEPT ![n] = HIGH_PRIORITY]
            t == [a.ticks EXCEPT ![n] = 0]
            q == [a.queue EXCEPT ![HIGH_PRIORITY] = Append(@, n)]
<1>1. Frame(k, a, g)
  BY CreateProcessFrame
<1>2. /\ create_and_insert_process(k) = add_new_process(a, n)
      /\ create_and_insert_process(Globals(k)) = add_new_process(g, n)
  BY GlobalsFields DEF create_and_insert_process
<1>. HIDE DEF a, g, n
<1>3. g.priority = a.priority /\ g.ticks = a.ticks /\ g.queue = a.queue
  BY <1>1, GlobalsFields DEF Frame
<1>4. /\ add_new_process(a, n) = [[[a EXCEPT !.priority = r] EXCEPT !.ticks = t] EXCEPT !.queue = q]
      /\ add_new_process(g, n) = [[[g EXCEPT !.priority = r] EXCEPT !.ticks = t] EXCEPT !.queue = q]
  BY <1>3 DEF add_new_process
<1>. HIDE DEF r, t, q
<1>5. Frame(k, [a EXCEPT !.priority = r], [g EXCEPT !.priority = r])
  BY <1>1, SetGlobal
<1>6. Frame(k, [[a EXCEPT !.priority = r] EXCEPT !.ticks = t], [[g EXCEPT !.priority = r] EXCEPT !.ticks = t])
  BY <1>5, SetGlobal
<1>7. Frame(k, [[[a EXCEPT !.priority = r] EXCEPT !.ticks = t] EXCEPT !.queue = q],
               [[[g EXCEPT !.priority = r] EXCEPT !.ticks = t] EXCEPT !.queue = q])
  BY <1>6, SetGlobal
<1>. QED  BY <1>2, <1>4, <1>7

\* add_process_to_creation_queue.
LEMMA CreateLaterFrame ==
  ASSUME NEW k, IsKernel(k)
  PROVE  Frame(k, add_process_to_creation_queue(k), add_process_to_creation_queue(Globals(k)))
<1>. DEFINE a == create_process(k)
            g == create_process(Globals(k))
            w == Append(a.creation_queue, k.pid)
<1>1. Frame(k, a, g)
  BY CreateProcessFrame
<1>2. g.creation_queue = a.creation_queue
  BY <1>1, GlobalsFields DEF Frame
<1>3. /\ add_process_to_creation_queue(k) = [a EXCEPT !.creation_queue = w]
      /\ add_process_to_creation_queue(Globals(k)) = [g EXCEPT !.creation_queue = w]
  BY <1>2, GlobalsFields DEF add_process_to_creation_queue
<1>. HIDE DEF a, g, w
<1>4. Frame(k, [a EXCEPT !.creation_queue = w], [g EXCEPT !.creation_queue = w])
  BY <1>1, SetGlobal
<1>. QED  BY <1>3, <1>4

-----------------------------------------------------------------------------
(* The kernel's own state. *)

\* r is the kernel record with these parts.
Parts(r, g, sp, fg, a, h) ==
  /\ IsKernel(r) /\ Globals(r) = g
  /\ r.sem_spaces = sp /\ r.foreground_pid = fg /\ r.at = a /\ r.holding = h

\* What a function of basicScheduler.c does to the parts.
LEMMA FrameParts ==
  ASSUME NEW k, NEW g, NEW sp, NEW fg, NEW a, NEW h, Parts(k, g, sp, fg, a, h),
         NEW r, NEW s, Frame(k, r, s)
  PROVE  Parts(r, s, sp, fg, a, h)
  BY DEF Parts, Frame

\* The fields of a kernel record that is put together from given parts.
LEMMA PartsFields ==
  ASSUME NEW k, NEW g, NEW sp, NEW fg, NEW a, NEW h, Parts(k, g, sp, fg, a, h)
  PROVE  /\ IsKernel(k) /\ g = Globals(k)
         /\ k.sem_spaces = sp /\ k.foreground_pid = fg /\ k.at = a /\ k.holding = h
         /\ k.status = g.status /\ k.priority = g.priority /\ k.ticks = g.ticks
         /\ k.queue = g.queue /\ k.waiting_for_remove = g.waiting_for_remove
         /\ k.creation_queue = g.creation_queue /\ k.current_pcb = g.current_pcb
         /\ k.pid = g.pid /\ k.fault = g.fault
  BY GlobalsFields DEF Parts

\* Assigning one of the kernel's own variables.
LEMMA SetPart ==
  ASSUME NEW k, NEW g, NEW sp, NEW fg, NEW a, NEW h, Parts(k, g, sp, fg, a, h), NEW x
  PROVE  /\ Parts([k EXCEPT !.sem_spaces = x], g, x, fg, a, h)
         /\ Parts([k EXCEPT !.foreground_pid = x], g, sp, x, a, h)
         /\ Parts([k EXCEPT !.at = x], g, sp, fg, x, h)
         /\ Parts([k EXCEPT !.holding = x], g, sp, fg, a, x)
<1>1. Parts([k EXCEPT !.sem_spaces = x], g, x, fg, a, h)
  BY DEF Parts, IsKernel, Globals
<1>2. Parts([k EXCEPT !.foreground_pid = x], g, sp, x, a, h)
  BY DEF Parts, IsKernel, Globals
<1>3. Parts([k EXCEPT !.at = x], g, sp, fg, x, h)
  BY DEF Parts, IsKernel, Globals
<1>4. Parts([k EXCEPT !.holding = x], g, sp, fg, a, x)
  BY DEF Parts, IsKernel, Globals
<1>. QED  BY <1>1, <1>2, <1>3, <1>4

\* The parts of the current state are the variables.
LEMMA NowParts == Parts(Now, Sched, sem_spaces, foreground_pid, at, holding)
  BY DEF Parts, IsKernel, Globals, Now, Sched

\* The foreground process after a step whose own code leaves it at fg.
Moved(fg) ==
  foreground_pid' = IF creation_queue # <<>> /\ creation_queue' = <<>>
                      THEN creation_queue[Len(creation_queue)] ELSE fg

\* The state after a step to r.
LEMMA BecomesParts ==
  ASSUME NEW r, NEW g, NEW sp, NEW fg, NEW a, NEW h, Parts(r, g, sp, fg, a, h), Becomes(r)
  PROVE  Sched' = g /\ sem_spaces' = sp /\ at' = a /\ holding' = h /\ Moved(fg)
<1>1. /\ r.creation_queue = g.creation_queue /\ r.foreground_pid = fg
      /\ r.sem_spaces = sp /\ r.at = a /\ r.holding = h
  BY PartsFields
<1>2. Sched' = Globals(r)
  BY DEF Becomes, SchedBecomes, Sched, Globals
<1>3. Globals(r) = g
  BY DEF Parts
<1>4. creation_queue' = r.creation_queue
  BY DEF Becomes, SchedBecomes
<1>. QED  BY <1>1, <1>2, <1>3, <1>4 DEF Becomes, Foreground, Moved

-----------------------------------------------------------------------------
(* The semaphore table. *)

Busy(sp, i) == sp[i].status = "UNAVAILABLE"

Semaphore == [status : {"AVAILABLE", "UNAVAILABLE"},
              identifier : Names \cup {0},
              is_locked : BOOLEAN,
              queue : Seq(Pids),
              allowed_processes : Seq(Pids \cup {NOBODY})]

\* locate_sem, and what opening, posting and closing do to the table sp.
Slot(sp, name) ==
  LET found == {i \in Slots : sp[i].status = "UNAVAILABLE" /\ sp[i].identifier = name}
  IN  IF found = {} THEN NOT_FOUND ELSE Smallest(found)

OpenTable(sp, start_value, name, c) ==
  LET i == Slot(sp, name)
      free == {j \in Slots : sp[j].status = "AVAILABLE"}
  IN  IF i # NOT_FOUND THEN [sp EXCEPT ![i].allowed_processes = Append(@, c)]
      ELSE IF free # {} THEN [sp EXCEPT ![Smallest(free)] = Opened(name, start_value, c)]
      ELSE sp

CloseTable(sp, name, c) ==
  LET i == Slot(sp, name)
      allowed == CrossOut(sp[i].allowed_processes, c)
  IN  IF i = NOT_FOUND THEN sp
      ELSE IF allowed = <<>> THEN [sp EXCEPT ![i] = AVAILABLE]
      ELSE [sp EXCEPT ![i].allowed_processes = allowed]

Rest(q) == SubSeq(q, Woken(q) + 1, Len(q))
First(q) == SubSeq(q, 1, Woken(q))

WakeTable(sp, i) == [sp EXCEPT ![i].queue = Rest(@)]

UnlockTable(sp, i) == [sp EXCEPT ![i].is_locked = FALSE]

PostTable(sp, name) ==
  LET i == Slot(sp, name)
  IN  IF i = NOT_FOUND THEN sp ELSE WakeTable(UnlockTable(sp, i), i)

\* Whom a post wakes.
PostWakes(sp, name) ==
  LET i == Slot(sp, name)
  IN  IF i = NOT_FOUND THEN {} ELSE Members(First(UnlockTable(sp, i)[i].queue))

\* What the proofs use of the constants.
LEMMA KernelConstants ==
  /\ MAX_SEMS \in Nat /\ Slots \subseteq Nat /\ 1 \in Slots /\ 2 \in Slots /\ 0 \notin Slots
  /\ \A n \in SemNames : n \notin 0 .. MaxPid /\ n \notin Pids /\ n # 0
  /\ Clients \subseteq Pids /\ SHELL_PID \notin Clients /\ IDLE_PID \notin Clients
  /\ 0 \notin Pids /\ NOBODY \notin Pids /\ NOBODY \notin Slots
<1>1. \A n \in SemNames : n \notin 0 .. MaxPid
  BY KernelAssumption
<1>2. Pids \subseteq 0 .. MaxPid /\ 0 \in 0 .. MaxPid
  BY SchedulerAssumption DEF Pids, SHELL_PID
<1>3. 0 \notin Pids /\ NOBODY \notin Pids
  BY SchedulerAssumption DEF Pids, SHELL_PID, NOBODY
<1>. QED  BY <1>1, <1>2, <1>3, KernelAssumption, SchedulerAssumption
          DEF Slots, Clients, Pids, SHELL_PID, IDLE_PID, NOBODY

\* The slot found has the name, and none has it when none is found.
LEMMA SlotFacts ==
  ASSUME NEW sp, NEW name
  PROVE  LET i == Slot(sp, name)
         IN  \/ i \in Slots /\ i # NOT_FOUND /\ Busy(sp, i) /\ sp[i].identifier = name
             \/ i = NOT_FOUND /\ \A j \in Slots : ~(Busy(sp, j) /\ sp[j].identifier = name)
<1>. DEFINE found == {i \in Slots : sp[i].status = "UNAVAILABLE" /\ sp[i].identifier = name}
<1>1. CASE found = {}
  BY <1>1 DEF Slot, Busy
<1>2. CASE found # {}
  <2>1. found \subseteq Nat
    BY KernelConstants
  <2>2. Slot(sp, name) = Smallest(found)
    BY <1>2 DEF Slot
  <2>3. Smallest(found) \in found
    <3>. HIDE DEF found
    <3>. QED  BY <1>2, <2>1, SmallestExists
  <2>. QED  BY <2>2, <2>3, KernelConstants DEF Busy, NOT_FOUND
<1>. QED  BY <1>1, <1>2

\* my_sem_open changes the table only.
LEMMA OpenParts ==
  ASSUME NEW k, NEW g, NEW sp, NEW fg, NEW a, NEW h, Parts(k, g, sp, fg, a, h),
         NEW v, NEW name
  PROVE  Parts(my_sem_open(k, v, name), g, OpenTable(sp, v, name, g.current_pcb), fg, a, h)
<1>. DEFINE c == g.current_pcb
            i == Slot(sp, name)
            free == {j \in Slots : sp[j].status = "AVAILABLE"}
            t1 == [sp EXCEPT ![i].allowed_processes = Append(@, c)]
            t2 == [sp EXCEPT ![Smallest(free)] = Opened(name, v, c)]
<1>1. k.sem_spaces = sp /\ k.current_pcb = c
  BY PartsFields
<1>2. locate_sem(k, name) = i
  BY <1>1 DEF locate_sem, Slot
<1>3. my_sem_open(k, v, name) = IF i # NOT_FOUND THEN [k EXCEPT !.sem_spaces = t1]
                                ELSE IF free # {} THEN [k EXCEPT !.sem_spaces = t2] ELSE k
  <2>1. free = {j \in Slots : k.sem_spaces[j].status = "AVAILABLE"}
    BY <1>1
  <2>. HIDE DEF i, free, c
  <2>. QED  BY <1>1, <1>2, <2>1 DEF my_sem_open
<1>4. OpenTable(sp, v, name, c) = IF i # NOT_FOUND THEN t1 ELSE IF free # {} THEN t2 ELSE sp
  BY DEF OpenTable
<1>. HIDE DEF t1, t2, i, free, c
<1>5. Parts([k EXCEPT !.sem_spaces = t1], g, t1, fg, a, h) /\ Parts([k EXCEPT !.sem_spaces = t2], g, t2, fg, a, h)
  BY SetPart
<1>. QED  BY <1>3, <1>4, <1>5 DEF c

\* my_sem_close changes the table only.
LEMMA CloseParts ==
  ASSUME NEW k, NEW g, NEW sp, NEW fg, NEW a, NEW h, Parts(k, g, sp, fg, a, h), NEW name
  PROVE  Parts(my_sem_close(k, name), g, CloseTable(sp, name, g.current_pcb), fg, a, h)
<1>. DEFINE c == g.current_pcb
            i == Slot(sp, name)
            allowed == CrossOut(sp[i].allowed_processes, c)
            t1 == [sp EXCEPT ![i] = AVAILABLE]
            t2 == [sp EXCEPT ![i].allowed_processes = allowed]
<1>1. k.sem_spaces = sp /\ k.current_pcb = c
  BY PartsFields
<1>2. locate_sem(k, name) = i
  BY <1>1 DEF locate_sem, Slot
<1>3. my_sem_close(k, name) = IF i = NOT_FOUND THEN k
                              ELSE IF allowed = <<>> THEN [k EXCEPT !.sem_spaces = t1]
                              ELSE [k EXCEPT !.sem_spaces = t2]
  BY <1>1, <1>2 DEF my_sem_close, clear_sem
<1>4. CloseTable(sp, name, c) = IF i = NOT_FOUND THEN sp ELSE IF allowed = <<>> THEN t1 ELSE t2
  BY DEF CloseTable
<1>. HIDE DEF t1, t2, i, allowed, c
<1>5. Parts([k EXCEPT !.sem_spaces = t1], g, t1, fg, a, h) /\ Parts([k EXCEPT !.sem_spaces = t2], g, t2, fg, a, h)
  BY SetPart
<1>. QED  BY <1>3, <1>4, <1>5 DEF c

\* Waking half of the waiters of a slot changes the scheduler and that queue.
LEMMA WakeParts ==
  ASSUME NEW k, NEW g, NEW sp, NEW fg, NEW a, NEW h, Parts(k, g, sp, fg, a, h), NEW i
  PROVE  Parts(wake_up_processes(k, i), os_revive_process(g, Members(First(sp[i].queue))),
               WakeTable(sp, i), fg, a, h)
<1>. DEFINE t == WakeTable(sp, i)
            W == Members(First(sp[i].queue))
            b == [k EXCEPT !.sem_spaces = t]
<1>1. k.sem_spaces = sp
  BY PartsFields
<1>2. wake_up_processes(k, i) = os_revive_process(b, W)
  BY <1>1 DEF wake_up_processes, WakeTable, First, Rest
<1>. HIDE DEF t, W
<1>3. Parts(b, g, t, fg, a, h)
  BY SetPart
<1>. HIDE DEF b
<1>4. IsKernel(b) /\ Globals(b) = g
  BY <1>3 DEF Parts
<1>5. Frame(b, os_revive_process(b, W), os_revive_process(g, W))
  BY <1>4, ReviveFrame
<1>6. Parts(os_revive_process(b, W), os_revive_process(g, W), t, fg, a, h)
  BY <1>3, <1>5, FrameParts
<1>. QED  BY <1>2, <1>6 DEF t, W

\* Reviving nobody changes nothing.
LEMMA ReviveNobody == ASSUME NEW g \in SchedState PROVE os_revive_process(g, {}) = g
<1>1. os_revive_process(g, {}) = [g EXCEPT !.status = [p \in Pids |-> g.status[p]]]
  BY DEF os_revive_process
<1>2. g.status = [p \in Pids |-> g.status[p]]
  BY DEF SchedState
<1>. DEFINE st == [p \in Pids |-> g.status[p]]
<1>. HIDE DEF st
<1>. QED  BY <1>1, <1>2 DEF SchedState, st

\* my_sem_post.
LEMMA PostParts ==
  ASSUME NEW k, NEW g \in SchedState, NEW sp, NEW fg, NEW a, NEW h, Parts(k, g, sp, fg, a, h),
         NEW name
  PROVE  Parts(my_sem_post(k, name), os_revive_process(g, PostWakes(sp, name)),
               PostTable(sp, name), fg, a, h)
<1>. DEFINE i == Slot(sp, name)
            t == UnlockTable(sp, i)
            b == [k EXCEPT !.sem_spaces = t]
<1>1. k.sem_spaces = sp
  BY PartsFields
<1>2. locate_sem(k, name) = i
  BY <1>1 DEF locate_sem, Slot
<1>3. CASE i = NOT_FOUND
  BY <1>2, <1>3, ReviveNobody DEF my_sem_post, PostTable, PostWakes
<1>4. CASE i # NOT_FOUND
  <2>1. my_sem_post(k, name) = wake_up_processes(b, i)
    BY <1>1, <1>2, <1>4 DEF my_sem_post, UnlockTable
  <2>2. PostTable(sp, name) = WakeTable(t, i) /\ PostWakes(sp, name) = Members(First(t[i].queue))
    BY <1>4 DEF PostTable, PostWakes
  <2>. HIDE DEF t, i
  <2>3. Parts(b, g, t, fg, a, h)
    BY SetPart
  <2>. HIDE DEF b
  <2>4. Parts(wake_up_processes(b, i), os_revive_process(g, Members(First(t[i].queue))),
              WakeTable(t, i), fg, a, h)
    BY <2>3, WakeParts
  <2>. QED  BY <2>1, <2>2, <2>4
<1>. QED  BY <1>3, <1>4

-----------------------------------------------------------------------------
(* Killing and waiting. *)

\* force_kill is the scheduler's kill, with the wake-ups of the post.
LEMMA ForceKillParts ==
  ASSUME NEW k, NEW g \in SchedState, NEW sp, NEW fg, NEW a, NEW h, Parts(k, g, sp, fg, a, h),
         NEW p, p # SHELL_PID, get_pcb_entry(g, p)
  PROVE  Parts(force_kill(k, p), kill(g, p, PostWakes(sp, p)), PostTable(sp, p),
               IF fg = p THEN SHELL_PID ELSE fg, a, h)
<1>. DEFINE f == IF fg = p THEN SHELL_PID ELSE fg
            W == PostWakes(sp, p)
            t == PostTable(sp, p)
            k1 == IF k.foreground_pid = p THEN [k EXCEPT !.foreground_pid = SHELL_PID] ELSE k
            m == my_sem_post(k1, p)
            d == [m EXCEPT !.status[p] = DEAD]
            e == add_process_to_removal_queue(d, p)
            gm == os_revive_process(g, W)
            gd == [gm EXCEPT !.status[p] = DEAD]
            ge == add_process_to_removal_queue(gd, p)
<1>1. k.foreground_pid = fg /\ (get_pcb_entry(k, p) <=> get_pcb_entry(g, p))
  BY PartsFields, EntryFrame
<1>2. force_kill(k, p) = IF p = e.current_pcb THEN finish_current_tick(e) ELSE e
  BY <1>1 DEF force_kill, Yielding
<1>3. kill(g, p, W) = IF p = g.current_pcb THEN finish_current_tick(ge) ELSE ge
  BY DEF kill
<1>4. ge.current_pcb = g.current_pcb
  BY DEF os_revive_process, add_process_to_removal_queue, SchedState
<1>5. Parts(k1, g, sp, f, a, h)
  BY <1>1, SetPart
<1>. HIDE DEF k1, W, t, f
<1>6. Parts(m, gm, t, f, a, h)
  BY <1>5, PostParts DEF W, t
<1>. HIDE DEF m, gm
<1>7. Parts(d, gd, t, f, a, h)
  <2>1. IsKernel(m) /\ Globals(m) = gm
    BY <1>6 DEF Parts
  <2>2. Frame(m, d, gd)
    BY <2>1, SetStatusFrame
  <2>. HIDE DEF d, gd
  <2>. QED  BY <1>6, <2>2, FrameParts
<1>. HIDE DEF d, gd
<1>8. Parts(e, ge, t, f, a, h)
  <2>1. IsKernel(d) /\ Globals(d) = gd
    BY <1>7 DEF Parts
  <2>2. Frame(d, e, ge)
    BY <2>1, RemovalQueueFrame
  <2>. HIDE DEF e, ge
  <2>. QED  BY <1>7, <2>2, FrameParts
<1>. HIDE DEF e, ge
<1>9. IsKernel(e) /\ Globals(e) = ge /\ e.current_pcb = g.current_pcb
  BY <1>4, <1>8, PartsFields
<1>10. Parts(finish_current_tick(e), finish_current_tick(ge), t, f, a, h)
  <2>1. Frame(e, finish_current_tick(e), finish_current_tick(ge))
    BY <1>9, FinishTickFrame
  <2>. QED  BY <1>8, <2>1, FrameParts
<1>. QED  BY <1>2, <1>3, <1>8, <1>9, <1>10 DEF t, f, W

\* force_kill of the shell, or of a process in no queue, does nothing.
LEMMA ForceKillNothing ==
  ASSUME NEW k, NEW g, NEW sp, NEW fg, NEW a, NEW h, Parts(k, g, sp, fg, a, h),
         NEW p, p = SHELL_PID \/ ~get_pcb_entry(g, p)
  PROVE  force_kill(k, p) = k
  BY PartsFields, EntryFrame DEF force_kill

\* The parts of the record in which a waiter has taken the lock.
LEMMA TakenParts ==
  ASSUME NEW k, NEW g, NEW sp, NEW fg, NEW a, NEW h, Parts(k, g, sp, fg, a, h), NEW name, NEW i
  PROVE  LET c == g.current_pcb
         IN  Parts([k EXCEPT !.sem_spaces[i].is_locked = TRUE,
                             !.holding[k.current_pcb] = @ \cup {name},
                             !.at[k.current_pcb] = User],
                   g, [sp EXCEPT ![i].is_locked = TRUE], fg,
                   [a EXCEPT ![c] = User], [h EXCEPT ![c] = @ \cup {name}])
<1>. DEFINE c == g.current_pcb
            t == [sp EXCEPT ![i].is_locked = TRUE]
            b == [h EXCEPT ![c] = @ \cup {name}]
            l == [a EXCEPT ![c] = User]
<1>1. k.sem_spaces = sp /\ k.at = a /\ k.holding = h /\ k.current_pcb = c
  BY PartsFields
<1>2. [k EXCEPT !.sem_spaces[i].is_locked = TRUE, !.holding[k.current_pcb] = @ \cup {name},
                !.at[k.current_pcb] = User]
        = [[[k EXCEPT !.sem_spaces = t] EXCEPT !.holding = b] EXCEPT !.at = l]
  BY <1>1
<1>. HIDE DEF t, b, l
<1>3. Parts([k EXCEPT !.sem_spaces = t], g, t, fg, a, h)
  BY SetPart
<1>4. Parts([[k EXCEPT !.sem_spaces = t] EXCEPT !.holding = b], g, t, fg, a, b)
  BY <1>3, SetPart
<1>5. Parts([[[k EXCEPT !.sem_spaces = t] EXCEPT !.holding = b] EXCEPT !.at = l], g, t, fg, l, b)
  BY <1>4, SetPart
<1>. QED  BY <1>2, <1>5 DEF t, b, l

\* enter_region when the semaphore is locked.
LEMMA SleepParts ==
  ASSUME NEW k, NEW g, NEW sp, NEW fg, NEW a, NEW h, Parts(k, g, sp, fg, a, h), NEW name, NEW i,
         sp[i].is_locked
  PROVE  LET c == g.current_pcb
         IN  Parts(enter_region(k, name, i), block_current(g),
                   [sp EXCEPT ![i].queue = Append(@, c)], fg,
                   [a EXCEPT ![c] = Waiting(name, i)], h)
<1>. DEFINE c == g.current_pcb
            t == [sp EXCEPT ![i].queue = Append(@, c)]
            l == [a EXCEPT ![c] = Waiting(name, i)]
            b == [[k EXCEPT !.sem_spaces = t] EXCEPT !.at = l]
<1>1. k.sem_spaces = sp /\ k.at = a /\ k.current_pcb = c
  BY PartsFields
<1>2. enter_region(k, name, i) = block_current(b)
  BY <1>1 DEF enter_region
<1>. HIDE DEF t, l
<1>3. Parts([k EXCEPT !.sem_spaces = t], g, t, fg, a, h)
  BY SetPart
<1>4. Parts(b, g, t, fg, l, h)
  BY <1>3, SetPart
<1>. HIDE DEF b
<1>5. IsKernel(b) /\ Globals(b) = g
  BY <1>4 DEF Parts
<1>6. Frame(b, block_current(b), block_current(g))
  BY <1>5, BlockCurrentFrame
<1>7. Parts(block_current(b), block_current(g), t, fg, l, h)
  BY <1>4, <1>6, FrameParts
<1>. QED  BY <1>2, <1>7 DEF t, l

-----------------------------------------------------------------------------
(* The steps of the kernel, variable by variable. *)

\* The timer interrupt changes the scheduler and, through a creation, the foreground.
LEMMA TimerEffect ==
  ASSUME TimerInterrupt
  PROVE  /\ Sched' = timer_interrupt(Sched) /\ sem_spaces' = sem_spaces
         /\ at' = at /\ holding' = holding /\ Moved(foreground_pid)
<1>1. Frame(Now, timer_interrupt(Now), timer_interrupt(Sched))
  BY NowParts, PartsFields, TimerFrame
<1>2. Parts(timer_interrupt(Now), timer_interrupt(Sched), sem_spaces, foreground_pid, at, holding)
  BY <1>1, NowParts, FrameParts
<1>. QED  BY <1>2, BecomesParts DEF TimerInterrupt

\* SysYield, and the last step of an exit, which never returns.
LEMMA YieldEffect ==
  ASSUME SysYield \/ ExitFinish
  PROVE  /\ Sched' = finish_current_tick(Sched) /\ sem_spaces' = sem_spaces
         /\ at' = at /\ holding' = holding /\ Moved(foreground_pid)
<1>1. Frame(Now, finish_current_tick(Now), finish_current_tick(Sched))
  BY NowParts, PartsFields, FinishTickFrame
<1>2. Parts(finish_current_tick(Now), finish_current_tick(Sched), sem_spaces, foreground_pid, at, holding)
  BY <1>1, NowParts, FrameParts
<1>. QED  BY <1>2, BecomesParts DEF SysYield, ExitFinish

\* The first step of an exit gives the foreground back to the shell.
LEMMA ExitStartEffect ==
  ASSUME ExitStart
  PROVE  /\ Sched' = Sched /\ sem_spaces' = sem_spaces /\ holding' = holding
         /\ at' = [at EXCEPT ![current_pcb] = Goes("unlock", 0)]
         /\ Moved(IF foreground_pid = current_pcb THEN SHELL_PID ELSE foreground_pid)
<1>. DEFINE f == IF foreground_pid = current_pcb THEN SHELL_PID ELSE foreground_pid
            l == [at EXCEPT ![current_pcb] = Goes("unlock", 0)]
            r == [[Now EXCEPT !.foreground_pid = f] EXCEPT !.at = l]
<1>1. Now.foreground_pid = foreground_pid /\ Now.at = at
  BY DEF Now
<1>2. Becomes(r)
  BY <1>1 DEF ExitStart
<1>. HIDE DEF f, l
<1>3. Parts([Now EXCEPT !.foreground_pid = f], Sched, sem_spaces, f, at, holding)
  BY NowParts, SetPart
<1>4. Parts(r, Sched, sem_spaces, f, l, holding)
  BY <1>3, SetPart
<1>. HIDE DEF r
<1>. QED  BY <1>2, <1>4, BecomesParts DEF f, l

\* The exiting process opens its semaphore.
LEMMA ExitUnlockEffect ==
  ASSUME ExitUnlock
  PROVE  LET i == Slot(sem_spaces, current_pcb)
         IN  /\ Sched' = Sched /\ holding' = holding /\ Moved(foreground_pid)
             /\ \/ /\ i = NOT_FOUND /\ sem_spaces' = sem_spaces
                   /\ at' = [at EXCEPT ![current_pcb] = Goes("die", 0)]
                \/ /\ i # NOT_FOUND /\ sem_spaces' = UnlockTable(sem_spaces, i)
                   /\ at' = [at EXCEPT ![current_pcb] = Goes("wake", i)]
<1>. DEFINE i == Slot(sem_spaces, current_pcb)
            l == [at EXCEPT ![current_pcb] = Goes("die", 0)]
            u == [at EXCEPT ![current_pcb] = Goes("wake", i)]
            t == UnlockTable(sem_spaces, i)
<1>1. Now.sem_spaces = sem_spaces /\ Now.at = at
  BY DEF Now
<1>2. locate_sem(Now, current_pcb) = i
  BY <1>1 DEF locate_sem, Slot
<1>3. CASE i = NOT_FOUND
  <2>1. Becomes([Now EXCEPT !.at = l])
    BY <1>1, <1>2, <1>3 DEF ExitUnlock
  <2>. HIDE DEF l, i
  <2>2. Parts([Now EXCEPT !.at = l], Sched, sem_spaces, foreground_pid, l, holding)
    BY NowParts, SetPart
  <2>. QED  BY <1>3, <2>1, <2>2, BecomesParts DEF l, i
<1>4. CASE i # NOT_FOUND
  <2>1. Becomes([[Now EXCEPT !.sem_spaces = t] EXCEPT !.at = u])
    BY <1>1, <1>2, <1>4 DEF ExitUnlock, UnlockTable
  <2>. HIDE DEF u, t, i
  <2>2. Parts([Now EXCEPT !.sem_spaces = t], Sched, t, foreground_pid, at, holding)
    BY NowParts, SetPart
  <2>3. Parts([[Now EXCEPT !.sem_spaces = t] EXCEPT !.at = u], Sched, t, foreground_pid, u, holding)
    BY <2>2, SetPart
  <2>. QED  BY <1>4, <2>1, <2>3, BecomesParts DEF u, t, i
<1>. QED  BY <1>3, <1>4

\* The exiting process wakes waiters.
LEMMA ExitWakeEffect ==
  ASSUME ExitWake
  PROVE  LET i == at[current_pcb].slot
         IN  /\ Sched' = os_revive_process(Sched, Members(First(sem_spaces[i].queue)))
             /\ sem_spaces' = WakeTable(sem_spaces, i) /\ holding' = holding
             /\ at' = [at EXCEPT ![current_pcb] = Goes("die", 0)] /\ Moved(foreground_pid)
<1>. DEFINE i == at[current_pcb].slot
            l == [at EXCEPT ![current_pcb] = Goes("die", 0)]
            w == wake_up_processes(Now, i)
            g == os_revive_process(Sched, Members(First(sem_spaces[i].queue)))
            t == WakeTable(sem_spaces, i)
<1>1. Parts(w, g, t, foreground_pid, at, holding)
  BY NowParts, WakeParts
<1>2. Becomes([w EXCEPT !.at[current_pcb] = Goes("die", 0)])
  BY DEF ExitWake
<1>. HIDE DEF w, g, t, i
<1>3. w.at = at
  BY <1>1, PartsFields
<1>4. Becomes([w EXCEPT !.at = l])
  BY <1>2, <1>3
<1>. HIDE DEF l
<1>5. Parts([w EXCEPT !.at = l], g, t, foreground_pid, l, holding)
  BY <1>1, SetPart
<1>. QED  BY <1>4, <1>5, BecomesParts DEF l, g, t, i

\* The exiting process is marked DEAD.
LEMMA ExitDieEffect ==
  ASSUME ExitDie
  PROVE  /\ Sched' = [Sched EXCEPT !.status[current_pcb] = DEAD]
         /\ sem_spaces' = sem_spaces /\ holding' = holding
         /\ at' = [at EXCEPT ![current_pcb] = Goes("remove", 0)] /\ Moved(foreground_pid)
<1>. DEFINE l == [at EXCEPT ![current_pcb] = Goes("remove", 0)]
            w == [Now EXCEPT !.status[current_pcb] = DEAD]
            g == [Sched EXCEPT !.status[current_pcb] = DEAD]
            r == [Now EXCEPT !.status[current_pcb] = DEAD, !.at[current_pcb] = Goes("remove", 0)]
<1>1. Frame(Now, w, g)
  <2>1. IsKernel(Now) /\ Globals(Now) = Sched
    BY NowParts DEF Parts
  <2>2. Frame(Now, w, [Globals(Now) EXCEPT !.status[current_pcb] = DEAD])
    BY <2>1, SetStatusFrame
  <2>. HIDE DEF w
  <2>. QED  BY <2>1, <2>2
<1>2. r = [w EXCEPT !.at = l]
  BY DEF Now
<1>3. Becomes(r)
  BY DEF ExitDie
<1>. HIDE DEF r, w, g, l
<1>4. Parts(w, g, sem_spaces, foreground_pid, at, holding)
  BY <1>1, NowParts, FrameParts
<1>5. Parts([w EXCEPT !.at = l], g, sem_spaces, foreground_pid, l, holding)
  BY <1>4, SetPart
<1>. QED  BY <1>2, <1>3, <1>5, BecomesParts DEF l, g

\* The exiting process enters the removal queue.
LEMMA ExitRemoveEffect ==
  ASSUME ExitRemove
  PROVE  /\ Sched' = add_process_to_removal_queue(Sched, current_pcb)
         /\ sem_spaces' = sem_spaces /\ holding' = holding
         /\ at' = [at EXCEPT ![current_pcb] = Goes("finish", 0)] /\ Moved(foreground_pid)
<1>. DEFINE l == [at EXCEPT ![current_pcb] = Goes("finish", 0)]
            w == add_process_to_removal_queue(Now, current_pcb)
            g == add_process_to_removal_queue(Sched, current_pcb)
<1>1. Frame(Now, w, g)
  BY NowParts, PartsFields, RemovalQueueFrame
<1>2. Becomes([w EXCEPT !.at[current_pcb] = Goes("finish", 0)])
  BY DEF ExitRemove
<1>. HIDE DEF w, g
<1>3. Parts(w, g, sem_spaces, foreground_pid, at, holding)
  BY <1>1, NowParts, FrameParts
<1>4. w.at = at
  BY <1>3, PartsFields
<1>5. Becomes([w EXCEPT !.at = l])
  BY <1>2, <1>4
<1>. HIDE DEF l
<1>6. Parts([w EXCEPT !.at = l], g, sem_spaces, foreground_pid, l, holding)
  BY <1>3, SetPart
<1>. QED  BY <1>5, <1>6, BecomesParts DEF l, g

\* create_process opens the semaphore of the new process before it hands out the pid.
LEMMA SpawnParts ==
  ASSUME NEW fore
  PROVE  Parts(spawn(Now, fore), Sched, OpenTable(sem_spaces, 1, pid, current_pcb),
               IF fore THEN pid ELSE foreground_pid, at, holding)
<1>. DEFINE f == IF fore THEN pid ELSE foreground_pid
            k1 == IF fore THEN [Now EXCEPT !.foreground_pid = pid] ELSE Now
<1>1. Now.pid = pid /\ Sched.current_pcb = current_pcb
  BY DEF Now, Sched
<1>2. spawn(Now, fore) = my_sem_open(k1, 1, pid)
  BY <1>1 DEF spawn
<1>3. Parts(k1, Sched, sem_spaces, f, at, holding)
  BY NowParts, SetPart
<1>. HIDE DEF k1, f
<1>. QED  BY <1>1, <1>2, <1>3, OpenParts DEF f

\* SysCreate opens the semaphore named by the new pid.
LEMMA CreateEffect ==
  ASSUME NEW fore, SysCreate(fore)
  PROVE  /\ Sched' = create_and_insert_process(Sched)
         /\ sem_spaces' = OpenTable(sem_spaces, 1, pid, current_pcb)
         /\ at' = at /\ holding' = holding /\ Moved(IF fore THEN pid ELSE foreground_pid)
<1>. DEFINE k1 == spawn(Now, fore)
            f == IF fore THEN pid ELSE foreground_pid
            t == OpenTable(sem_spaces, 1, pid, current_pcb)
<1>1. Parts(k1, Sched, t, f, at, holding)
  BY SpawnParts
<1>2. Becomes(create_and_insert_process(k1))
  BY DEF SysCreate
<1>. HIDE DEF k1, f, t
<1>3. IsKernel(k1) /\ Globals(k1) = Sched
  BY <1>1 DEF Parts
<1>4. Frame(k1, create_and_insert_process(k1), create_and_insert_process(Sched))
  BY <1>3, CreateFrame
<1>5. Parts(create_and_insert_process(k1), create_and_insert_process(Sched), t, f, at, holding)
  BY <1>1, <1>4, FrameParts
<1>. QED  BY <1>2, <1>5, BecomesParts DEF f, t

\* SysPs.
LEMMA PsEffect ==
  ASSUME SysPs
  PROVE  /\ Sched' = add_process_to_creation_queue(Sched)
         /\ sem_spaces' = OpenTable(sem_spaces, 1, pid, current_pcb)
         /\ at' = at /\ holding' = holding /\ Moved(pid)
<1>. DEFINE k1 == spawn(Now, TRUE)
            t == OpenTable(sem_spaces, 1, pid, current_pcb)
<1>1. Parts(k1, Sched, t, pid, at, holding)
  BY SpawnParts
<1>2. Becomes(add_process_to_creation_queue(k1))
  BY DEF SysPs
<1>. HIDE DEF k1, t
<1>3. IsKernel(k1) /\ Globals(k1) = Sched
  BY <1>1 DEF Parts
<1>4. Frame(k1, add_process_to_creation_queue(k1), add_process_to_creation_queue(Sched))
  BY <1>3, CreateLaterFrame
<1>5. Parts(add_process_to_creation_queue(k1), add_process_to_creation_queue(Sched), t, pid, at, holding)
  BY <1>1, <1>4, FrameParts
<1>. QED  BY <1>2, <1>5, BecomesParts DEF t

\* SysSemOpen.
LEMMA SemOpenEffect ==
  ASSUME NEW n, NEW v, SysSemOpen(n, v)
  PROVE  /\ Sched' = Sched /\ sem_spaces' = OpenTable(sem_spaces, v, n, current_pcb)
         /\ at' = at /\ holding' = holding /\ Moved(foreground_pid)
<1>1. Sched.current_pcb = current_pcb
  BY DEF Sched
<1>2. Parts(my_sem_open(Now, v, n), Sched, OpenTable(sem_spaces, v, n, current_pcb), foreground_pid, at, holding)
  BY <1>1, NowParts, OpenParts
<1>. QED  BY <1>2, BecomesParts DEF SysSemOpen

\* SysSemClose.
LEMMA SemCloseEffect ==
  ASSUME NEW n, SysSemClose(n)
  PROVE  /\ Sched' = Sched /\ sem_spaces' = CloseTable(sem_spaces, n, current_pcb)
         /\ at' = at /\ holding' = holding /\ Moved(foreground_pid)
<1>1. Sched.current_pcb = current_pcb
  BY DEF Sched
<1>2. Parts(my_sem_close(Now, n), Sched, CloseTable(sem_spaces, n, current_pcb), foreground_pid, at, holding)
  BY <1>1, NowParts, CloseParts
<1>. QED  BY <1>2, BecomesParts DEF SysSemClose

\* SysSemPost.
LEMMA SemPostEffect ==
  ASSUME NEW n, SysSemPost(n), Sched \in SchedState
  PROVE  /\ Sched' = os_revive_process(Sched, PostWakes(sem_spaces, n))
         /\ sem_spaces' = PostTable(sem_spaces, n) /\ at' = at /\ Moved(foreground_pid)
         /\ holding' = [holding EXCEPT ![current_pcb] = @ \ {n}]
<1>. DEFINE h == [holding EXCEPT ![current_pcb] = @ \ {n}]
            w == my_sem_post(Now, n)
            g == os_revive_process(Sched, PostWakes(sem_spaces, n))
            t == PostTable(sem_spaces, n)
<1>1. Parts(w, g, t, foreground_pid, at, holding)
  BY NowParts, PostParts
<1>2. Becomes([w EXCEPT !.holding[current_pcb] = @ \ {n}])
  BY DEF SysSemPost
<1>. HIDE DEF w, g, t
<1>3. w.holding = holding
  BY <1>1, PartsFields
<1>4. Becomes([w EXCEPT !.holding = h])
  BY <1>2, <1>3
<1>. HIDE DEF h
<1>5. Parts([w EXCEPT !.holding = h], g, t, foreground_pid, at, h)
  BY <1>1, SetPart
<1>. QED  BY <1>4, <1>5, BecomesParts DEF h, g, t

\* force_kill(n) does something.
Reaps(g, n) == n \in Pids /\ n # SHELL_PID /\ get_pcb_entry(g, n)

\* What the end of waitpid, and force_kill, leave behind.
ReapSched(g, sp, n) == IF Reaps(g, n) THEN kill(g, n, PostWakes(sp, n)) ELSE g
ReapTable(g, sp, n) == IF Reaps(g, n) THEN PostTable(sp, n) ELSE sp
ReapFore(g, fg, n) == IF Reaps(g, n) /\ fg = n THEN SHELL_PID ELSE fg

\* force_kill, or nothing when the process is not there.
LEMMA ReapParts ==
  ASSUME NEW k, NEW g \in SchedState, NEW sp, NEW fg, NEW a, NEW h, Parts(k, g, sp, fg, a, h), NEW n
  PROVE  Parts(Reap(k, n), ReapSched(g, sp, n), ReapTable(g, sp, n), ReapFore(g, fg, n), a, h)
<1>1. CASE Reaps(g, n)
  <2>1. n \in Pids /\ n # SHELL_PID /\ get_pcb_entry(g, n)
    BY <1>1 DEF Reaps
  <2>2. Reap(k, n) = force_kill(k, n)
    BY <2>1 DEF Reap
  <2>3. Parts(force_kill(k, n), kill(g, n, PostWakes(sp, n)), PostTable(sp, n),
              IF fg = n THEN SHELL_PID ELSE fg, a, h)
    BY <2>1, ForceKillParts
  <2>4. /\ ReapSched(g, sp, n) = kill(g, n, PostWakes(sp, n))
        /\ ReapTable(g, sp, n) = PostTable(sp, n)
        /\ ReapFore(g, fg, n) = IF fg = n THEN SHELL_PID ELSE fg
    BY <1>1 DEF ReapSched, ReapTable, ReapFore
  <2>. QED  BY <2>2, <2>3, <2>4
<1>2. CASE ~Reaps(g, n)
  <2>1. Reap(k, n) = k
    BY <1>2, ForceKillNothing DEF Reaps, Reap
  <2>2. ReapSched(g, sp, n) = g /\ ReapTable(g, sp, n) = sp /\ ReapFore(g, fg, n) = fg
    BY <1>2 DEF ReapSched, ReapTable, ReapFore
  <2>. QED  BY <2>1, <2>2
<1>. QED  BY <1>1, <1>2

\* A process takes the lock of slot i, and waitpid kills what it waited for.
Takes(name, i) ==
  LET t == [sem_spaces EXCEPT ![i].is_locked = TRUE]
  IN  /\ ~sem_spaces[i].is_locked
      /\ Sched' = ReapSched(Sched, t, name) /\ sem_spaces' = ReapTable(Sched, t, name)
      /\ at' = [at EXCEPT ![current_pcb] = User]
      /\ holding' = [holding EXCEPT ![current_pcb] = @ \cup {name}]
      /\ Moved(ReapFore(Sched, foreground_pid, name))

\* It goes to sleep in the queue of slot i.
Sleeps(name, i) ==
  /\ sem_spaces[i].is_locked
  /\ Sched' = block_current(Sched)
  /\ sem_spaces' = [sem_spaces EXCEPT ![i].queue = Append(@, current_pcb)]
  /\ at' = [at EXCEPT ![current_pcb] = Waiting(name, i)]
  /\ holding' = holding /\ Moved(foreground_pid)

\* It does not wait; waitpid kills all the same.
Passes(name) ==
  /\ Sched' = ReapSched(Sched, sem_spaces, name) /\ sem_spaces' = ReapTable(Sched, sem_spaces, name)
  /\ at' = at /\ holding' = holding /\ Moved(ReapFore(Sched, foreground_pid, name))

\* enter_region takes the lock or goes to sleep.
LEMMA EnterEffect ==
  ASSUME NEW name, NEW i, Becomes(enter_region(Now, name, i)), Sched \in SchedState
  PROVE  Takes(name, i) \/ Sleeps(name, i)
<1>. DEFINE c == current_pcb
            t == [sem_spaces EXCEPT ![i].is_locked = TRUE]
            l == [at EXCEPT ![c] = User]
            b == [holding EXCEPT ![c] = @ \cup {name}]
            k1 == [Now EXCEPT !.sem_spaces[i].is_locked = TRUE,
                              !.holding[Now.current_pcb] = @ \cup {name},
                              !.at[Now.current_pcb] = User]
<1>0. Sched.current_pcb = c /\ Now.sem_spaces = sem_spaces
  BY DEF Sched, Now
<1>1. CASE sem_spaces[i].is_locked
  <2>1. Parts(enter_region(Now, name, i), block_current(Sched),
              [sem_spaces EXCEPT ![i].queue = Append(@, c)], foreground_pid,
              [at EXCEPT ![c] = Waiting(name, i)], holding)
    BY <1>0, <1>1, NowParts, SleepParts
  <2>. QED  BY <1>1, <2>1, BecomesParts DEF Sleeps
<1>2. CASE ~sem_spaces[i].is_locked
  <2>1. Parts(k1, Sched, t, foreground_pid, l, b)
    BY <1>0, NowParts, TakenParts
  <2>2. enter_region(Now, name, i) = Reap(k1, name)
    BY <1>0, <1>2 DEF enter_region
  <2>. HIDE DEF k1, t, l, b
  <2>3. Parts(Reap(k1, name), ReapSched(Sched, t, name), ReapTable(Sched, t, name),
              ReapFore(Sched, foreground_pid, name), l, b)
    BY <2>1, ReapParts
  <2>. QED  BY <1>2, <2>2, <2>3, BecomesParts DEF Takes, t, l, b
<1>. QED  BY <1>1, <1>2

\* A woken waiter does the same.
LEMMA RetryEffect ==
  ASSUME Retry, Sched \in SchedState
  PROVE  LET a == at[current_pcb] IN Takes(a.name, a.slot) \/ Sleeps(a.name, a.slot)
  BY EnterEffect DEF Retry

\* my_sem_wait enters the region, or returns -1 and waitpid goes on to kill.
LEMMA WaitEffect ==
  ASSUME NEW name, Becomes(my_sem_wait(Now, name)), Sched \in SchedState
  PROVE  LET i == Slot(sem_spaces, name)
         IN  \/ /\ i # NOT_FOUND /\ current_pcb \in Members(sem_spaces[i].allowed_processes)
                /\ Takes(name, i) \/ Sleeps(name, i)
             \/ /\ i = NOT_FOUND \/ current_pcb \notin Members(sem_spaces[i].allowed_processes)
                /\ Passes(name)
<1>. DEFINE i == Slot(sem_spaces, name)
            may == i # NOT_FOUND /\ current_pcb \in Members(sem_spaces[i].allowed_processes)
<1>0. Now.sem_spaces = sem_spaces /\ Now.current_pcb = current_pcb
  BY DEF Now
<1>1. locate_sem(Now, name) = i
  BY <1>0 DEF locate_sem, Slot
<1>2. CASE may
  <2>1. my_sem_wait(Now, name) = enter_region(Now, name, i)
    BY <1>0, <1>1, <1>2 DEF my_sem_wait
  <2>. QED  BY <1>2, <2>1, EnterEffect
<1>3. CASE ~may
  <2>1. my_sem_wait(Now, name) = Reap(Now, name)
    BY <1>0, <1>1, <1>3 DEF my_sem_wait
  <2>2. Parts(Reap(Now, name), ReapSched(Sched, sem_spaces, name), ReapTable(Sched, sem_spaces, name),
              ReapFore(Sched, foreground_pid, name), at, holding)
    BY NowParts, ReapParts
  <2>. QED  BY <1>3, <2>1, <2>2, BecomesParts DEF Passes
<1>. QED  BY <1>2, <1>3

\* SysSemWait.
LEMMA SemWaitEffect ==
  ASSUME NEW n, SysSemWait(n), Sched \in SchedState
  PROVE  LET i == Slot(sem_spaces, n)
         IN  \/ /\ i # NOT_FOUND /\ current_pcb \in Members(sem_spaces[i].allowed_processes)
                /\ Takes(n, i) \/ Sleeps(n, i)
             \/ /\ i = NOT_FOUND \/ current_pcb \notin Members(sem_spaces[i].allowed_processes)
                /\ Passes(n)
  BY WaitEffect DEF SysSemWait

\* Without an entry, or for the shell, nothing is left for force_kill to do.
LEMMA PassesNothing ==
  ASSUME NEW n, Passes(n), ~Reaps(Sched, n)
  PROVE  /\ Sched' = Sched /\ sem_spaces' = sem_spaces /\ at' = at /\ holding' = holding
         /\ Moved(foreground_pid)
  BY DEF Passes, ReapSched, ReapTable, ReapFore

\* A call that returns the record it was given.
LEMMA NowBecomes ==
  ASSUME Becomes(Now)
  PROVE  /\ Sched' = Sched /\ sem_spaces' = sem_spaces /\ at' = at /\ holding' = holding
         /\ Moved(foreground_pid)
  BY NowParts, BecomesParts

\* SysKill.
LEMMA KillEffect ==
  ASSUME NEW p \in Pids, SysKill(p), Sched \in SchedState
  PROVE  Passes(p)
<1>1. Reap(Now, p) = force_kill(Now, p)
  BY DEF Reap
<1>2. Parts(Reap(Now, p), ReapSched(Sched, sem_spaces, p), ReapTable(Sched, sem_spaces, p),
            ReapFore(Sched, foreground_pid, p), at, holding)
  BY NowParts, ReapParts
<1>. QED  BY <1>1, <1>2, BecomesParts DEF SysKill, Passes

\* Ctrl-C kills the foreground process.
LEMMA CtrlCEffect ==
  ASSUME CtrlC, foreground_pid \in Pids, Sched \in SchedState
  PROVE  Passes(foreground_pid)
<1>. DEFINE p == foreground_pid
<1>1. Now.foreground_pid = p
  BY DEF Now
<1>2. kill_foreground_process(Now) = Reap(Now, p)
  BY <1>1 DEF kill_foreground_process, Reap, force_kill
<1>3. Parts(Reap(Now, p), ReapSched(Sched, sem_spaces, p), ReapTable(Sched, sem_spaces, p),
            ReapFore(Sched, p, p), at, holding)
  BY NowParts, ReapParts
<1>. QED  BY <1>2, <1>3, BecomesParts DEF CtrlC, Passes

\* SysWaitpid waits for a process that exists, or kills at once.
LEMMA WaitpidEffect ==
  ASSUME NEW p \in Pids, SysWaitpid(p), Sched \in SchedState
  PROVE  LET i == Slot(sem_spaces, p)
         IN  \/ /\ get_pcb_entry(Sched, p) /\ i # NOT_FOUND
                /\ current_pcb \in Members(sem_spaces[i].allowed_processes)
                /\ Takes(p, i) \/ Sleeps(p, i)
             \/ Passes(p)
<1>1. get_pcb_entry(Now, p) <=> get_pcb_entry(Sched, p)
  BY NowParts, EntryFrame DEF Parts
<1>2. CASE get_pcb_entry(Sched, p)
  <2>1. Becomes(my_sem_wait(Now, p))
    BY <1>1, <1>2 DEF SysWaitpid, waitpid
  <2>. QED  BY <1>2, <2>1, WaitEffect
<1>3. CASE ~get_pcb_entry(Sched, p)
  <2>1. Becomes(Now)
    BY <1>1, <1>3 DEF SysWaitpid, waitpid
  <2>. QED  BY <1>3, <2>1, NowBecomes DEF Passes, ReapSched, ReapTable, ReapFore, Reaps
<1>. QED  BY <1>2, <1>3
=============================================================================
