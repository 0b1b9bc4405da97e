----------------------------- MODULE Scheduler -----------------------------
(***************************************************************************)
(* The multilevel feedback scheduler (Kernel/basicScheduler.c, with the     *)
(* circular lists of Kernel/circular_list.c and the timer interrupt of      *)
(* Kernel/asm/interrupts.asm).                                              *)
(*                                                                          *)
(* A circular list is the sequence of its data read from current_node, so   *)
(* insert_node appends and remove_node of the current node moves on to the  *)
(* next one.  A process is its pid.  The functions of the C file are        *)
(* operators on a record k with the scheduler's globals as fields, which    *)
(* are also the VARIABLES of this module; Kernel.tla uses the same          *)
(* operators on a larger record.                                            *)
(***************************************************************************)
EXTENDS Integers, Sequences, FiniteSets

CONSTANTS quantum,     \* timer ticks per turn, the same in every queue
          MaxPid,      \* bound: pids are handed out up to this one
          MaxPending,  \* bound: length of the removal queue
          Targets,     \* pids callers pass to kill, nice and block
          NiceLevels   \* priorities callers pass to nice

ASSUME SchedulerAssumption == /\ quantum \in Nat \ {0}
                              /\ MaxPid \in Nat /\ MaxPid >= 3
                              /\ MaxPending \in Nat
                              /\ Targets \subseteq 2 .. MaxPid
                              /\ NiceLevels \subseteq 0 .. 3

IDLE_PRIORITY == 0
LOW_PRIORITY == 1
HIGH_PRIORITY == 3
Priorities == IDLE_PRIORITY .. HIGH_PRIORITY

SHELL_PID == 2
IDLE_PID == 3   \* the second process main creates
Pids == SHELL_PID .. MaxPid

BLOCKED == "BLOCKED"
READY == "READY"
RUNNING == "RUNNING"
DEAD == "DEAD"
NONE == "NONE"      \* the pid has not been handed out
Statuses == {BLOCKED, READY, RUNNING, DEAD, NONE}

VARIABLES status,              \* process->status
          priority,            \* pcb->priority
          ticks,               \* pcb->ticks
          queue,               \* scheduler[i]->queue
          waiting_for_remove,  \* pids of killed processes
          creation_queue,      \* processes not yet in a queue
          current_pcb,
          pid,                 \* the next pid to hand out
          fault                \* the kernel dereferenced a null current_node

svars == <<status, priority, ticks, queue, waiting_for_remove, creation_queue,
           current_pcb, pid, fault>>

Sched == [status |-> status, priority |-> priority, ticks |-> ticks,
          queue |-> queue, waiting_for_remove |-> waiting_for_remove,
          creation_queue |-> creation_queue, current_pcb |-> current_pcb,
          pid |-> pid, fault |-> fault]

\* The step that leaves the scheduler's globals as in k.
SchedBecomes(k) ==
  /\ status' = k.status /\ priority' = k.priority /\ ticks' = k.ticks
  /\ queue' = k.queue /\ waiting_for_remove' = k.waiting_for_remove
  /\ creation_queue' = k.creation_queue /\ current_pcb' = k.current_pcb
  /\ pid' = k.pid /\ fault' = k.fault

-----------------------------------------------------------------------------
(* Circular lists. *)

Members(q) == {q[n] : n \in 1 .. Len(q)}

\* remove_node of the nodes that hold a member of S; the others keep their order.
Without(q, S) ==
  LET kept[n \in 0 .. Len(q)] ==
        IF n = 0 THEN <<>>
        ELSE IF q[n] \in S THEN kept[n - 1] ELSE Append(kept[n - 1], q[n])
  IN  kept[Len(q)]

\* Mutant of Advance: current_node stays.
AdvanceNot(q, n) == q

\* current_node = node->next, where node is the n-th from current_node.
Advance(q, n) == SubSeq(q, n + 1, Len(q)) \o SubSeq(q, 1, n)

Smallest(S) == CHOOSE n \in S : \A m \in S : n =< m
Largest(S) == CHOOSE n \in S : \A m \in S : m =< n

-----------------------------------------------------------------------------
(* The functions of basicScheduler.c. *)

\* get_pcb_entry(p) # NULL
get_pcb_entry(k, p) == \E i \in Priorities : p \in Members(k.queue[i])

add_new_process(k, p) ==
  [k EXCEPT !.priority[p] = HIGH_PRIORITY,
            !.ticks[p] = 0,
            !.queue[HIGH_PRIORITY] = Append(@, p)]

\* Mutant of change_process_priority: the priority field is not updated.
change_queue_only(k, p, prio) ==
  IF ~get_pcb_entry(k, p) THEN k
  ELSE LET removed == [k.queue EXCEPT ![k.priority[p]] = Without(@, {p})]
       IN  [k EXCEPT !.queue = [removed EXCEPT ![prio] = Append(@, p)]]

change_process_priority(k, p, prio) ==
  IF ~get_pcb_entry(k, p) THEN k
  ELSE LET removed == [k.queue EXCEPT ![k.priority[p]] = Without(@, {p})]
       IN  [k EXCEPT !.queue = [removed EXCEPT ![prio] = Append(@, p)],
                     !.priority[p] = prio]

\* Each killed process leaves the queue of its priority.  (free_process then
\* looks the pid up again, finds nothing and frees nothing.  A pid queued twice
\* is looked up when it is gone; the priority read through the null pcb is the
\* high offset of IDT entry 0, which is 0, so the idle queue is searched in vain.)
kill_processes_in_removal_queue(k) ==
  LET killed(i) == {p \in Members(k.waiting_for_remove) : k.priority[p] = i}
  IN  [k EXCEPT !.queue = [i \in Priorities |-> Without(k.queue[i], killed(i))],
                !.waiting_for_remove = <<>>]

create_processes_in_creation_queue(k) ==
  LET new == Members(k.creation_queue)
  IN  [k EXCEPT
        !.priority = [p \in Pids |-> IF p \in new THEN HIGH_PRIORITY ELSE k.priority[p]],
        !.ticks = [p \in Pids |-> IF p \in new THEN 0 ELSE k.ticks[p]],
        !.queue[HIGH_PRIORITY] = @ \o k.creation_queue,
        !.creation_queue = <<>>]

\* A process that used up its quantum sinks one queue, never below LOW.
stop_current_process(k) ==
  LET c == k.current_pcb
  IN  IF k.ticks[c] >= quantum
        THEN IF k.priority[c] > LOW_PRIORITY
               THEN change_process_priority(k, c, k.priority[c] - 1)
               ELSE k
        ELSE [k EXCEPT !.status[c] = READY, !.ticks[c] = 0]

\* Mutant of At: a DEAD process counts as READY.
AtReadyOrDead(k, i, s) ==
  {n \in 1 .. Len(k.queue[i]) :
     k.queue[i][n] \in {p \in Pids : k.status[p] = s \/ (s = READY /\ k.status[p] = DEAD)}}

\* Positions in queue i of processes in status s.
At(k, i, s) == {n \in 1 .. Len(k.queue[i]) :
                  k.queue[i][n] \in {p \in Pids : k.status[p] = s}}

Levels(k, s) == {i \in LOW_PRIORITY .. HIGH_PRIORITY : At(k, i, s) # {}}

\* Mutant of NextReady: the queues are searched from the lowest.
NextReadyFromLow(k) == LET i == Smallest(Levels(k, READY))
                       IN  [level |-> i, at |-> Smallest(At(k, i, READY))]

\* find_next_process: the first READY process of the highest queue, else the
\* RUNNING process met last, else the head of the idle queue.
NextReady(k) == LET i == Largest(Levels(k, READY))
                IN  [level |-> i, at |-> Smallest(At(k, i, READY))]

KeepRunning(k) == LET i == Smallest(Levels(k, RUNNING))
                  IN  k.queue[i][Largest(At(k, i, RUNNING))]

find_next_process(k) ==
  IF Levels(k, READY) # {} THEN k.queue[NextReady(k).level][NextReady(k).at]
  ELSE IF Levels(k, RUNNING) # {} THEN KeepRunning(k)
  ELSE Head(k.queue[IDLE_PRIORITY])

\* Mutant of NothingToRun: no fallback to the idle process.
NothingAboveIdle(k) == Levels(k, READY) = {} /\ Levels(k, RUNNING) = {}

\* get_idle_pcb reads the data of a current_node that is NULL.
NothingToRun(k) == /\ Levels(k, READY) = {}
                   /\ Levels(k, RUNNING) = {}
                   /\ k.queue[IDLE_PRIORITY] = <<>>

\* Mutant of Dispatch: the process that is stopped keeps its status.
DispatchOnly(k, p) ==
  LET rotated == IF Levels(k, READY) # {}
                   THEN [k.queue EXCEPT ![NextReady(k).level] = Advance(@, NextReady(k).at)]
                   ELSE k.queue
  IN  [k EXCEPT !.status[p] = RUNNING, !.queue = rotated, !.current_pcb = p]

\* Hand the processor from the current process to p, found in state k.
Dispatch(k, p) ==
  LET c == k.current_pcb
      stopped == IF k.status[c] = RUNNING \/ (c = p /\ k.status[c] = READY)
                   THEN [k EXCEPT !.status[c] = READY, !.ticks[c] = 0]
                   ELSE k
      rotated == IF Levels(k, READY) # {}
                   THEN [k.queue EXCEPT ![NextReady(k).level] = Advance(@, NextReady(k).at)]
                   ELSE k.queue
  IN  [stopped EXCEPT !.status[p] = RUNNING, !.queue = rotated, !.current_pcb = p]

switch_context(k) ==
  LET k1 == stop_current_process(
              create_processes_in_creation_queue(
                kill_processes_in_removal_queue(k)))
  IN  IF NothingToRun(k1) THEN [k1 EXCEPT !.fault = TRUE]
      ELSE Dispatch(k1, find_next_process(k1))

\* finish_current_tick uses up the quantum and raises the timer interrupt.
finish_current_tick(k) == switch_context([k EXCEPT !.ticks[k.current_pcb] = quantum])

\* Mutant of timer_interrupt: one tick too many.
timer_interrupt_late(k) ==
  IF k.ticks[k.current_pcb] =< quantum
    THEN [k EXCEPT !.ticks[k.current_pcb] = @ + 1]
    ELSE switch_context(k)

\* _irq00Handler: count the tick, or switch when the quantum is used up.
timer_interrupt(k) ==
  IF k.ticks[k.current_pcb] < quantum
    THEN [k EXCEPT !.ticks[k.current_pcb] = @ + 1]
    ELSE switch_context(k)

\* os_revive_process of every process in W, the ones a semaphore wakes.
os_revive_process(k, W) ==
  [k EXCEPT !.status = [p \in Pids |-> IF /\ p \in W /\ get_pcb_entry(k, p)
                                          /\ k.status[p] \in {BLOCKED, RUNNING}
                                       THEN READY ELSE k.status[p]]]

\* os_block_current_process, always followed by finish_current_tick.
block_current(k) == finish_current_tick([k EXCEPT !.status[k.current_pcb] = BLOCKED])

\* Mutant of block_process: whatever is not READY or RUNNING becomes READY.
block_process_revives(k, p) ==
  IF ~get_pcb_entry(k, p) THEN k
  ELSE IF k.status[p] \in {READY, RUNNING}
    THEN LET blocked == [k EXCEPT !.status[p] = BLOCKED]
         IN  IF p = k.current_pcb THEN finish_current_tick(blocked) ELSE blocked
  ELSE [k EXCEPT !.status[p] = READY]

\* block_process toggles: READY or RUNNING to BLOCKED and back to READY.
block_process(k, p) ==
  IF ~get_pcb_entry(k, p) THEN k
  ELSE IF k.status[p] \in {READY, RUNNING}
    THEN LET blocked == [k EXCEPT !.status[p] = BLOCKED]
         IN  IF p = k.current_pcb THEN finish_current_tick(blocked) ELSE blocked
  ELSE IF k.status[p] = BLOCKED THEN [k EXCEPT !.status[p] = READY]
  ELSE k

add_process_to_removal_queue(k, p) == [k EXCEPT !.waiting_for_remove = Append(@, p)]

\* create_process hands out the next pid; the process starts READY.
create_process(k) == [k EXCEPT !.status[k.pid] = READY, !.pid = @ + 1]

\* create_and_insert_process, and add_process_to_creation_queue (ps and mem).
create_and_insert_process(k) == add_new_process(create_process(k), k.pid)

add_process_to_creation_queue(k) ==
  [create_process(k) EXCEPT !.creation_queue = Append(@, k.pid)]

\* What force_kill does to the scheduler, where its semaphore post wakes W.
kill(k, p, W) ==
  IF p = SHELL_PID \/ ~get_pcb_entry(k, p) THEN k
  ELSE LET dead == [os_revive_process(k, W) EXCEPT !.status[p] = DEAD]
           gone == add_process_to_removal_queue(dead, p)
       IN  IF p = k.current_pcb THEN finish_current_tick(gone) ELSE gone

-----------------------------------------------------------------------------
(* The scheduler driven by an arbitrary kernel: whoever runs may make any    *)
(* call, and any set of processes may be woken by a semaphore.               *)

\* The state main leaves behind when enable_multitasking starts the shell.
SchedInit ==
  /\ status = [p \in Pids |-> IF p = SHELL_PID THEN RUNNING
                              ELSE IF p = IDLE_PID THEN READY ELSE NONE]
  /\ priority = [p \in Pids |-> IF p = IDLE_PID THEN IDLE_PRIORITY ELSE HIGH_PRIORITY]
  /\ ticks = [p \in Pids |-> 0]
  /\ queue = [i \in Priorities |-> IF i = HIGH_PRIORITY THEN <<SHELL_PID>>
                                   ELSE IF i = IDLE_PRIORITY THEN <<IDLE_PID>> ELSE <<>>]
  /\ waiting_for_remove = <<>>
  /\ creation_queue = <<>>
  /\ current_pcb = SHELL_PID
  /\ pid = IDLE_PID + 1
  /\ fault = FALSE

\* The current process is running its own code, so it may make a system call;
\* the idle process only halts until the next interrupt.
InUserCode == /\ ~fault
              /\ current_pcb # IDLE_PID
              /\ status[current_pcb] \in {RUNNING, READY}

\* The processes os_revive_process has an effect on.
Wakeable == {p \in Pids : status[p] \in {BLOCKED, RUNNING}}

Timer == ~fault /\ SchedBecomes(timer_interrupt(Sched))

\* The yield system call.
Yield == InUserCode /\ SchedBecomes(finish_current_tick(Sched))

BlockCurrent == InUserCode /\ SchedBecomes(block_current(Sched))

Block(p) == InUserCode /\ SchedBecomes(block_process(Sched, p))

Nice(p, prio) == InUserCode /\ SchedBecomes(change_process_priority(Sched, p, prio))

Create == /\ InUserCode /\ pid =< MaxPid
          /\ SchedBecomes(create_and_insert_process(Sched))

CreateLater == /\ InUserCode /\ pid =< MaxPid
               /\ SchedBecomes(add_process_to_creation_queue(Sched))

\* A semaphore post, by the running process or by the keyboard interrupt.
Wake(W) == ~fault /\ SchedBecomes(os_revive_process(Sched, W))

\* force_kill in one step: a system call or Ctrl-C.
Kill(p, W) == /\ ~fault /\ Len(waiting_for_remove) < MaxPending
              /\ SchedBecomes(kill(Sched, p, W))

\* force_kill of a process that returns from its entry point runs with
\* interrupts enabled: it is marked DEAD, then queued for removal, then gives
\* up the processor, and the timer may come between.
MarkDead == /\ InUserCode /\ current_pcb # SHELL_PID
            /\ SchedBecomes([Sched EXCEPT !.status[current_pcb] = DEAD])

QueueDead == /\ ~fault /\ status[current_pcb] = DEAD
             /\ Len(waiting_for_remove) < MaxPending
             /\ SchedBecomes(add_process_to_removal_queue(Sched, current_pcb))

YieldDead == /\ ~fault /\ status[current_pcb] = DEAD
             /\ current_pcb \in Members(waiting_for_remove)
             /\ SchedBecomes(finish_current_tick(Sched))

\* After a fault the kernel is lost.
Halted == fault /\ UNCHANGED svars

\* The steps of the processes and of the keyboard.
Calls == \/ Yield \/ BlockCurrent \/ Create \/ CreateLater
         \/ MarkDead \/ QueueDead \/ YieldDead
         \/ \E p \in Targets : Block(p)
         \/ \E W \in SUBSET Wakeable : Wake(W)
         \/ \E p \in Targets, W \in SUBSET Wakeable : Kill(p, W)

Nices == \E p \in Targets, prio \in NiceLevels : Nice(p, prio)

SchedNext == Timer \/ Calls \/ Nices \/ Halted

SchedSpec == SchedInit /\ [][SchedNext]_svars
-----------------------------------------------------------------------------
SchedTypeOK ==
  /\ status \in [Pids -> Statuses]
  /\ priority \in [Pids -> Priorities]
  /\ ticks \in [Pids -> 0 .. quantum]
  /\ queue \in [Priorities -> Seq(Pids)]
  /\ waiting_for_remove \in Seq(Pids)
  /\ creation_queue \in Seq(Pids)
  /\ current_pcb \in Pids
  /\ pid \in 4 .. (MaxPid + 1)
  /\ fault \in BOOLEAN

\* At most one process is RUNNING, and it is the one whose code the processor
\* executes: the timer, yields, blocks, wake-ups and kills never leave a second
\* one behind.
OnlyCurrentRuns == \A p \in Pids : status[p] = RUNNING => p = current_pcb

\* The priority field, which names the queue to search, always names the one
\* queue a process is in: every process that may still run is in it exactly
\* once, whatever was created, demoted, re-niced or removed before.
QueuesMatchPriorities ==
  /\ \A i \in Priorities : \A n \in DOMAIN queue[i] : priority[queue[i][n]] = i
  /\ \A i \in Priorities : \A m, n \in DOMAIN queue[i] : queue[i][m] = queue[i][n] => m = n
  /\ \A p \in Pids : /\ status[p] \notin {NONE, DEAD}
                     /\ p \notin Members(creation_queue)
                     => p \in Members(queue[priority[p]])

\* find_next_process follows a null current_node only when the idle process was
\* killed or moved out of its queue; until then it has somebody to return.
FaultNeedsLostIdle ==
  fault => status[IDLE_PID] = DEAD \/ priority[IDLE_PID] # IDLE_PRIORITY

\* What the scheduler still has of a process: its pcb entry, or its number in the
\* queue of those to be removed.
Remembered == {p \in Pids : get_pcb_entry(Sched, p) \/ p \in Members(waiting_for_remove)}

\* A killed process stays killed as long as the scheduler has anything left of
\* it: no block toggle, wake-up, timer or context switch brings it back.
DeadStaysDead == [][\A p \in Remembered : status[p] = DEAD => status'[p] = DEAD]_svars

\* switch_context never hands the processor to a DEAD process, although dead
\* processes stay in their queues until the next switch.
DeadNeverDispatched == [][current_pcb' # current_pcb => status[current_pcb'] # DEAD]_svars

\* The processor goes to the highest queue that has a READY process, and to the
\* idle process only when no process above it is READY.
HighestReadyRuns ==
  [][current_pcb' # current_pcb =>
       \A p \in Pids : status'[p] = READY /\ get_pcb_entry(Sched', p)
                         => \/ priority'[p] =< priority'[current_pcb']
                            \/ p = current_pcb]_svars
=============================================================================
