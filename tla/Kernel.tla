------------------------------- MODULE Kernel -------------------------------
(***************************************************************************)
(* Semaphores (Kernel/semaphore.c, Kernel/asm/semaphores.asm) and the life   *)
(* of a process (Kernel/process.c) on top of the scheduler of Scheduler.tla.*)
(*                                                                          *)
(* System calls and interrupt handlers run with interrupts disabled, so     *)
(* each is one step, up to the point where it gives the processor away.     *)
(* Two things are longer: a process that waits for a semaphore sleeps       *)
(* inside the system call and tries the lock again when it is scheduled,    *)
(* and a process that returns from its entry point is killed by             *)
(* process_wrapper with interrupts enabled.  at[p] says where p is.         *)
(*                                                                          *)
(* Semaphores are named; the one a process posts when it dies is named by   *)
(* its pid, as uint_to_base does in create_process.  Slot 0 of the table is *)
(* the keyboard's and is left out.  The fields counter and being_cleared    *)
(* are never read with an effect and are left out, and so is parent_pid,    *)
(* which live code only prints.                                             *)
(***************************************************************************)
EXTENDS Scheduler

CONSTANTS MAX_SEMS,   \* slots of the semaphore table, the keyboard's included
          SemNames,   \* the names processes give their semaphores
          MaxOpens    \* bound: entries of allowed_processes

Slots == 1 .. (MAX_SEMS - 1)

ASSUME KernelAssumption == /\ MAX_SEMS \in Nat /\ MAX_SEMS >= 3
                           /\ \A n \in SemNames : n \notin 0 .. MaxPid
                           /\ MaxOpens \in Nat

Clients == 4 .. MaxPid   \* the processes created after the shell and idle

VARIABLES sem_spaces,      \* the semaphore table
          foreground_pid,
          at,              \* where each process is
          holding          \* history: semaphores whose wait returned, not yet posted

kvars == <<svars, sem_spaces, foreground_pid, at, holding>>

Now == [status |-> status, priority |-> priority, ticks |-> ticks,
        queue |-> queue, waiting_for_remove |-> waiting_for_remove,
        creation_queue |-> creation_queue, current_pcb |-> current_pcb,
        pid |-> pid, fault |-> fault, sem_spaces |-> sem_spaces,
        foreground_pid |-> foreground_pid, at |-> at, holding |-> holding]

\* A context switch that inserts the pending processes makes the last of them
\* the foreground one: only ps and print_mem are created that way, both with
\* foreground = 1, and add_new_process sets foreground_pid.
Foreground(k) == IF creation_queue # <<>> /\ k.creation_queue = <<>>
                   THEN creation_queue[Len(creation_queue)] ELSE k.foreground_pid

\* The step that leaves the kernel's state as in k.
Becomes(k) == /\ SchedBecomes(k)
              /\ sem_spaces' = k.sem_spaces /\ foreground_pid' = Foreground(k)
              /\ at' = k.at /\ holding' = k.holding

-----------------------------------------------------------------------------
(* The semaphore table. *)

NOBODY == -1      \* a pid no process has
NOT_FOUND == 0    \* locate_sem's -1

AVAILABLE == [status |-> "AVAILABLE", identifier |-> 0, is_locked |-> FALSE,
              queue |-> <<>>, allowed_processes |-> <<>>]

\* A slot just opened.  allowed_processes is the array up to allowed_process_count.
Opened(name, start_value, by) ==
  [status |-> "UNAVAILABLE", identifier |-> name, is_locked |-> start_value > 0,
   queue |-> <<>>, allowed_processes |-> <<by>>]

locate_sem(k, name) ==
  LET found == {i \in Slots : /\ k.sem_spaces[i].status = "UNAVAILABLE"
                              /\ k.sem_spaces[i].identifier = name}
  IN  IF found = {} THEN NOT_FOUND ELSE Smallest(found)

\* A table that is full leaves the caller without a semaphore.
my_sem_open(k, start_value, name) ==
  LET i == locate_sem(k, name)
      free == {j \in Slots : k.sem_spaces[j].status = "AVAILABLE"}
  IN  IF i # NOT_FOUND
        THEN [k EXCEPT !.sem_spaces[i].allowed_processes = Append(@, k.current_pcb)]
      ELSE IF free # {}
        THEN [k EXCEPT !.sem_spaces[Smallest(free)] = Opened(name, start_value, k.current_pcb)]
      ELSE k

\* Mutant of CrossOut: entries are crossed out with 0.
CrossOutZero(allowed, p) == [i \in DOMAIN allowed |-> IF allowed[i] = p THEN 0 ELSE allowed[i]]

\* The loop of my_sem_close: the count shrinks while the index grows, so the
\* last entries drop out of the array instead of the ones that are crossed out.
CrossOut(allowed, p) ==
  LET after[i \in 0 .. Len(allowed)] ==
        IF i = 0 THEN allowed
        ELSE LET a == after[i - 1]
             IN  IF i =< Len(a) /\ a[i] = p
                   THEN SubSeq([a EXCEPT ![i] = NOBODY], 1, Len(a) - 1) ELSE a
  IN  after[Len(allowed)]

\* clear_sem drops whoever still waits.
clear_sem(k, i) == [k EXCEPT !.sem_spaces[i] = AVAILABLE]

\* Mutant of my_sem_close: the semaphore goes with the first to close it.
my_sem_close_clears(k, name) ==
  LET i == locate_sem(k, name)
  IN  IF i = NOT_FOUND THEN k ELSE clear_sem(k, i)

my_sem_close(k, name) ==
  LET i == locate_sem(k, name)
      allowed == CrossOut(k.sem_spaces[i].allowed_processes, k.current_pcb)
  IN  IF i = NOT_FOUND THEN k
      ELSE IF allowed = <<>> THEN clear_sem(k, i)
      ELSE [k EXCEPT !.sem_spaces[i].allowed_processes = allowed]

\* Mutant of Woken: half of them, rounded down.
WokenRoundedDown(q) == Len(q) \div 2

\* wake_up_processes: its bound shrinks as it removes, so it wakes half of them.
Woken(q) == (Len(q) + 1) \div 2

wake_up_processes(k, i) ==
  LET q == k.sem_spaces[i].queue
  IN  os_revive_process([k EXCEPT !.sem_spaces[i].queue = SubSeq(q, Woken(q) + 1, Len(q))],
                        Members(SubSeq(q, 1, Woken(q))))

\* leave_region; whoever posts need not be the one that holds the semaphore.
my_sem_post(k, name) ==
  LET i == locate_sem(k, name)
  IN  IF i = NOT_FOUND THEN k
      ELSE wake_up_processes([k EXCEPT !.sem_spaces[i].is_locked = FALSE], i)

-----------------------------------------------------------------------------
(* Killing, waiting, creating. *)

User == [op |-> "user", name |-> 0, slot |-> 0]
Waiting(name, i) == [op |-> "wait", name |-> name, slot |-> i]

Yielding(k, p) == IF p = k.current_pcb THEN finish_current_tick(k) ELSE k

\* Mutants of force_kill: the foreground is left to the dead process; the killer
\* posts its own semaphore.
force_kill_keeps_foreground(k, p) ==
  IF p = SHELL_PID \/ ~get_pcb_entry(k, p) THEN k
  ELSE Yielding(add_process_to_removal_queue(
                  [my_sem_post(k, p) EXCEPT !.status[p] = DEAD], p), p)

force_kill_posts_own(k, p) ==
  IF p = SHELL_PID \/ ~get_pcb_entry(k, p) THEN k
  ELSE LET k1 == IF k.foreground_pid = p THEN [k EXCEPT !.foreground_pid = SHELL_PID] ELSE k
           k2 == [my_sem_post(k1, k.current_pcb) EXCEPT !.status[p] = DEAD]
       IN  Yielding(add_process_to_removal_queue(k2, p), p)

force_kill(k, p) ==
  IF p = SHELL_PID \/ ~get_pcb_entry(k, p) THEN k
  ELSE LET k1 == IF k.foreground_pid = p THEN [k EXCEPT !.foreground_pid = SHELL_PID] ELSE k
           k2 == [my_sem_post(k1, p) EXCEPT !.status[p] = DEAD]
       IN  Yielding(add_process_to_removal_queue(k2, p), p)

kill_foreground_process(k) ==
  IF k.foreground_pid = SHELL_PID THEN k ELSE force_kill(k, k.foreground_pid)

\* What waitpid does when my_sem_wait returns, with the semaphore or without.
Reap(k, name) == IF name \in Pids THEN force_kill(k, name) ELSE k

\* Mutant of enter_region: the waiter blocks without giving up the processor.
enter_region_stays(k, name, i) ==
  LET c == k.current_pcb
  IN  IF ~k.sem_spaces[i].is_locked
        THEN Reap([k EXCEPT !.sem_spaces[i].is_locked = TRUE,
                            !.holding[c] = @ \cup {name},
                            !.at[c] = User], name)
        ELSE [k EXCEPT !.sem_spaces[i].queue = Append(@, c), !.status[c] = BLOCKED,
                       !.at[c] = Waiting(name, i)]

\* enter_region: take the lock, or queue up, block and try again when scheduled.
enter_region(k, name, i) ==
  LET c == k.current_pcb
  IN  IF ~k.sem_spaces[i].is_locked
        THEN Reap([k EXCEPT !.sem_spaces[i].is_locked = TRUE,
                            !.holding[c] = @ \cup {name},
                            !.at[c] = User], name)
        ELSE block_current([k EXCEPT !.sem_spaces[i].queue = Append(@, c),
                                     !.at[c] = Waiting(name, i)])

\* my_sem_wait, and the rest of waitpid when name is a pid.
my_sem_wait(k, name) ==
  LET i == locate_sem(k, name)
  IN  IF i = NOT_FOUND THEN Reap(k, name)
      ELSE IF k.current_pcb \notin Members(k.sem_spaces[i].allowed_processes)
        THEN Reap(k, name)
      ELSE enter_region(k, name, i)

\* Mutant of waitpid: it does not wait.
waitpid_returns(k, p) == k

waitpid(k, p) == IF get_pcb_entry(k, p) THEN my_sem_wait(k, p) ELSE k

\* create_process opens the semaphore of the new process, in the name of its creator.
spawn(k, foreground) ==
  LET k1 == IF foreground THEN [k EXCEPT !.foreground_pid = k.pid] ELSE k
  IN  my_sem_open(k1, 1, k.pid)

-----------------------------------------------------------------------------
(* Steps. *)

\* main opens the semaphores of the shell and of idle before anybody runs.
KernelInit ==
  /\ SchedInit
  /\ sem_spaces = [i \in Slots |-> IF i = 1 THEN Opened(SHELL_PID, 1, NOBODY)
                                   ELSE IF i = 2 THEN Opened(IDLE_PID, 1, NOBODY)
                                   ELSE AVAILABLE]
  /\ foreground_pid = SHELL_PID
  /\ at = [p \in Pids |-> User]
  /\ holding = [p \in Pids |-> {}]

\* Interrupts are disabled in a process that was scheduled inside enter_region.
InterruptsEnabled == ~fault /\ at[current_pcb].op # "wait"

\* The current process runs its own code and may make a system call.
Running == InUserCode /\ at[current_pcb].op = "user"

CanKill == Len(waiting_for_remove) < MaxPending

TimerInterrupt == InterruptsEnabled /\ Becomes(timer_interrupt(Now))

\* Ctrl-C (the post of the keyboard semaphore is the keyboard's business).
CtrlC == InterruptsEnabled /\ CanKill /\ Becomes(kill_foreground_process(Now))

\* Mutant of Retry: a waiter that is scheduled does not try the lock again.
RetryEnters ==
  LET name == at[current_pcb].name
  IN  /\ ~fault /\ at[current_pcb].op = "wait"
      /\ Becomes(Reap([Now EXCEPT !.holding[current_pcb] = @ \cup {name},
                                  !.at[current_pcb] = User], name))

\* A waiter that is scheduled tries the lock again.
Retry == /\ ~fault /\ at[current_pcb].op = "wait"
         /\ Becomes(enter_region(Now, at[current_pcb].name, at[current_pcb].slot))

SysYield == Running /\ Becomes(finish_current_tick(Now))

SysKill(p) == Running /\ CanKill /\ Becomes(force_kill(Now, p))

SysWaitpid(p) == Running /\ CanKill /\ Becomes(waitpid(Now, p))

SysCreate(foreground) ==
  /\ Running /\ pid =< MaxPid
  /\ Becomes(create_and_insert_process(spawn(Now, foreground)))

\* ps and print_mem are created later, by the next context switch.
SysPs == /\ Running /\ pid =< MaxPid
         /\ Becomes(add_process_to_creation_queue(spawn(Now, TRUE)))

SysSemOpen(name, start_value) == Running /\ Becomes(my_sem_open(Now, start_value, name))

SysSemWait(name) == Running /\ Becomes(my_sem_wait(Now, name))

SysSemPost(name) ==
  Running /\ Becomes([my_sem_post(Now, name) EXCEPT !.holding[current_pcb] = @ \ {name}])

SysSemClose(name) == Running /\ Becomes(my_sem_close(Now, name))

\* process_wrapper: force_kill of the current process with interrupts enabled.
\* The timer may come between any two of these steps.
Exiting(op) == ~fault /\ at[current_pcb].op = op

Goes(op, i) == [op |-> op, name |-> 0, slot |-> i]

ExitStart ==
  /\ Running /\ current_pcb # SHELL_PID
  /\ Becomes([Now EXCEPT !.foreground_pid = IF @ = current_pcb THEN SHELL_PID ELSE @,
                            !.at[current_pcb] = Goes("unlock", 0)])

ExitUnlock ==
  LET i == locate_sem(Now, current_pcb)
  IN  /\ Exiting("unlock")
      /\ Becomes(IF i = NOT_FOUND THEN [Now EXCEPT !.at[current_pcb] = Goes("die", 0)]
                 ELSE [Now EXCEPT !.sem_spaces[i].is_locked = FALSE,
                                     !.at[current_pcb] = Goes("wake", i)])

ExitWake ==
  /\ Exiting("wake")
  /\ Becomes([wake_up_processes(Now, at[current_pcb].slot)
                 EXCEPT !.at[current_pcb] = Goes("die", 0)])

ExitDie ==
  /\ Exiting("die")
  /\ Becomes([Now EXCEPT !.status[current_pcb] = DEAD,
                            !.at[current_pcb] = Goes("remove", 0)])

ExitRemove ==
  /\ Exiting("remove") /\ CanKill
  /\ Becomes([add_process_to_removal_queue(Now, current_pcb)
                 EXCEPT !.at[current_pcb] = Goes("finish", 0)])

ExitFinish == Exiting("finish") /\ Becomes(finish_current_tick(Now))

Exit == ExitStart \/ ExitUnlock \/ ExitWake \/ ExitDie \/ ExitRemove \/ ExitFinish
-----------------------------------------------------------------------------
(* The life of processes: whoever runs creates, waits for and kills others,  *)
(* returns from its entry point, and the user presses Ctrl-C.                *)

LifecycleNext == \/ TimerInterrupt \/ CtrlC \/ Retry \/ SysYield \/ SysPs \/ Exit
                 \/ \E foreground \in BOOLEAN : SysCreate(foreground)
                 \/ \E p \in Clients : SysKill(p) \/ SysWaitpid(p)

LifecycleSpec == KernelInit /\ [][LifecycleNext]_kvars

(* Mutual exclusion: processes open a semaphore with value 0, wait for it,    *)
(* post it when they have it, and close it when they do not.                 *)

HasOpen(p, name) ==
  \E i \in Slots : /\ sem_spaces[i].identifier = name
                   /\ p \in Members(sem_spaces[i].allowed_processes)

\* current_pcb is one of the processes that use the semaphores.
Client == current_pcb \in Clients

\* The array has room: the code checks no bound, and crossed out entries pile up.
CanOpen(name) ==
  \A i \in Slots : sem_spaces[i].identifier = name
                    => Len(sem_spaces[i].allowed_processes) < MaxOpens

SemaphoreNext ==
  \/ TimerInterrupt \/ Retry
  \/ current_pcb = SHELL_PID /\ SysCreate(FALSE)
  \/ holding[current_pcb] = {} /\ Client /\ Exit
  \/ \E n \in SemNames :
       /\ Client
       /\ \/ ~HasOpen(current_pcb, n) /\ CanOpen(n) /\ SysSemOpen(n, 0)
          \/ n \notin holding[current_pcb] /\ SysSemWait(n)
          \/ n \in holding[current_pcb] /\ SysSemPost(n)
          \/ n \notin holding[current_pcb] /\ SysSemClose(n)

SemaphoreSpec == KernelInit /\ [][SemaphoreNext]_kvars
-----------------------------------------------------------------------------
Names == Pids \cup SemNames

KernelTypeOK ==
  /\ \A i \in Slots :
       /\ sem_spaces[i].status \in {"AVAILABLE", "UNAVAILABLE"}
       /\ sem_spaces[i].identifier \in Names \cup {0}
       /\ sem_spaces[i].is_locked \in BOOLEAN
       /\ sem_spaces[i].queue \in Seq(Pids)
       /\ sem_spaces[i].allowed_processes \in Seq(Pids \cup {NOBODY})
  /\ foreground_pid \in Pids
  /\ \A p \in Pids :
       /\ at[p].op \in {"user", "wait", "unlock", "wake", "die", "remove", "finish"}
       /\ at[p].name \in Names \cup {0}
       /\ at[p].slot \in Slots \cup {0}
  /\ holding \in [Pids -> SUBSET Names]

\* p has posted its semaphore: it was killed, or its exit got past the post.
Finished(p) == status[p] = DEAD \/ at[p].op \in {"wake", "die", "remove", "finish"}

\* The foreground process, the one Ctrl-C kills and the keyboard feeds, exists
\* and has not been killed, whichever way foreground processes end.
ForegroundLives == status[foreground_pid] \notin {DEAD, NONE}

\* A process blocked in waitpid has a child that will still wake it: it is in
\* the child's queue and the child is neither killed nor past its wake-up.
NoMissedExit ==
  \A p \in Pids : at[p].op = "wait" /\ at[p].name \in Pids /\ status[p] = BLOCKED =>
     LET c == at[p].name
     IN  /\ status[c] # DEAD
         /\ at[c].op \in {"user", "wait", "unlock", "wake"}
         /\ p \in Members(sem_spaces[at[p].slot].queue)

\* A process that slept in waitpid returns, and kills what it waited for, only
\* when the child has finished.
WaitpidReapsFinished ==
  [][\A p \in Pids : at[p].op = "wait" /\ at[p].name \in Pids /\ at'[p].op # "wait"
                       => Finished(at[p].name)]_kvars

\* The index a waiter keeps while it sleeps still is the slot of the semaphore
\* it asked for: closing never frees, and reopening never reuses, a slot that
\* a living process waits on.
WaitersKeepTheirSlot ==
  \A p \in Pids : at[p].op = "wait" /\ status[p] # DEAD =>
     /\ sem_spaces[at[p].slot].status = "UNAVAILABLE"
     /\ sem_spaces[at[p].slot].identifier = at[p].name

\* Between a wait that returned 0 and the post no other process gets the
\* semaphore, whatever is opened, closed or preempted meanwhile.
MutualExclusion ==
  \A p, q \in Pids : p # q => holding[p] \cap holding[q] = {}

\* A process blocked in my_sem_wait is never forgotten: somebody alive has the
\* semaphore and will post it, or a woken waiter is about to take it.
NoLostWakeup ==
  \A p \in Pids : at[p].op = "wait" /\ status[p] = BLOCKED /\ at[p].name \in SemNames =>
     /\ p \in Members(sem_spaces[at[p].slot].queue)
     /\ \E q \in Pids : /\ status[q] \in {READY, RUNNING}
                        /\ \/ at[p].name \in holding[q]
                           \/ at[q].op = "wait" /\ at[q].slot = at[p].slot
=============================================================================
