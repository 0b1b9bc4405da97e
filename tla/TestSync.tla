------------------------------ MODULE TestSync ------------------------------
(***************************************************************************)
(* The synchronization test (Userland/SampleCodeModule/test_sync.c) run on   *)
(* the kernel of Kernel.tla.  test_sync creates a decreaser and an           *)
(* increaser (one pair here, ten in the code), waits for both and prints     *)
(* the value of the shared counter, which each child changes `iterations`    *)
(* times between sem_wait and sem_post, yielding in the middle.  The shell   *)
(* starts the test again as often as MaxPid allows.                          *)
(*                                                                          *)
(* Pids go up by one, so in each run the test, the decreaser and the         *)
(* increaser are three pids in a row, from 4 on.                             *)
(***************************************************************************)
EXTENDS Kernel

CONSTANTS sem_1,        \* the name of the semaphore
          iterations    \* n of my_process_inc

ASSUME TestSyncAssumption == sem_1 \in SemNames /\ iterations \in Nat

VARIABLES pc,      \* what each process does next
          aux,     \* the local copy of slow_inc
          rounds,  \* iterations done by my_process_inc
          global,
          printed  \* the final values test_sync printed

tvars == <<kvars, pc, aux, rounds, global, printed>>

Role(p) == (p - 4) % 3
IsTest(p) == p >= 4 /\ Role(p) = 0
inc(p) == IF Role(p) = 1 THEN -1 ELSE 1

\* Where a program starts.
Entry(p) == IF p = SHELL_PID THEN "command" ELSE IF IsTest(p) THEN "decreaser" ELSE "open"

TestInit == /\ KernelInit
            /\ pc = [p \in Pids |-> Entry(p)]
            /\ aux = [p \in Pids |-> 0]
            /\ rounds = [p \in Pids |-> 0]
            /\ global = 0
            /\ printed = {}

\* The current process goes from one place of its program to another.
Goto(from, to) == /\ Running
                  /\ pc[current_pcb] = from
                  /\ pc' = [pc EXCEPT ![current_pcb] = to]

Local == UNCHANGED <<aux, rounds, global, printed>>

\* The shell runs the test in the foreground and reads the next command: it
\* sleeps until a key is pressed, and again if the test still is in front.
ShellCommand == /\ Goto("command", "read")
                /\ foreground_pid = SHELL_PID /\ pid + 2 =< MaxPid
                /\ SysCreate(TRUE)
                /\ Local

ShellRead == /\ \/ Goto("read", "command")
                \/ Goto("command", "command") /\ foreground_pid # SHELL_PID
                \/ Goto("command", "command") /\ pid + 2 > MaxPid
             /\ Becomes(block_current(Now))
             /\ Local

Key == /\ InterruptsEnabled /\ status[SHELL_PID] = BLOCKED
       /\ Becomes(os_revive_process(Now, {SHELL_PID}))
       /\ UNCHANGED pc /\ Local

\* test_sync.  It starts a run with the counter at 0.
CreateDecreaser == /\ Goto("decreaser", "increaser")
                   /\ SysCreate(FALSE)
                   /\ global' = 0
                   /\ UNCHANGED <<aux, rounds, printed>>

CreateIncreaser == Goto("increaser", "wait_dec") /\ SysCreate(FALSE) /\ Local

WaitDecreaser == /\ Goto("wait_dec", "wait_inc")
                 /\ Becomes(waitpid(Now, current_pcb + 1))
                 /\ Local

WaitIncreaser == /\ Goto("wait_inc", "print")
                 /\ Becomes(waitpid(Now, current_pcb + 2))
                 /\ Local

PrintFinal == /\ Goto("print", "exit")
              /\ printed' = printed \cup {global}
              /\ UNCHANGED <<kvars, aux, rounds, global>>

\* my_process_inc.  A child that cannot open the semaphore returns.
OpenSem == /\ Goto("open", IF locate_sem(my_sem_open(Now, 0, sem_1), sem_1) = NOT_FOUND
                             THEN "exit" ELSE "loop")
           /\ SysSemOpen(sem_1, 0)
           /\ Local

WaitSem == /\ Goto("loop", "load") /\ rounds[current_pcb] < iterations
           /\ SysSemWait(sem_1)
           /\ Local

EndLoop == /\ Goto("loop", "exit") /\ rounds[current_pcb] = iterations
           /\ UNCHANGED kvars /\ Local

Load == /\ Goto("load", "yield")
        /\ aux' = [aux EXCEPT ![current_pcb] = global]
        /\ UNCHANGED <<kvars, rounds, global, printed>>

SlowYield == Goto("yield", "store") /\ SysYield /\ Local

Store == /\ Goto("store", "post")
         /\ global' = aux[current_pcb] + inc(current_pcb)
         /\ UNCHANGED <<kvars, aux, rounds, printed>>

PostSem == /\ Goto("post", "loop")
           /\ SysSemPost(sem_1)
           /\ rounds' = [rounds EXCEPT ![current_pcb] = @ + 1]
           /\ UNCHANGED <<aux, global, printed>>

\* Returning from the entry point, and what the processor does by itself.
Return == pc[current_pcb] = "exit" /\ Exit /\ UNCHANGED pc /\ Local

Interrupt == (TimerInterrupt \/ Retry) /\ UNCHANGED pc /\ Local

TestNext == \/ ShellCommand \/ ShellRead \/ Key
            \/ CreateDecreaser \/ CreateIncreaser \/ WaitDecreaser \/ WaitIncreaser
            \/ PrintFinal
            \/ OpenSem \/ WaitSem \/ EndLoop \/ Load \/ SlowYield \/ Store \/ PostSem
            \/ Return \/ Interrupt

TestSpec == TestInit /\ [][TestNext]_tvars
-----------------------------------------------------------------------------
\* The test prints what it promises, "Expected value: 0": waitpid returned only
\* after both children were done, and no update of the counter was lost to the
\* yield between its load and its store.
ExpectedValueIsZero == printed \subseteq {0}
=============================================================================
