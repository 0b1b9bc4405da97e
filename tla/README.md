# BOKE-OS: TLA+ models, checks and proofs

BOKE-OS is a small teaching kernel for x86-64: one processor, ring 0 only, a
preemptive scheduler with priorities, two memory managers, named semaphores,
pipes, a keyboard and video driver, and a userland with a shell, games and
tests. This directory holds TLA+ modules translated from its source, the TLC
configurations that check them, and TLAPS proofs of the main results.

## What runs when

All gates installed by `Kernel/idtLoader.c` are interrupt gates, so interrupt
handlers and system calls run with interrupts disabled: a system call is one
step, except where it gives the processor away (`finish_current_tick`) and goes
on when it is scheduled again. Process code runs with interrupts enabled, and
so does one piece of kernel code: `process_wrapper` (`Kernel/process.c:121`)
calls `force_kill` as a plain function when a process returns from its entry
point. Most of what is hard in this system follows from these two facts, and from
a third: the shell does not wait for the commands it starts. It writes its next
prompt and reads its next line beside them, without the foreground.

## Inventory

| Component | State | Operations | Used by | Modelled in |
|---|---|---|---|---|
| bitmap heap (`memory_manager/mem_bitmap.c`) | one byte per page, start, end | init_mm, malloc, free | everything | `BitmapHeap`, `Heap` |
| buddy heap (`mem_buddy.c`, `make buddy`) | tree of nodes in an array, mem_allocated | init_mm, malloc, free | alternative build | `BuddyHeap` |
| circular list (`circular_list.c`) | current_node, qty | insert_node, remove_node | scheduler | as sequences in `Scheduler` |
| scheduler (`basicScheduler.c`, `_irq00Handler`) | four queues, removal and creation queue, current_pcb, status, priority, ticks | timer tick, switch, block, revive, nice, create, remove | processes, semaphores, keyboard | `Scheduler` |
| process lifecycle (`process.c`) | pid counter, foreground_pid | create, exit, force_kill, waitpid, Ctrl-C | system calls | `Kernel` |
| semaphores (`semaphore.c`, `semaphores.asm`) | table of 128 slots: name, lock, waiters, allowed pids | open, close, wait, post, clear | processes, pipes, keyboard | `Kernel` |
| pipes (`pipe.c`) | ten rings with positions, count and end-of-file mark; first_eof | create, read, write, end of file | sys_read, sys_write | `Pipes` |
| keyboard (`keyboard_driver.c`, `keyboard_buffer.c`, `sys_read`) | key buffer, position, Ctrl | interrupt, read | shell, commands | `Terminal` |
| video driver (`videoDriver.c`) | cursor, font size | glyph, newline, tab, backspace, scroll, clear | sys_write, pong | `Screen` |
| shell (`shell.c`) and commands (`commands.c`) | the line; the processes started | edit, run a line, pipe, background | - | `Terminal`, `Commands` |
| pong (`pong.c`) | paddles, ball, scores, keys, speeds | menus, configuration, frame, pause | shell | `Pong` |
| philosophers (`phylo.c`) | fork_states, number of philosophers | think, take and put forks, add, remove | shell | `Philosophers` |
| tests | - | test_sync, test_pipes, test_mm, test_processes, test_prio | shell | `TestSync`, `TestPipes`; the others are callers of the heaps, `Scheduler` and `Kernel` |
| sound, clock, conversions, console, exceptions | - | output | system calls | not modelled |
| module loader, packer, Pure64, BMFS | - | boot | - | not modelled |

`PROJECT.json` lists the components with their sources, and the hazards of the
code, each at its line with the properties that would catch it going wrong.

What makes each modelled part correct:

- heap: a block belongs to one caller; malloc fails only when nothing fits;
  free gives back one whole block whatever pointer into it is passed, with one
  exception, the address just behind the heap; the bitmap is exact, since `free`
  walks it without a bound;
- scheduler: one RUNNING process; a process is in exactly the queue its
  priority field names; the dead do not come back; the highest READY queue is
  served and nobody READY is passed over for ever, unless processes are created
  without end; the idle process is the only
  thing between the scheduler and a null pointer;
- processes: a waiting parent is woken by every way its child can end, and only
  then; the foreground process exists;
- semaphores: mutual exclusion, no lost wake-up, and no slot freed under a
  waiter that keeps its index while it sleeps;
- keyboard and shell: a foreground process asleep in `sys_read` gets the key that
  woke it (behind a command the shell misses it), positions stay inside the buffer,
  and a line that was prompted for on the screen is the line the screen shows;
- pipes and command lines: the commands of a pipeline share a pipe nobody else
  has, bytes come out in order, and Ctrl-D ends the reader;
- pong: ball and paddles stay in the field, a save is no goal, a match that is
  played is not over, and the shell gets its screen back, except from Ctrl-C;
- philosophers: neighbours do not eat at the same time.

## Modules

**`Heap`** is the abstract memory manager: a set of live blocks, malloc of any
run that fits, free of the block around a pointer. It makes one exception, for the
address just behind the last page: its free may give back any of the blocks.

**`BitmapHeap`** translates `mem_bitmap.c`. `pages` is the bitmap; `blocks`,
`arg` and `ret` are history: what was handed out and not given back, the pages or the
pointer the last call was given and what it returned. `malloc`
and `free` are the two actions; `find_pages`, `get_page_index`,
`get_first_page_index` keep their names. The counting loop of `find_pages` is
written as the first run that is free; `scan_pages` is the loop itself, as a
recursive function, and `ScanIsFirstFit` compares the two. `get_page_index` compares
with `>` and so takes `end` for a page, number `page_qty`; what `free` reads there is
a byte behind the bitmap, and `FreeEnd` has every outcome of that: nothing, or a walk
from the last START page, or one from below the bitmap. (The number of pages `kernel.c`
asks for is a multiple of 32, the page size, so that the byte is the first of page 0 and
belongs to whoever has that page.) The one malloc that interrupts can reach, that of the
removal-queue node in an exit, needs no steps of its own: `force_kill` marks the process
DEAD before it (`process.c:203`), so that a process preempted there never runs again.

**`BuddyHeap`** translates `mem_buddy.c`: `node` is the array of nodes with all
their fields, links included, and `malloc_rec` and `free_rec` are recursive
operators on it. A child keeps the links that its place held, as in the code, so
that a merge that forgot to cut one would show. `held` and `slack` are history: the
blocks callers hold, and by how much the leaves of freed ones exceeded what was asked
for. `MCHeaps` checks both managers, as the kernel is built with one or the other. The model
assumes that the array ends below the heap. With the numbers of `kernel.c` (node
array at 0x600000, heap at 0x2700000 of as many bytes) that holds for requests of
more than 128 bytes; a request of 64 bytes puts its node at place 1048555, inside
the heap.

**`Scheduler`** translates `basicScheduler.c`. A circular list is the sequence of
its entries from `current_node`. Each C function is an operator on a record with
the scheduler's globals, so that larger modules can use the same operators; the
actions are the entry points: timer, yield, block, nice, create, wake, kill, and
the three steps of an exit that the timer can separate. Callers are arbitrary:
whoever runs may call anything on the pids in `Targets`, and any set of blocked
processes may be woken. `fault` records that `get_idle_pcb` followed a null
`current_node`. `MCSchedulerLive` adds the fairness of the timer, and creations without
end: a pid that was removed is handed out again, since the scheduler keeps nothing of it
and the code's pids do not run out. So `DeadStaysDead` is about processes the scheduler
still has something of.

**`Kernel`** extends `Scheduler` with semaphores and processes. `at[p]` is where a
process is: in its own code, asleep inside `enter_region` (it then runs with
interrupts disabled and tries the lock again), or at one of the steps of its
exit. `holding` is history. `LifecycleSpec` and `SemaphoreSpec` are two kinds of
callers over the same operations.

**`TestSync`** is `test_sync.c` as a program on that kernel: the shell, the test
and its two children, statement by statement where they touch the kernel or the
shared counter.

**`Screen`** is the cursor of the video driver, each C function an operator on the
record of its globals. **`Terminal`** composes it with the keyboard interrupt, the
key buffer, `sys_read` and the line editor of the shell, and with the command it started
last, which reads keys and draws beside it. `at` is where the shell is, `cmd` where the
command in the foreground is, and an interrupt may come between any two steps of the
two. Without the foreground the shell's prompt and echo go to pipe 0 (`Echo`), and its
`sys_read` takes no position: it sleeps and returns without a byte, so that `get_c`
returns what was on the stack (`sys_read_behind`, `junk_read`; `syscalls.c:50-55`). When
the command ends, the shell is wherever that has led it, in the middle of a line of
junk or of a prompt. `home`, `clean`, `up`, `first`, `drained` are history for the
properties. Keys are classes of keys.

**`Pong`** is the game on a screen of its own: `g` is the record of its globals, `loc`
its locals, `ph` the menu or loop it is in. A frame reads the key events since the
last one, moves the paddles and the ball, and may score. It is one of the commands of
`Terminal`, and the two meet in a contract: `Terminal` lets a command print, and clear the
screen and then choose a font (`Printed`, `Repainted` in `Screen`), and `DrawsAsProgram`
says that every step of pong is of that kind, also when it is started again after a
Ctrl-C. `MCConsole` checks one or the other, on screens of the same size; what joins
them is that contract, not the run.

**`Pipes`** is the kernel's pipes, **`Commands`** the split of a command line into
one or two processes and what those do byte by byte through `sys_read` and
`sys_write`. A line is a sequence of words. The shell is a process among them: it types
its prompt to the screen or, behind a foreground process, to pipe 0, sleeps in
`sys_read` and goes on with a byte from its stack, and runs the lines of junk that
come of it, each of which takes a pipe. Pipe 0 has no buffer until the table is full, so
these bytes go to address 0 and on, over the interrupt table; `lost` says that the
machine did not survive that. `unread`, `fifo`, `amp`, `wild` are history.
**`TestPipes`** is `test_pipes.c` on those pipes.

Pipes and philosophers name their semaphores by the index `my_sem_open` returned,
cast to `char *`. `locate_sem` compares names, and at the addresses 0 to 127 lies
the interrupt table, whose bytes spell no name in use. So `my_sem_wait` returns -1
and `my_sem_post` 1, both at once, and these modules leave the calls out.

**`Philosophers`** is `phylo.c`, with `test` in two steps, the reads and the write.

The theorems are in **`BitmapHeapProofs`**, **`SchedulerProofs`** (typing, one
process runs, queues, dead processes, priorities), **`KernelProofs`** (lemmas: what
each kernel action does to each variable), **`SemaphoreProofs`**, **`LifecycleProofs`**,
**`TestSyncProofs`**, **`CommandsProofs`** and **`ConsoleProofs`** (`Terminal` and
`Pong`). Each extends the module it is about.

The definitions whose comment says "Mutant of" are plausible mistakes in the
operator they name. None is used by a specification; each shows that a property
can fail: with it in place of the original, TLC refutes that property.

## Runs

| Run | Configuration | Result |
|---|---|---|
| heaps | bitmap: 7 pages of 2 bytes, requests of 0 to 8 pages; buddy: 8 or 12 bytes, requests of 0 to 9; free of every address from 0 to behind the heap | the bitmap is exact, blocks are disjoint, `find_pages` is first fit, `Heap` is implemented; the buddy tree describes the blocks, `mem_allocated` sinks by the unasked-for bytes of freed blocks |
| scheduler_any_call | pids 2 to 4: shell, idle and one more; any target, any priority | one process runs, queues match priorities, a fault needs a lost idle |
| scheduler_live | pids 2 to 5: shell, idle and two more, handed out again when removed; idle not a target, nice to HIGH (demotion alone lowers); timer fairness | the dead stay dead and off the processor, the highest READY queue runs, every READY process runs once creations and nice stop |
| process_lifecycle | shell, idle and 2 client processes; Ctrl-C, kill, waitpid of any process any number of times, ps | no missed exit, waitpid reaps only the finished, the foreground lives, `Scheduler` is used as specified |
| semaphores | 3 clients, 1 semaphore | mutual exclusion, no lost wake-up, waiters keep their slot |
| test_sync | 1 pair of children, 2 iterations | prints 0 |
| test_sync_full_table | the test run twice on a table with room for one run | **violated**: the second run prints another value |
| console | a screen of four lines of four cells in one font, two of two in the other; key buffer of 3 cells, bursts of 2 keys, prompts of 3 characters and lines of 2, a command that reads and prints; or pong on that screen, one configuration option, runs without end, left by keys or by Ctrl-C | the foreground reader sees its key, an overrun needs a read of the last cell, the echo shows the line, glyphs stay on the screen; the properties of `Pong`, and that it draws as `Terminal` assumes |
| pipeline | 3 pipes of 2 bytes, 3 command lines | the safety properties of `Pipes` and `Commands` |
| ctrl_d | the same pipes, two pipelines with endless writers, fairness | the first Ctrl-D ends its reader |
| test_pipes | the same pipes, the letters of the test | **violated**: FILTER skips a consonant |
| philosophers | 3 philosophers, up to 4 | **violated**: neighbours eat together |

Several properties of the code hold only with a premise, which is part of the
property and is exact: without it TLC finds a behaviour of the code that breaks
it. `OverrunNeedsLastCell`: the key buffer is overrun once its last cell was read,
since `sys_read` does not wrap. `PipelineConnected`: the tenth line and later ones
have no pipe of their own. `OutputHasABuffer`: of the processes that lines start, one
with `&`, or behind a `|` that begins the line, writes through a null pointer; the
shell, which the property is not about, does so behind every foreground command.
`EchoMatchesLine`: the shell had the foreground when it finished its prompt; a line
begun behind a command is not on the screen. `ReadyEventuallyRuns`: callers stop
creating processes and changing priorities; a shell that starts processes without
end, each at HIGH, does starve those at LOW.
`CtrlDEndsReader`: only the first Ctrl-D of all pipes, and the machine survives what the
shell writes meanwhile.
`SavedBallDoesNotScore`: a ball between the sides, with a speed within the border and
the ball's radius, and each paddle in its half (`Savable`). `BallInField`,
`PaddlesInField`: speeds within the border, sizes that fit, and at most one
configuration option taken, since a second one can slow down a ball that has left.
`MatchIsOpen`: the run before left no points, which it does from the final screen
and when Ctrl-C kills it. `ScreenHandedBack` is about pong returning by itself:
Ctrl-C leaves the font as it is. `ImplementsHeap` excepts the address `end`.
`AllocatedSinksBySlack` has no premise: on a power of two of memory the counter is
what callers hold, on the kernel's amount it sinks, and the property says by how much.

Bounds. Seven pages hold three blocks of different kinds with gaps, which is
where first fit and the walks of `free` can go wrong; a bigger heap adds more of
the same, and the proofs cover every size. Two processes beside shell and idle
give a queue more than one entry and let two die in one quantum while a third
watches; `scheduler_any_call`, where shell and idle are targets too, does with one;
`MaxPending` bounds the kills between two context switches. Three
clients are the fewest for which waking half of the waiters differs from waking
all or one. `MaxOpens` bounds the array of openers, which in the code grows
without a check. `MAX_SEMS` is 128 in the code; the full-table run makes it
small so that the second run of the test already meets the full table. The
quantum is 1, as `init_scheduler` sets it. 8 and 12 bytes are halved three times,
12 with a remainder as 39 MB have; `mem_allocated` has 4 bits so that it wraps as
its 64 do. The screen of the console run holds four lines of four cells, so that
wraps, scrolls and erasing over a line end happen in a short line; the field of
pong is a few steps of the ball, and the entries of its configuration
(`MCEntries`) reach both sides of every premise above. `MaxBurst` bounds the keys
that arrive before a woken reader runs: two, so that a second key follows the one
that woke it. `MaxConfig` bounds the options taken. Pipes of
two bytes wrap and fill with three; `MaxCount` is where `left_to_read` stops
being counted exactly, beyond a buffer in either direction. Two lines use up the
pipes, the third meets the full table. `Stale`, what a stack may hold, is a byte that
is no command and a newline.

Fairness. `scheduler_live` assumes only that the timer interrupt keeps coming
while the kernel has not faulted, which the hardware guarantees: outside system
calls, which are single steps, interrupts are enabled. No process is assumed to
make progress by itself. Once nobody calls nice or creates a process, every process that
keeps running sinks to the LOW queue, where `current_node` moves round. Until then
creations do go on: killed pids are handed out again, so the bound on pids does not
stop them. A process that nice puts
into the idle queue is never scanned; the run leaves that priority out, and the ones
that demotion reaches by itself.
`ctrl_d` assumes weak fairness for each process that can run, which is what
`scheduler_live` shows of the scheduler; keys are not assumed to come, and no
progress of the shell is needed.

## The disagreements

`test_sync_full_table`: `test_sync` prints "Expected value: 0" (`test_sync.c:84`).
`kill_processes_in_removal_queue` takes the pid out of its queue and then passes
`get_pcb_entry(pid)`, now NULL, to `free_process` (`basicScheduler.c:340-341`), so
the semaphore of a dead process is never released. When the table is full,
`create_process` does not notice that `my_sem_open` failed, and `waitpid`, which
ignores the result of `my_sem_wait`, kills the child at once: the test then
prints before its children are done.

`test_pipes`: the test prints "Expected FILTER output = MRCLG" (`test_pipes.c:62`).
FILTER does not wait for its writer: it reads cells of the fresh buffer before
they are written, and bytes written behind it are not shown. The test waits for the
writer and not for FILTER, which may print after it.

`philosophers`: HELP calls PHYLO "the dining philosophers solution"
(`commands.c:33`). Nothing protects `test`: two neighbours find each other hungry
and both start to eat. A philosopher whose test fails does not wait either; it
goes through `eat` without eating.

## Proofs

`BitmapHeapProofs` proves, for every base address, amount of memory, page size
and set of requests (`HeapAssumption`: naturals, page size and base not 0):

- `HeapInvariant`: the inductive invariant `HeapInv`, the conjunction of typing,
  disjointness and the exact bitmap. Neither of the last two is inductive alone:
  malloc trusts the bitmap to avoid live blocks, and free trusts disjointness to
  stop inside its own block.
- `HeapTypeCorrect`, `MallocNeverOverlaps`, `BitmapIsExact`: its consequences.
- `BitmapImplementsHeap`: every step is a step of `Heap`, for free of every address.
  The lemmas on the walks of `free` show that the walk from any page of a block ends at
  its bounds; the least-counterexample form of induction gives the existence of the
  first run. `FreeEnd` keeps the invariant too: wherever its walk begins, it ends at the
  end of a block, so it gives back whole blocks and leaves the bitmap exact.
- `ScanFindsFirstFit`: the counting loop of `find_pages` returns the first run that is
  long enough, on any bitmap. `LoopExists` builds the function the loop computes from
  the last page down, so that its recursive definition may be unfolded; `Standing` is the
  loop's invariant (the counted pages behind it are free, and no long enough run starts
  before them), and `LoopFromHere` is the induction on the pages left. A request of no
  page is a case of its own: the count never matches.
- `BitmapBelowPages`: the bitmap lies below the first managed page.

`SchedulerProofs` proves, for every quantum, number of pids and set of targets
(`SchedulerAssumption`), `SchedulerInvariant`: typing together with "only the
current process is RUNNING", and from it `SchedulerTypeCorrect` and
`OneProcessRuns`. There is one lemma per C function: each takes a good record to
a good record. The lemma on `Without` (what `remove_node` leaves) is an
induction over the queue by least counterexample.

Its second half strengthens that record invariant to `Sound`, one lemma per C
function again, and proves `SoundInvariant`:

- `QueuesMatch`. Alone it is not inductive: a dead process keeps its entry until the
  next switch, one in the creation queue has none yet, and a pid that was never
  handed out must be nowhere. `Sound` says who may be in which list.
- `FaultOnlyWithoutIdle`: `find_next_process` has somebody to return as long as the
  idle process is in its queue and alive.
- `HighestRuns`, without further assumptions. `DeadStay` (a killed process stays
  killed while the scheduler has anything left of it) and `DeadNeverRun` assume
  `IDLE_PID \notin Targets`, as the run does: the only way back from the dead is
  through `get_idle_pcb`, which does not look at the status. `IdleFirst` is what the
  assumption keeps: the idle process is the head of its queue.

`KernelProofs` carries this over to the kernel. A scheduler function does to the
kernel's record what it does to the scheduler's part, and nothing to the rest
(`Frame`); so each action is one `Effect` lemma, and the proofs about semaphores
and processes use the scheduler through `Sound` alone. `KernelAssumption` says that
no semaphore name is a pid and that the table has room for shell and idle.

`SemaphoreProofs` proves of `SemaphoreSpec`, for every number of processes, names
and slots, `SemaphoreInvariant` (`SemInv`) and from it:

- `Exclusion`. The lock bit and the holders must agree: what is held is locked, its
  slot is in use under that name, no two slots have one name, and the holder is
  still among the openers, so that a close by others does not free the slot.
- `SlotsAreKept`: the same for waiters, which are openers too while they sleep.
- `KernelTypes`.
- `WakeupsArrive`, with one semaphore name (`OneName`, an assumption of the theorem):
  whoever sleeps is queued, a locked semaphore has a holder who is awake, and an
  unlocked one with sleepers has a woken waiter (`Watched`). With two names two
  processes can wait for each other, and nobody awake has either.

`LifecycleProofs` proves of `LifecycleSpec` `LifecycleInvariant` (`LifeInv` and
`ReapInv`): `Core` says where each process is in its exit and what its status then is, and that the
shell and the foreground process live; `Wired` says that the semaphore of each pid
is closed until that process posts it, and who waits for it. `ReapInv` is about a
second waitpid: a process for which one went on is dead, and its semaphore is open
as long as it is in a queue, because `force_kill` posts once more (`process.c:201`). So
nobody falls asleep on it, and `NoMissedExit` holds of any number of waits for one
child. From the two:

- `ForegroundStays`, `ExitsAreNoticed`, `WaitedSlotsAreKept`, `LifecycleTypes`.
- `WaitpidReaps`, the action property: only a retry ends a sleep, it needs an open
  lock, and only the end of the child opens it.
- `LifecycleImplementsScheduler`: with the clients among the targets, every step is
  a step of `SchedSpec` or a stutter. It needs `Tidy` beside `LifeInv`: the removal
  list is empty whenever a waiter is scheduled. `KernelQueuesMatch` is its first
  fruit.
- `KernelNeverFaults`: these callers leave the idle process alone, so the scheduler
  never faults.

`TestSyncProofs` proves `ExpectedIsZero` of the program `test_sync` on that kernel: it
prints 0 in every run, for any number of rounds and wherever the timer strikes.
`TestInv` has six parts beside the sound scheduler:

- `Tabled`: the slots of the semaphore table are taken from the first on, one for each
  pid handed out and one for `sem_1`; none is given back.
- `Standing`: where the kernel has a process agrees with where its program is. It
  sleeps only in the three calls that wait, and only a program that returned is killed.
- `Ends`: the semaphore of a child is its creator's and stays locked until the child
  has done all its rounds. So `waitpid` returns when the child is done.
- `Mutex`: a child between `sem_wait` and `sem_post` has `sem_1` alone, and what it
  loaded before the yield still is the value of the counter.
- `Course`: one test after the other. The one that is not done is in the foreground and
  has the last three pids, and the counter is what the increaser stored less what the
  decreaser stored.
- `PcTypes`, the types.

`Kept` says what a step of the kernel leaves alone (names, other locks, the living);
each step of a program is one lemma on top. The theorem assumes `TableHasRoom`, a slot
for every process and one for `sem_1`. The code has 128 slots and hands out pids
without end, so the assumption covers the first 126 processes of a boot, and
`test_sync_full_table` shows that the statement is false without it.

`CommandsProofs` proves of `Commands`' specification, for every number and size of
pipes and every set of lines, `CommandsInvariant` (`CommandsInv`):

- `PipesAreQueues`. `Ring` ties positions, count and cells to the unread bytes
  modulo the buffer size, for as long as `fifo` says that neither side lapped the
  other. The count and both positions are needed for the step that wraps.
- `PipelinesConnect`: the n-th line got the n-th pipe as long as there is one, lines of
  junk included, its processes are 2n - 1 and 2n, and nobody else was given that
  descriptor.
- `BuffersExist`, `CommandsTypes`. `OutInv`: what runs on the shell's descriptor is in
  the foreground and has nothing left to write.

A line that begins with `|` sets `is_fg1` to 0 while `end_first_com` stays 0
(`commands.c:76-81`): its command runs in the background with the shell's descriptors
and writes through the null buffer of pipe 0, although no `&` was typed. That is why
the premise of `OutputHasABuffer` names it beside `&`.

`ConsoleProofs` proves all properties of the console run, for every size
of the buffers, the screen, the fonts and the game. In four parts:

- Keys, of `Terminal`. `KeyInv` (`TerminalInvariant`) holds for every burst below the
  buffer size: `KeysAreSeen` and `OverrunExplained`. Beside the two properties `KeyInv`
  has the types of the positions, the fact that the foreground process alone sleeps for a
  key, shell or command, and the fact that it sleeps past the buffer's end only
  when the handler is there too (`AsleepPastTheEnd`), so that the next key overruns and
  no key can be in between.
- The cursor. Between two words it is on the grid of its font, in some row of the
  screen (`Page`); every function of the driver keeps `Page`, and a word is a fold of
  them. The fold is unfolded by `FoldExists` and `DrawSteps`, inductions over the
  length by smallest counterexample, so that `DrawFold` can say what any word keeps.
  `ScreenInvariant` says it of `Terminal`, commands that repaint in another font
  included; `TerminalTypes`, `GlyphsStay`.
- The game. `PongInv` (`GameInvariant`) says in which font each phase of pong has the screen, that
  nobody has won (`Scores`), and what is true of ball and paddles after 0, 1 and more
  options (`Field`): the sides are kept as long as nothing was faster than a border,
  and a ball that has left need not come back. `MatchesAreOpen`, `BallStays`,
  `PaddlesStay`, `ScreenIsBack`, `PongTypes` (the types of the game, which no run
  lists), and two action properties: `SavesHold`, for
  which `Paced` is needed, that the ball never goes faster sideways than the configured
  speed; and `DrawsLikeAProgram`, the other half of the contract with `Terminal`: with
  it, what `ScreenInvariant` says of the shell's screen holds with pong on it, killed at
  any point.
- The line. `EchoInv` says that a clean line is one the shell types at its prompt with
  no command in front of it (`Typing`), and that the cursor is then as many cells
  after the prompt as the line has characters (`Shown`), where `Cell` counts the cells
  from the top left corner, scrolled lines included; each of glyph, newline and backspace moves it
  by its own count. `Scrolled` keeps backspace from the top row: only as many rows
  have gone up as the line needed. `LineIsShown`.

The assumptions, with the values of the code: rows and columns fill the screen in every
font (`FontsFit`, over `FontSizes`: 1024 x 768, glyphs of 8 x 16 and 32 x 64, positions of
32 bits); pong's second font is one of them, and its options are printed as outputs are
(`PongScreen`); what is loaded fits the field and moves less than a border (`FieldAssumption`: border 20,
paddle 4, ball 2 * 3); a full line fits the rows above the last
(`LineFits`, in every font: 127 cells, of 11 * 32 in the large one); the words of
`Entries` and `Outputs` are words (`PongAssumption`, `OutputsAssumption`).

Three statements changed on the way. `BallInField` and `PaddlesInField` were false once
two options are taken, which the run's `MaxConfig` did not reach, and got the premise.
`MatchIsOpen` had a premise on the score that the proof did not need.
`SavedBallDoesNotScore` spoke of the frame in which a paddle is hit and now speaks of
every ball in front of a paddle.

The strengthenings were checked with TLC on the instances of the runs before they
were proved.

Only model-checked: liveness (`ReadyEventuallyRuns`, `CtrlDEndsReader`) and `ENABLED`,
beyond the proof system; and the buddy heap (`TreeDescribesBlocks`, `AllocatedSinksBySlack`),
whose search is a recursive operator over the tree. The theorems
with an `ASSUME` of their own say so above; all others need only the named
assumptions on the constants.

## What the models leave out

malloc always succeeds in `Scheduler` and `Kernel`. `parent_pid` is only printed
by live code and is left out, with `reassign_children_to_shell`. A list operation
of the exit path is one step, although the timer can interrupt it: the process is
DEAD by then and what it was doing is never finished, so that pages its malloc had
marked stay marked. Slot 0 of the semaphore table, the keyboard's, is a lock in
`Terminal` and left out of `Kernel`; `init_keyboard_sem` lets only pids from 1 to
1024 wait for it. `kill_process` and the ZOMBIE status are not reached by any
call. Names of semaphores are distinct values; a pid of five digits overflows
`sem_name`, which the models do not show.

In `Terminal` one command at a time has the foreground; what it makes of the keys it
reads, and a second one, are in `Commands`, where a key is a byte. A post wakes half of
those who wait for the keyboard: the shell may be woken or not, but the model's reader in
front of it always goes on from the open lock, while in the code it may be the later post
that wakes it. Ctrl-P and Ctrl-L are modelled at the shell and over commands; over pong
they are steps of `Terminal` only, not of `Pong`. The titles of pong's menus are drawn in
two more fonts (10 and 6) inside one step; a Ctrl-C between the lines of a title would
leave a font that does not divide the screen, of which `GlyphsOnScreen` says nothing. The
welcome text at boot is left out. CAT keeps its line in an
array of fixed length without a check (`commands.c:335`); the model bounds the
line (`MaxComm`). Only the first 20 characters of a line are split
(`commands.c:60`), and the lines of the model are shorter. The argument blocks of
a piped or unknown line are never freed (`commands.c:44`). NICE checks its
arguments and changes nothing (`commands.c:190`), although HELP says "Change the
priority of a process".

## Not modelled

`test_processes` and `test_prio` make calls that the callers of `Scheduler` and
`Kernel` already make in every order, and `test_mm` those that the callers of the two
heaps make. The circular list is a sequence, its pointers
are not followed. Sound, clock, number formatting, the naive console, exceptions
and the register dump only print. Loader and packer copy bytes. Pure64 and BMFS are
third-party code. Pixels, colours and texts are output.

## Plan

Proofs next: the buddy heap, with its two searches written as loops along a path.
