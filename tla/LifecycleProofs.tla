-------------------------- MODULE LifecycleProofs ---------------------------
(***************************************************************************)
(* Proofs about LifecycleSpec: processes that are created, waited for,      *)
(* killed and that return, with Ctrl-C and the timer in between.            *)
(*                                                                          *)
(* The invariant has three parts.  Core ties the places of processes and    *)
(* the foreground process to the scheduler; it suffices for ForegroundLives.*)
(* Wired ties the semaphores of processes to it: which are locked, who      *)
(* sleeps in which queue, and that whoever sleeps will still be woken.      *)
(* Reaped says what a second waitpid for the same child finds.              *)
(***************************************************************************)
EXTENDS SemaphoreProofs

-----------------------------------------------------------------------------
(* Places and the foreground process. *)

\* p exists, was not killed and has not begun to exit.
Lives(st, a, p) == st[p] \notin {DEAD, NONE} /\ a[p].op \in {"user", "wait"}

\* p was created and has not run.
Fresh(st, a, p) == Lives(st, a, p) /\ a[p].op = "user"

Killable == {SHELL_PID} \cup Clients

\* The foreground process, the shell and the processes about to be inserted live.
AllLive(g, fg, a) == /\ fg \in Killable /\ Lives(g.status, a, fg) /\ Lives(g.status, a, SHELL_PID)
                     /\ \A p \in Members(g.creation_queue) : Fresh(g.status, a, p)

Leaving == {"remove", "finish"}

Placed(g, a) ==
  /\ Safe(g) /\ a \in [Pids -> Place] /\ a[IDLE_PID].op = "user"
  /\ \A p \in Pids : /\ g.status[p] = NONE => a[p].op = "user"
                     /\ a[p].op = "wait" => a[p].name \in Clients
                     /\ a[p].op \in Leaving => g.status[p] = DEAD
  /\ g.status[g.current_pcb] = DEAD => a[g.current_pcb].op \in Leaving
  /\ g.status[g.current_pcb] # BLOCKED

Core(g, fg, a) == Placed(g, a) /\ AllLive(g, fg, a)

\* The foreground process after a step from g to r that itself leaves it at fg.
Fore(g, r, fg) == IF g.creation_queue # <<>> /\ r.creation_queue = <<>>
                    THEN g.creation_queue[Len(g.creation_queue)] ELSE fg

\* What the proofs use of Placed.
LEMMA CoreFacts ==
  ASSUME NEW g, NEW a, Placed(g, a)
  PROVE  /\ Safe(g) /\ Sound(g) /\ g \in SchedState /\ g.current_pcb \in Pids
         /\ g.status \in [Pids -> Statuses] /\ g.status[g.current_pcb] # NONE
         /\ g.current_pcb \notin Members(g.creation_queue)
         /\ g.creation_queue \in Seq(Pids) /\ Members(g.creation_queue) \subseteq Clients
         /\ a \in [Pids -> Place] /\ g.pid \in Nat
<1>1. Safe(g) /\ Sound(g) /\ a \in [Pids -> Place]
  BY DEF Placed, Safe
<1>2. /\ g \in SchedState /\ g.current_pcb \in Pids /\ g.status \in [Pids -> Statuses]
      /\ g.creation_queue \in Seq(Pids) /\ Members(g.creation_queue) \subseteq Pids /\ g.pid \in Nat
  BY <1>1, QueueTypes
<1>3. g.status[g.current_pcb] # NONE
  BY <1>1, <1>2, QueuedIsHandedOut
<1>4. g.current_pcb \notin Members(g.creation_queue)
  BY <1>1 DEF Sound, CurrentOut
<1>5. \A p \in Members(g.creation_queue) : 3 < p
  BY <1>1 DEF Sound, Pending
<1>6. \A p \in Pids : 3 < p => p \in Clients
  BY SchedulerAssumption DEF Pids, Clients, SHELL_PID
<1>. QED  BY <1>1, <1>2, <1>3, <1>4, <1>5, <1>6

\* The current process moves to x while statuses change.
LEMMA PlacedStep ==
  ASSUME NEW g, NEW a, Placed(g, a), NEW r, Safe(r), NEW x \in Place,
         g.current_pcb = IDLE_PID => x.op = "user",
         x.op = "wait" => x.name \in Clients,
         x.op \in Leaving => r.status[g.current_pcb] = DEAD,
         r.status[g.current_pcb] # NONE,
         \A p \in Pids : r.status[p] = NONE => g.status[p] = NONE,
         \A p \in Pids : g.status[p] = DEAD => r.status[p] = DEAD,
         r.status[r.current_pcb] # BLOCKED,
         r.status[r.current_pcb] = DEAD => [a EXCEPT ![g.current_pcb] = x][r.current_pcb].op \in Leaving
  PROVE  Placed(r, [a EXCEPT ![g.current_pcb] = x])
<1>. DEFINE c == g.current_pcb
            b == [a EXCEPT ![c] = x]
<1>1. c \in Pids /\ a \in [Pids -> Place]
  BY CoreFacts
<1>2. b \in [Pids -> Place] /\ \A p \in Pids : b[p] = IF p = c THEN x ELSE a[p]
  BY <1>1
<1>3. r.status[r.current_pcb] = DEAD => b[r.current_pcb].op \in Leaving
  OBVIOUS
<1>. HIDE DEF b
<1>4. b[IDLE_PID].op = "user"
  BY <1>2, ConstantFacts DEF Placed
<1>5. ASSUME NEW p \in Pids
      PROVE  /\ r.status[p] = NONE => b[p].op = "user"
             /\ b[p].op = "wait" => b[p].name \in Clients
             /\ b[p].op \in Leaving => r.status[p] = DEAD
  <2>1. CASE p = c
    BY <1>2, <2>1
  <2>2. CASE p # c
    BY <1>2, <2>2 DEF Placed
  <2>. QED  BY <2>1, <2>2
<1>. QED  BY <1>2, <1>3, <1>4, <1>5 DEF Placed, b

\* Statuses change and nobody moves.
LEMMA PlacedStays ==
  ASSUME NEW g, NEW a, Placed(g, a), NEW r, Safe(r),
         \A p \in Pids : r.status[p] = NONE => g.status[p] = NONE,
         \A p \in Pids : g.status[p] = DEAD => r.status[p] = DEAD,
         r.status[r.current_pcb] # BLOCKED,
         r.status[r.current_pcb] = DEAD => a[r.current_pcb].op \in Leaving
  PROVE  Placed(r, a)
  BY DEF Placed

\* All but the processes of L go on living, and so does whoever is created.
LEMMA LiveStep ==
  ASSUME NEW g, NEW fg, NEW a, Core(g, fg, a), NEW r, NEW b, NEW L, NEW f \in Killable,
         SHELL_PID \notin L, L \cap Members(g.creation_queue) = {},
         \A p \in Pids : p \notin L /\ Lives(g.status, a, p) => Lives(r.status, b, p),
         Lives(r.status, b, f),
         \A p \in Members(r.creation_queue) :
            (p \in Members(g.creation_queue) /\ b[p] = a[p]) \/ Fresh(r.status, b, p)
  PROVE  AllLive(r, Fore(g, r, f), b)
<1>. DEFINE q == g.creation_queue
<1>1. q \in Seq(Pids) /\ Members(q) \subseteq Clients /\ Clients \subseteq Pids
  BY CoreFacts, KernelConstants DEF Core
<1>2. \A p \in Members(q) : Lives(r.status, b, p)
  BY <1>1 DEF Core, AllLive, Fresh
<1>3. Lives(r.status, b, SHELL_PID)
  BY ConstantFacts DEF Core, AllLive
<1>4. q # <<>> => q[Len(q)] \in Members(q)
  <2>1. q # <<>> => Len(q) \in 1 .. Len(q)
    BY <1>1
  <2>. QED  BY <2>1 DEF Members
<1>5. Fore(g, r, f) \in Killable /\ Lives(r.status, b, Fore(g, r, f))
  BY <1>1, <1>2, <1>4 DEF Fore, Killable
<1>6. \A p \in Members(r.creation_queue) : Fresh(r.status, b, p)
  BY <1>2 DEF Core, AllLive, Fresh
<1>. QED  BY <1>3, <1>5, <1>6 DEF AllLive

\* A context switch, or a tick that is only counted.
LEMMA TurnCore ==
  ASSUME NEW g, NEW fg, NEW a, Core(g, fg, a), NEW r,
         \/ Switched(g, r)
         \/ /\ Safe(r) /\ r.status = g.status /\ r.current_pcb = g.current_pcb
            /\ r.creation_queue = g.creation_queue
  PROVE  Core(r, Fore(g, r, fg), a)
<1>1. Placed(g, a) /\ AllLive(g, fg, a)
  BY DEF Core
<1>2. /\ Safe(r)
      /\ \A p \in Pids : /\ r.status[p] = NONE <=> g.status[p] = NONE
                         /\ r.status[p] = DEAD <=> g.status[p] = DEAD
  BY DEF Switched, Alike
<1>3. /\ r.status[r.current_pcb] # BLOCKED
      /\ r.status[r.current_pcb] = DEAD => a[r.current_pcb].op \in Leaving
  BY <1>1 DEF Switched, Placed, RUNNING, BLOCKED, DEAD
<1>4. Placed(r, a)
  BY <1>1, <1>2, <1>3, PlacedStays
<1>5. \A p \in Members(r.creation_queue) : p \in Members(g.creation_queue)
  BY DEF Switched, Members
<1>6. \A p \in Pids : Lives(g.status, a, p) => Lives(r.status, a, p)
  BY <1>2 DEF Lives
<1>7. fg \in Killable /\ fg \in Pids /\ Lives(r.status, a, fg)
  BY <1>1, <1>6, KernelConstants, ConstantFacts DEF AllLive, Killable
<1>8. AllLive(r, Fore(g, r, fg), a)
  <2>. DEFINE L == {}
  <2>1. SHELL_PID \notin L /\ L \cap Members(g.creation_queue) = {}
    OBVIOUS
  <2>2. \A p \in Pids : p \notin L /\ Lives(g.status, a, p) => Lives(r.status, a, p)
    BY <1>6
  <2>. HIDE DEF L
  <2>. QED  BY <1>5, <1>7, <2>1, <2>2, LiveStep
<1>. QED  BY <1>4, <1>8 DEF Core

\* The current process moves to x, and is the only one whose life may end.
LEMMA MoveCore ==
  ASSUME NEW g, NEW fg, NEW a, Core(g, fg, a), NEW r, Safe(r), NEW x \in Place, NEW f \in Killable,
         g.current_pcb # IDLE_PID, g.current_pcb # SHELL_PID \/ x.op \in {"user", "wait"},
         f # g.current_pcb \/ x.op \in {"user", "wait"}, f = fg \/ f = SHELL_PID,
         x.op = "wait" => x.name \in Clients,
         x.op \in Leaving <=> r.status[g.current_pcb] = DEAD,
         \A p \in Pids : /\ r.status[p] = NONE <=> g.status[p] = NONE
                         /\ p # g.current_pcb => (r.status[p] = DEAD <=> g.status[p] = DEAD),
         g.status[g.current_pcb] = DEAD => r.status[g.current_pcb] = DEAD,
         r.creation_queue = g.creation_queue \/ r.creation_queue = <<>>,
         r.status[r.current_pcb] # BLOCKED,
         r.current_pcb = g.current_pcb \/ r.status[r.current_pcb] # DEAD
  PROVE  Core(r, Fore(g, r, f), [a EXCEPT ![g.current_pcb] = x])
<1>. DEFINE c == g.current_pcb
            b == [a EXCEPT ![c] = x]
<1>1. Placed(g, a) /\ AllLive(g, fg, a)
  BY DEF Core
<1>2. /\ c \in Pids /\ a \in [Pids -> Place] /\ g.status[c] # NONE
      /\ c \notin Members(g.creation_queue)
  BY <1>1, CoreFacts
<1>3. \A p \in Pids : b[p] = IF p = c THEN x ELSE a[p]
  BY <1>2
<1>4. r.status[r.current_pcb] = DEAD => b[r.current_pcb].op \in Leaving
  BY <1>2, <1>3
<1>5. /\ \A p \in Pids : r.status[p] = NONE => g.status[p] = NONE
      /\ \A p \in Pids : g.status[p] = DEAD => r.status[p] = DEAD
      /\ r.status[c] # NONE
  BY <1>2
<1>6. Placed(r, b)
  BY <1>1, <1>4, <1>5, PlacedStep
<1>. HIDE DEF b
<1>7. \A p \in Pids : p # c /\ Lives(g.status, a, p) => Lives(r.status, b, p)
  BY <1>3 DEF Lives
<1>8. x.op \in {"user", "wait"} => Lives(r.status, b, c)
  BY <1>2, <1>3, <1>5 DEF Lives, Leaving
<1>. DEFINE L == IF x.op \in {"user", "wait"} THEN {} ELSE {c}
<1>9. SHELL_PID \notin L /\ L \cap Members(g.creation_queue) = {}
  BY <1>2
<1>10. \A p \in Pids : p \notin L /\ Lives(g.status, a, p) => Lives(r.status, b, p)
  BY <1>7, <1>8
<1>11. f \in Pids /\ f \notin L
  BY KernelConstants, ConstantFacts DEF Killable
<1>12. Lives(g.status, a, f)
  BY <1>1 DEF AllLive
<1>13. Lives(r.status, b, f)
  BY <1>10, <1>11, <1>12
<1>14. \A p \in Members(r.creation_queue) : p \in Members(g.creation_queue) /\ b[p] = a[p]
  <2>1. \A p \in Members(r.creation_queue) : p \in Members(g.creation_queue)
    BY DEF Members
  <2>2. Members(g.creation_queue) \subseteq Pids
    BY <1>1, CoreFacts, KernelConstants
  <2>. QED  BY <1>2, <1>3, <2>1, <2>2
<1>. HIDE DEF L
<1>15. AllLive(r, Fore(g, r, f), b)
  BY <1>9, <1>10, <1>13, <1>14, LiveStep
<1>. QED  BY <1>6, <1>15 DEF Core, b

\* A process is killed by a system call or Ctrl-C.
LEMMA KillCore ==
  ASSUME NEW g, NEW fg, NEW a, Core(g, fg, a), NEW p \in Clients, get_pcb_entry(g, p), NEW W
  PROVE  LET r == kill(g, p, W)
         IN  Core(r, Fore(g, r, IF fg = p THEN SHELL_PID ELSE fg), a)
<1>. DEFINE r == kill(g, p, W)
            f == IF fg = p THEN SHELL_PID ELSE fg
<1>1. Placed(g, a) /\ AllLive(g, fg, a) /\ Safe(g) /\ Sound(g) /\ g.current_pcb \in Pids
  BY CoreFacts DEF Core
<1>2. p \in Pids /\ p # SHELL_PID /\ p # IDLE_PID
  BY KernelConstants
<1>3. /\ Safe(r)
      /\ p = g.current_pcb => r.creation_queue = <<>> /\ r.status[r.current_pcb] = RUNNING
      /\ p # g.current_pcb => r.current_pcb = g.current_pcb /\ r.creation_queue = g.creation_queue
      /\ \A x \in Pids : /\ r.status[x] = DEAD <=> x = p \/ g.status[x] = DEAD
                         /\ r.status[x] = NONE <=> g.status[x] = NONE
                         /\ r.status[x] = BLOCKED => g.status[x] = BLOCKED
  BY <1>1, <1>2, KillCalm
<1>. HIDE DEF r
<1>4. /\ r.status[r.current_pcb] # BLOCKED
      /\ r.status[r.current_pcb] = DEAD => a[r.current_pcb].op \in Leaving
  BY <1>1, <1>3 DEF Placed, RUNNING, BLOCKED, DEAD
<1>5. Placed(r, a)
  BY <1>1, <1>3, <1>4, PlacedStays
<1>. DEFINE L == {p}
<1>6. SHELL_PID \notin L /\ L \cap Members(g.creation_queue) = {}
  BY <1>1, <1>2, EntryFacts
<1>7. \A x \in Pids : x \notin L /\ Lives(g.status, a, x) => Lives(r.status, a, x)
  BY <1>3 DEF Lives
<1>8. f \in Killable /\ f \in Pids /\ f \notin L /\ Lives(g.status, a, f)
  BY <1>1, <1>2, ConstantFacts, KernelConstants DEF AllLive, Killable
<1>9. Lives(r.status, a, f)
  BY <1>7, <1>8
<1>10. \A x \in Members(r.creation_queue) : x \in Members(g.creation_queue)
  BY <1>3 DEF Members
<1>. HIDE DEF L, f
<1>11. AllLive(r, Fore(g, r, f), a)
  BY <1>6, <1>7, <1>8, <1>9, <1>10, LiveStep
<1>. QED  BY <1>5, <1>11 DEF Core, r, f

\* A process is created, to run at once or from the next context switch on.
LEMMA CreateCore ==
  ASSUME NEW g, NEW fg, NEW a, Core(g, fg, a), g.pid =< MaxPid, NEW r, NEW f,
         r = create_and_insert_process(g) \/ r = add_process_to_creation_queue(g),
         f = fg \/ f = g.pid
  PROVE  Core(r, Fore(g, r, f), a)
<1>1. Placed(g, a) /\ AllLive(g, fg, a) /\ Safe(g) /\ Sound(g) /\ g.current_pcb \in Pids
      /\ g.status[g.current_pcb] # NONE /\ g.creation_queue \in Seq(Pids)
  BY CoreFacts DEF Core
<1>2. /\ Safe(r) /\ r.current_pcb = g.current_pcb /\ g.pid \in Clients /\ g.status[g.pid] = NONE
      /\ \A x \in Pids : r.status[x] = IF x = g.pid THEN READY ELSE g.status[x]
      /\ \/ r.creation_queue = g.creation_queue
         \/ r.creation_queue = Append(g.creation_queue, g.pid)
  BY <1>1, CreateCalm, CreateLaterCalm DEF SameLists
<1>3. /\ \A p \in Pids : r.status[p] = NONE => g.status[p] = NONE
      /\ \A p \in Pids : g.status[p] = DEAD => r.status[p] = DEAD
      /\ r.status[r.current_pcb] = g.status[g.current_pcb]
  BY <1>1, <1>2 DEF READY, NONE, DEAD
<1>4. /\ r.status[r.current_pcb] # BLOCKED
      /\ r.status[r.current_pcb] = DEAD => a[r.current_pcb].op \in Leaving
  BY <1>1, <1>2, <1>3 DEF Placed
<1>5. Placed(r, a)
  BY <1>1, <1>2, <1>3, <1>4, PlacedStays
<1>6. g.pid \in Pids
  BY <1>2, KernelConstants
<1>7. Fresh(r.status, a, g.pid)
  BY <1>1, <1>2, <1>6 DEF Fresh, Lives, Placed, READY, DEAD, NONE
<1>. DEFINE L == {}
<1>8. SHELL_PID \notin L /\ L \cap Members(g.creation_queue) = {}
  OBVIOUS
<1>9. \A x \in Pids : x \notin L /\ Lives(g.status, a, x) => Lives(r.status, a, x)
  BY <1>2 DEF Lives, NONE
<1>10. fg \in Pids
  BY <1>1, KernelConstants, ConstantFacts DEF AllLive, Killable
<1>11. f \in Killable /\ Lives(r.status, a, f)
  BY <1>1, <1>2, <1>7, <1>9, <1>10 DEF AllLive, Killable, Fresh
<1>12. \A x \in Members(r.creation_queue) : x \in Members(g.creation_queue) \/ Fresh(r.status, a, x)
  <2>1. CASE r.creation_queue = g.creation_queue
    BY <2>1
  <2>2. CASE r.creation_queue = Append(g.creation_queue, g.pid)
    <3>1. Members(r.creation_queue) = Members(g.creation_queue) \cup {g.pid}
      BY <1>1, <1>6, <2>2, MembersAppend
    <3>. QED  BY <1>7, <3>1
  <2>. QED  BY <1>2, <2>1, <2>2
<1>. HIDE DEF L
<1>13. AllLive(r, Fore(g, r, f), a)
  BY <1>8, <1>9, <1>11, <1>12, LiveStep
<1>. QED  BY <1>5, <1>13 DEF Core

-----------------------------------------------------------------------------
(* The semaphores of processes. *)

\* p has posted its semaphore; p will still post it.
Done(st, a, p) == st[p] = DEAD \/ a[p].op \in {"wake", "die", "remove", "finish"}
Comes(st, a, p) == st[p] # DEAD /\ a[p].op \in {"user", "wait", "unlock", "wake"}

\* Slots belong to processes that were created, one each, and list one process.
Wiring(sp, h, n) ==
  /\ sp \in Table /\ h \in [Pids -> SUBSET Pids] /\ OneSlot(sp)
  /\ \A i \in Slots : Busy(sp, i) => /\ sp[i].identifier \in Pids /\ sp[i].identifier < n
                                     /\ Len(sp[i].allowed_processes) = 1

\* Whoever waits is the one process listed, and nobody else got what it waits for.
Waits(sp, a, h) ==
  \A p \in Pids : a[p].op = "wait" =>
     LET i == a[p].slot
     IN  /\ i \in Slots /\ Busy(sp, i) /\ sp[i].identifier = a[p].name
         /\ sp[i].allowed_processes[1] = p /\ \A q \in Pids : a[p].name \notin h[q]

\* A lock is open only when the process is done, and closed again only by its reaper.
Locks(st, sp, a, h) ==
  \A i \in Slots : Busy(sp, i) =>
     LET p == sp[i].identifier
     IN  /\ ~sp[i].is_locked => Done(st, a, p)
         /\ sp[i].is_locked /\ Done(st, a, p) => \E q \in Pids : p \in h[q]

\* A queue holds at most the one process listed, asleep or killed in its sleep.
Queues(st, sp, a) ==
  \A i \in Slots : /\ Len(sp[i].queue) =< 1
                   /\ \A p \in Members(sp[i].queue) : /\ a[p].op = "wait" /\ a[p].slot = i
                                                      /\ st[p] \in {BLOCKED, DEAD}

\* Whoever sleeps is in a queue, and the process it waits for will still come.
Sleepers(st, sp, a) ==
  \A p \in Pids : st[p] = BLOCKED => /\ a[p].op = "wait" /\ p \in Members(sp[a[p].slot].queue)
                                     /\ Comes(st, a, a[p].name)

\* A process about to wake others has its own slot in hand.
Wakers(st, sp, a) ==
  \A p \in Pids : a[p].op = "wake" /\ st[p] # DEAD =>
     a[p].slot \in Slots /\ Busy(sp, a[p].slot) /\ sp[a[p].slot].identifier = p

Wired(st, sp, a, h, n) ==
  /\ Wiring(sp, h, n) /\ Waits(sp, a, h) /\ Locks(st, sp, a, h) /\ Queues(st, sp, a)
  /\ Sleepers(st, sp, a) /\ Wakers(st, sp, a)

\* What the proofs use of Wired.
LEMMA WiredFacts ==
  ASSUME NEW st, NEW sp, NEW a, NEW h, NEW n, Wired(st, sp, a, h, n)
  PROVE  /\ sp \in Table /\ h \in [Pids -> SUBSET Pids] /\ OneSlot(sp)
         /\ \A i \in Slots : /\ sp[i].queue \in Seq(Pids) /\ Members(sp[i].queue) \subseteq Pids
                             /\ Busy(sp, i) => sp[i].identifier \in Pids
         /\ \A p \in Pids : a[p].op = "wait" => /\ a[p].slot \in Slots /\ Busy(sp, a[p].slot)
                                                /\ sp[a[p].slot].identifier = a[p].name
                                                /\ a[p].name \in Pids
<1>1. sp \in Table /\ h \in [Pids -> SUBSET Pids] /\ OneSlot(sp)
  BY DEF Wired, Wiring
<1>2. \A i \in Slots : sp[i].queue \in Seq(Pids)
  BY <1>1, SlotTypes
<1>3. \A i \in Slots : Members(sp[i].queue) \subseteq Pids
  BY <1>2 DEF Members
<1>. QED  BY <1>1, <1>2, <1>3 DEF Wired, Wiring, Waits

\* Of a queue of one, wake_up_processes wakes all.
LEMMA ShortQueue ==
  ASSUME NEW q \in Seq(Pids), Len(q) =< 1
  PROVE  /\ Members(First(q)) = Members(q) /\ Members(Rest(q)) = {} /\ Len(Rest(q)) =< 1
<1>1. Len(q) \in Nat /\ Woken(q) = Len(q)
  BY DEF Woken
<1>2. Len(Rest(q)) = 0
  BY <1>1 DEF Rest
<1>3. Members(Rest(q)) = {}
  BY <1>2 DEF Members
<1>4. /\ Members(First(q)) \subseteq Members(q)
      /\ Members(q) \subseteq Members(First(q)) \cup Members(Rest(q))
  BY SplitQueue
<1>5. Members(First(q)) = Members(q)
  BY <1>3, <1>4, Zenon
<1>. QED  BY <1>2, <1>3, <1>5

\* Nobody falls asleep, wakes up or dies.
LEMMA TurnWired ==
  ASSUME NEW st, NEW sp, NEW a, NEW h, NEW n, Wired(st, sp, a, h, n), NEW s,
         \A x \in Pids : (s[x] = BLOCKED <=> st[x] = BLOCKED) /\ (s[x] = DEAD <=> st[x] = DEAD)
  PROVE  Wired(s, sp, a, h, n)
<1>0. /\ \A i \in Slots : /\ Members(sp[i].queue) \subseteq Pids
                          /\ Busy(sp, i) => sp[i].identifier \in Pids
      /\ \A p \in Pids : a[p].op = "wait" => a[p].name \in Pids
  BY WiredFacts
<1>1. \A x \in Pids : (Done(s, a, x) <=> Done(st, a, x)) /\ (Comes(s, a, x) <=> Comes(st, a, x))
  BY DEF Done, Comes
<1>2. Locks(s, sp, a, h)
  BY <1>0, <1>1 DEF Wired, Locks
<1>3. Queues(s, sp, a)
  BY <1>0 DEF Wired, Queues
<1>4. Sleepers(s, sp, a)
  BY <1>0, <1>1 DEF Wired, Sleepers
<1>5. Wakers(s, sp, a)
  BY DEF Wired, Wakers
<1>. QED  BY <1>2, <1>3, <1>4, <1>5 DEF Wired

\* c is as done as before, or has no semaphore.
StillOwes(st, a, s, b, sp, c) ==
  \/ (Done(st, a, c) <=> Done(s, b, c)) /\ (Comes(st, a, c) => Comes(s, b, c))
  \/ \A i \in Slots : Busy(sp, i) => sp[i].identifier # c

\* The current process goes from one of its own steps to another; when that ends
\* what others may expect of it, it has no semaphore.
LEMMA MoveWired ==
  ASSUME NEW st, NEW sp, NEW a, NEW h, NEW n, Wired(st, sp, a, h, n), NEW s, NEW c \in Pids, NEW b,
         \A p \in Pids : p # c => b[p] = a[p] /\ (s[p] = DEAD <=> st[p] = DEAD),
         a[c].op # "wait", b[c].op \notin {"wait", "wake"},
         \A x \in Pids : s[x] = BLOCKED <=> st[x] = BLOCKED, StillOwes(st, a, s, b, sp, c)
  PROVE  Wired(s, sp, b, h, n)
<1>0. /\ \A i \in Slots : /\ Members(sp[i].queue) \subseteq Pids
                          /\ Busy(sp, i) => sp[i].identifier \in Pids
      /\ \A p \in Pids : a[p].op = "wait" => /\ a[p].name \in Pids /\ a[p].slot \in Slots
                                             /\ Busy(sp, a[p].slot)
                                             /\ sp[a[p].slot].identifier = a[p].name
  BY WiredFacts
<1>1. \A x \in Pids : x # c => (Done(s, b, x) <=> Done(st, a, x)) /\ (Comes(s, b, x) <=> Comes(st, a, x))
  BY DEF Done, Comes
<1>2. Waits(sp, b, h)
  BY DEF Wired, Waits
<1>3. Locks(st, sp, a, h)
  BY DEF Wired
<1>4. Locks(s, sp, b, h)
  <2>. SUFFICES ASSUME NEW i \in Slots, Busy(sp, i)
                PROVE  /\ ~sp[i].is_locked => Done(s, b, sp[i].identifier)
                       /\ sp[i].is_locked /\ Done(s, b, sp[i].identifier)
                            => \E q \in Pids : sp[i].identifier \in h[q]
    BY DEF Locks
  <2>1. /\ ~sp[i].is_locked => Done(st, a, sp[i].identifier)
        /\ sp[i].is_locked /\ Done(st, a, sp[i].identifier)
             => \E q \in Pids : sp[i].identifier \in h[q]
    BY <1>3 DEF Locks
  <2>2. Done(s, b, sp[i].identifier) <=> Done(st, a, sp[i].identifier)
    BY <1>0, <1>1 DEF StillOwes
  <2>. QED  BY <2>1, <2>2
<1>5. Queues(s, sp, b)
  <2>. SUFFICES ASSUME NEW i \in Slots
                PROVE  /\ Len(sp[i].queue) =< 1
                       /\ \A p \in Members(sp[i].queue) : /\ b[p].op = "wait" /\ b[p].slot = i
                                                          /\ s[p] \in {BLOCKED, DEAD}
    BY DEF Queues
  <2>1. /\ Len(sp[i].queue) =< 1
        /\ \A p \in Members(sp[i].queue) : /\ a[p].op = "wait" /\ a[p].slot = i
                                           /\ st[p] \in {BLOCKED, DEAD}
    BY DEF Wired, Queues
  <2>. QED  BY <1>0, <2>1
<1>6. Sleepers(s, sp, b)
  <2>. SUFFICES ASSUME NEW p \in Pids, s[p] = BLOCKED
                PROVE  /\ b[p].op = "wait" /\ p \in Members(sp[b[p].slot].queue)
                       /\ Comes(s, b, b[p].name)
    BY DEF Sleepers
  <2>1. a[p].op = "wait" /\ p \in Members(sp[a[p].slot].queue) /\ Comes(st, a, a[p].name)
    BY DEF Wired, Sleepers
  <2>2. p # c /\ b[p] = a[p]
    BY <2>1
  <2>3. Comes(s, b, a[p].name)
    BY <1>0, <1>1, <2>1 DEF StillOwes
  <2>. QED  BY <2>1, <2>2, <2>3
<1>7. Wakers(s, sp, b)
  BY DEF Wired, Wakers
<1>. QED  BY <1>2, <1>4, <1>5, <1>6, <1>7 DEF Wired

\* p posts its semaphore and is done: it was killed, or wakes others on its way out.
Posts(st, sp, a, p, i, s, t, b) ==
  /\ i \in Slots /\ Busy(sp, i) /\ sp[i].identifier = p /\ t \in Table
  /\ \A j \in Slots : /\ t[j].status = sp[j].status /\ t[j].identifier = sp[j].identifier
                      /\ t[j].allowed_processes = sp[j].allowed_processes
                      /\ j # i => t[j].queue = sp[j].queue /\ t[j].is_locked = sp[j].is_locked
  /\ t[i].queue = Rest(sp[i].queue)
  /\ ~t[i].is_locked \/ (t[i].is_locked = sp[i].is_locked /\ Done(st, a, p))
  /\ \A x \in Pids : s[x] = BLOCKED <=> /\ st[x] = BLOCKED /\ x # p
                                        /\ x \notin Members(First(sp[i].queue))

\* The same for a process whose creation found no free slot.
PostsNothing(st, sp, p, s, t) ==
  /\ \A j \in Slots : Busy(sp, j) => sp[j].identifier # p
  /\ t = sp
  /\ \A x \in Pids : s[x] = BLOCKED <=> st[x] = BLOCKED /\ x # p

\* The post of an ending process p keeps the table wired.
LEMMA PostWired ==
  ASSUME NEW st, NEW sp, NEW a, NEW h, NEW n, Wired(st, sp, a, h, n), NEW p \in Pids, NEW i,
         NEW s, NEW t, NEW b,
         \A x \in Pids : x # p => b[x] = a[x] /\ (s[x] = DEAD <=> st[x] = DEAD),
         (b[p] = a[p] /\ s[p] = DEAD) \/ (a[p].op # "wait" /\ b[p].op = "die"),
         Posts(st, sp, a, p, i, s, t, b) \/ PostsNothing(st, sp, p, s, t)
  PROVE  Wired(s, t, b, h, n)
<1>0. /\ sp \in Table /\ h \in [Pids -> SUBSET Pids] /\ OneSlot(sp)
      /\ \A j \in Slots : /\ sp[j].queue \in Seq(Pids) /\ Members(sp[j].queue) \subseteq Pids
                          /\ Busy(sp, j) => sp[j].identifier \in Pids
      /\ \A x \in Pids : a[x].op = "wait" => /\ a[x].slot \in Slots /\ Busy(sp, a[x].slot)
                                             /\ sp[a[x].slot].identifier = a[x].name
                                             /\ a[x].name \in Pids
  BY WiredFacts
<1>1. /\ \A x \in Pids : x # p => /\ Done(s, b, x) <=> Done(st, a, x)
                                  /\ Comes(s, b, x) <=> Comes(st, a, x)
      /\ Done(s, b, p)
  BY DEF Done, Comes
<1>2. /\ t \in Table
      /\ \A j \in Slots : /\ t[j].status = sp[j].status /\ t[j].identifier = sp[j].identifier
                          /\ t[j].allowed_processes = sp[j].allowed_processes
                          /\ Busy(t, j) <=> Busy(sp, j)
  BY <1>0 DEF Posts, PostsNothing, Busy
<1>3. Wiring(t, h, n)
  BY <1>0, <1>2 DEF Wired, Wiring, OneSlot
<1>4. \A x \in Pids : b[x].op = "wait" => b[x] = a[x]
  OBVIOUS
<1>5. Waits(t, b, h)
  <2>. SUFFICES ASSUME NEW x \in Pids, b[x].op = "wait"
                PROVE  /\ b[x].slot \in Slots /\ Busy(t, b[x].slot)
                       /\ t[b[x].slot].identifier = b[x].name
                       /\ t[b[x].slot].allowed_processes[1] = x
                       /\ \A q \in Pids : b[x].name \notin h[q]
    BY DEF Waits
  <2>1. /\ b[x] = a[x] /\ a[x].slot \in Slots /\ Busy(sp, a[x].slot)
        /\ sp[a[x].slot].identifier = a[x].name
        /\ sp[a[x].slot].allowed_processes[1] = x
        /\ \A q \in Pids : a[x].name \notin h[q]
    BY <1>4 DEF Wired, Waits
  <2>. QED  BY <1>2, <2>1
<1>6. Locks(s, t, b, h)
  <2>. SUFFICES ASSUME NEW j \in Slots, Busy(t, j)
                PROVE  /\ ~t[j].is_locked => Done(s, b, t[j].identifier)
                       /\ t[j].is_locked /\ Done(s, b, t[j].identifier)
                            => \E q \in Pids : t[j].identifier \in h[q]
    BY DEF Locks
  <2>1. /\ Busy(sp, j) /\ t[j].identifier = sp[j].identifier /\ sp[j].identifier \in Pids
        /\ ~sp[j].is_locked => Done(st, a, sp[j].identifier)
        /\ sp[j].is_locked /\ Done(st, a, sp[j].identifier)
             => \E q \in Pids : sp[j].identifier \in h[q]
    BY <1>0, <1>2 DEF Wired, Locks
  <2>2. CASE sp[j].identifier = p
    <3>1. Posts(st, sp, a, p, i, s, t, b)
      BY <2>1, <2>2 DEF PostsNothing
    <3>2. j = i
      BY <1>0, <2>1, <2>2, <3>1 DEF Posts, OneSlot
    <3>. QED  BY <1>1, <2>1, <2>2, <3>1, <3>2 DEF Posts
  <2>3. CASE sp[j].identifier # p
    <3>1. t[j].is_locked = sp[j].is_locked
      BY <2>3 DEF Posts, PostsNothing
    <3>. QED  BY <1>1, <2>1, <2>3, <3>1
  <2>. QED  BY <2>2, <2>3
<1>7. \A j \in Slots : t[j].queue = sp[j].queue \/ (Len(t[j].queue) =< 1 /\ Members(t[j].queue) = {})
  <2>. SUFFICES ASSUME NEW j \in Slots
                PROVE  t[j].queue = sp[j].queue \/ (Len(t[j].queue) =< 1 /\ Members(t[j].queue) = {})
    OBVIOUS
  <2>1. CASE Posts(st, sp, a, p, i, s, t, b) /\ j = i
    <3>1. sp[i].queue \in Seq(Pids) /\ Len(sp[i].queue) =< 1 /\ t[j].queue = Rest(sp[i].queue)
      BY <1>0, <2>1 DEF Wired, Queues, Posts
    <3>. QED  BY <3>1, ShortQueue
  <2>2. CASE Posts(st, sp, a, p, i, s, t, b) /\ j # i
    BY <2>2 DEF Posts
  <2>3. CASE PostsNothing(st, sp, p, s, t)
    BY <2>3 DEF PostsNothing
  <2>. QED  BY <2>1, <2>2, <2>3
<1>8. \A x \in Pids : s[x] = BLOCKED =>
        /\ st[x] = BLOCKED /\ x # p
        /\ Posts(st, sp, a, p, i, s, t, b) => x \notin Members(sp[i].queue)
  <2>. SUFFICES ASSUME NEW x \in Pids, s[x] = BLOCKED
                PROVE  /\ st[x] = BLOCKED /\ x # p
                       /\ Posts(st, sp, a, p, i, s, t, b) => x \notin Members(sp[i].queue)
    OBVIOUS
  <2>1. CASE Posts(st, sp, a, p, i, s, t, b)
    <3>1. sp[i].queue \in Seq(Pids) /\ Len(sp[i].queue) =< 1
      BY <1>0, <2>1 DEF Wired, Queues, Posts
    <3>2. Members(First(sp[i].queue)) = Members(sp[i].queue)
      BY <3>1, ShortQueue
    <3>. QED  BY <2>1, <3>2 DEF Posts
  <2>2. CASE ~Posts(st, sp, a, p, i, s, t, b)
    BY <2>2 DEF PostsNothing
  <2>. QED  BY <2>1, <2>2
<1>9. Queues(s, t, b)
  <2>. SUFFICES ASSUME NEW j \in Slots
                PROVE  /\ Len(t[j].queue) =< 1
                       /\ \A x \in Members(t[j].queue) : /\ b[x].op = "wait" /\ b[x].slot = j
                                                         /\ s[x] \in {BLOCKED, DEAD}
    BY DEF Queues
  <2>1. /\ Len(sp[j].queue) =< 1
        /\ \A x \in Members(sp[j].queue) : /\ x \in Pids /\ a[x].op = "wait" /\ a[x].slot = j
                                           /\ st[x] \in {BLOCKED, DEAD}
    BY <1>0 DEF Wired, Queues
  <2>2. CASE Len(t[j].queue) =< 1 /\ Members(t[j].queue) = {}
    BY <2>2
  <2>3. CASE t[j].queue = sp[j].queue /\ Members(t[j].queue) # {}
    <3>. SUFFICES ASSUME NEW x \in Members(sp[j].queue)
                  PROVE  b[x].op = "wait" /\ b[x].slot = j /\ s[x] \in {BLOCKED, DEAD}
      BY <2>1, <2>3
    <3>1. x \in Pids /\ a[x].op = "wait" /\ a[x].slot = j /\ st[x] \in {BLOCKED, DEAD}
      BY <2>1
    <3>2. b[x] = a[x]
      BY <3>1
    <3>3. CASE st[x] = DEAD
      BY <3>1, <3>2, <3>3
    <3>4. CASE x = p
      BY <3>1, <3>2, <3>4
    <3>5. CASE st[x] = BLOCKED /\ x # p
      <4>1. CASE Posts(st, sp, a, p, i, s, t, b)
        <5>1. i # j
          <6>1. i = j => Members(t[j].queue) = {}
            BY <1>0, <2>1, <4>1, ShortQueue DEF Posts
          <6>. QED  BY <2>3, <6>1
        <5>2. x \notin Members(First(sp[i].queue))
          <6>1. Members(First(sp[i].queue)) \subseteq Members(sp[i].queue)
            BY <1>0, <4>1, SplitQueue DEF Posts
          <6>2. \A y \in Members(sp[i].queue) : a[y].slot = i
            BY <4>1 DEF Wired, Queues, Posts
          <6>. QED  BY <3>1, <5>1, <6>1, <6>2
        <5>. QED  BY <3>1, <3>2, <3>5, <4>1, <5>2 DEF Posts
      <4>2. CASE ~Posts(st, sp, a, p, i, s, t, b)
        BY <3>1, <3>2, <3>5, <4>2 DEF PostsNothing
      <4>. QED  BY <4>1, <4>2
    <3>. QED  BY <3>1, <3>3, <3>4, <3>5
  <2>. QED  BY <1>7, <2>1, <2>2, <2>3
<1>10. Sleepers(s, t, b)
  <2>. SUFFICES ASSUME NEW x \in Pids, s[x] = BLOCKED
                PROVE  /\ b[x].op = "wait" /\ x \in Members(t[b[x].slot].queue)
                       /\ Comes(s, b, b[x].name)
    BY DEF Sleepers
  <2>1. st[x] = BLOCKED /\ x # p /\ b[x] = a[x]
    BY <1>8
  <2>2. /\ a[x].op = "wait" /\ x \in Members(sp[a[x].slot].queue) /\ Comes(st, a, a[x].name)
        /\ a[x].slot \in Slots /\ Busy(sp, a[x].slot) /\ sp[a[x].slot].identifier = a[x].name
        /\ a[x].name \in Pids
    BY <1>0, <2>1 DEF Wired, Sleepers
  <2>3. Posts(st, sp, a, p, i, s, t, b) => a[x].slot # i
    BY <1>8, <2>2
  <2>4. a[x].name # p
    BY <1>0, <2>2, <2>3 DEF Posts, PostsNothing, OneSlot
  <2>5. t[a[x].slot].queue = sp[a[x].slot].queue
    BY <2>2, <2>3 DEF Posts, PostsNothing
  <2>. QED  BY <1>1, <2>1, <2>2, <2>4, <2>5
<1>11. Wakers(s, t, b)
  <2>. SUFFICES ASSUME NEW x \in Pids, b[x].op = "wake", s[x] # DEAD
                PROVE  b[x].slot \in Slots /\ Busy(t, b[x].slot) /\ t[b[x].slot].identifier = x
    BY DEF Wakers
  <2>1. x # p
    OBVIOUS
  <2>2. a[x].slot \in Slots /\ Busy(sp, a[x].slot) /\ sp[a[x].slot].identifier = x /\ b[x] = a[x]
    BY <2>1 DEF Wired, Wakers
  <2>. QED  BY <1>2, <2>2
<1>. QED  BY <1>3, <1>5, <1>6, <1>9, <1>10, <1>11 DEF Wired

\* A process on its way out unlocks its semaphore.
LEMMA UnlockWired ==
  ASSUME NEW st, NEW sp, NEW a, NEW h, NEW n, Wired(st, sp, a, h, n), NEW c \in Pids, NEW i \in Slots,
         Busy(sp, i), sp[i].identifier = c, a[c].op = "unlock", NEW t, NEW b, Relocked(sp, t, i),
         \A p \in Pids : b[p] = IF p = c THEN Goes("wake", i) ELSE a[p],
         ~t[i].is_locked
  PROVE  Wired(st, t, b, h, n)
<1>. t \in Table
  BY DEF Relocked
<1>. \A j \in Slots : /\ t[j].status = sp[j].status /\ t[j].identifier = sp[j].identifier
                      /\ t[j].allowed_processes = sp[j].allowed_processes
                      /\ t[j].queue = sp[j].queue
                      /\ j # i => t[j].is_locked = sp[j].is_locked
  BY DEF Relocked
<1>0. /\ OneSlot(sp) /\ h \in [Pids -> SUBSET Pids]
      /\ \A j \in Slots : /\ Members(sp[j].queue) \subseteq Pids
                          /\ Busy(sp, j) => sp[j].identifier \in Pids
      /\ \A x \in Pids : a[x].op = "wait" => a[x].slot \in Slots /\ a[x].name \in Pids
  BY WiredFacts
<1>1. Goes("wake", i).op = "wake" /\ Goes("wake", i).slot = i
  BY DEF Goes
<1>2. /\ \A x \in Pids : Done(st, a, x) => Done(st, b, x)
      /\ \A x \in Pids : x # c /\ Done(st, b, x) => Done(st, a, x)
      /\ \A x \in Pids : Comes(st, a, x) => Comes(st, b, x)
      /\ Done(st, b, c)
  BY <1>1 DEF Done, Comes
<1>3. \A j \in Slots : Busy(t, j) <=> Busy(sp, j)
  BY DEF Busy
<1>4. Wiring(t, h, n)
  BY <1>0, <1>3 DEF Wired, Wiring, OneSlot
<1>5. \A x \in Pids : /\ b[x].op = "wait" <=> a[x].op = "wait"
                      /\ b[x].op = "wait" => b[x] = a[x]
  BY <1>1
<1>6. Waits(t, b, h)
  BY <1>0, <1>3, <1>5 DEF Wired, Waits
<1>7. Locks(st, t, b, h)
  <2>. SUFFICES ASSUME NEW j \in Slots, Busy(t, j)
                PROVE  /\ ~t[j].is_locked => Done(st, b, t[j].identifier)
                       /\ t[j].is_locked /\ Done(st, b, t[j].identifier)
                            => \E q \in Pids : t[j].identifier \in h[q]
    BY DEF Locks
  <2>1. /\ Busy(sp, j) /\ t[j].identifier = sp[j].identifier /\ sp[j].identifier \in Pids
        /\ ~sp[j].is_locked => Done(st, a, sp[j].identifier)
        /\ sp[j].is_locked /\ Done(st, a, sp[j].identifier)
             => \E q \in Pids : sp[j].identifier \in h[q]
    BY <1>0, <1>3 DEF Wired, Locks
  <2>2. CASE j = i
    BY <1>2, <2>1, <2>2
  <2>3. CASE j # i
    <3>1. sp[j].identifier # c /\ t[j].is_locked = sp[j].is_locked
      BY <1>0, <2>1, <2>3 DEF OneSlot
    <3>. QED  BY <1>2, <2>1, <3>1
  <2>. QED  BY <2>2, <2>3
<1>8. Queues(st, t, b)
  BY <1>0, <1>5 DEF Wired, Queues
<1>9. Sleepers(st, t, b)
  BY <1>0, <1>2, <1>5 DEF Wired, Sleepers
<1>10. Wakers(st, t, b)
  BY <1>1, <1>3 DEF Wired, Wakers
<1>. QED  BY <1>4, <1>6, <1>7, <1>8, <1>9, <1>10 DEF Wired

\* Process c takes the lock of slot i, of a process that is done; t, b and u are what it leaves.
Seized(st, c, sp, a, h, i, t, b, u) ==
  /\ c \in Pids /\ i \in Slots /\ Busy(sp, i) /\ sp[i].allowed_processes[1] = c
  /\ ~Done(st, a, c) /\ st[c] # BLOCKED /\ a[c].op \in {"user", "wait"}
  /\ Relocked(sp, t, i) /\ t[i].is_locked
  /\ \A p \in Pids : b[p] = IF p = c THEN User ELSE a[p]
  /\ \A p \in Pids : u[p] = IF p = c THEN h[c] \cup {sp[i].identifier} ELSE h[p]
  /\ u \in [Pids -> SUBSET Pids]

\* A process takes the semaphore of one that is done.
LEMMA TakeWired ==
  ASSUME NEW st, NEW sp, NEW a, NEW h, NEW n, Wired(st, sp, a, h, n), NEW c, NEW i, NEW t, NEW b, NEW u,
         Seized(st, c, sp, a, h, i, t, b, u)
  PROVE  Wired(st, t, b, u, n)
<1>. c \in Pids /\ i \in Slots /\ Busy(sp, i) /\ sp[i].allowed_processes[1] = c
  BY DEF Seized
<1>. ~Done(st, a, c) /\ st[c] # BLOCKED /\ a[c].op \in {"user", "wait"} /\ t[i].is_locked
  BY DEF Seized
<1>. /\ \A p \in Pids : b[p] = IF p = c THEN User ELSE a[p]
     /\ \A p \in Pids : u[p] = IF p = c THEN h[c] \cup {sp[i].identifier} ELSE h[p]
     /\ u \in [Pids -> SUBSET Pids]
  BY DEF Seized
<1>. t \in Table
  BY DEF Seized, Relocked
<1>. \A j \in Slots : /\ t[j].status = sp[j].status /\ t[j].identifier = sp[j].identifier
                      /\ t[j].allowed_processes = sp[j].allowed_processes
                      /\ t[j].queue = sp[j].queue
                      /\ j # i => t[j].is_locked = sp[j].is_locked
  BY DEF Seized, Relocked
<1>0. /\ OneSlot(sp) /\ h \in [Pids -> SUBSET Pids]
      /\ \A j \in Slots : /\ Members(sp[j].queue) \subseteq Pids
                          /\ Busy(sp, j) => sp[j].identifier \in Pids
      /\ \A x \in Pids : a[x].op = "wait" => /\ a[x].slot \in Slots /\ Busy(sp, a[x].slot)
                                             /\ sp[a[x].slot].identifier = a[x].name
                                             /\ a[x].name \in Pids
  BY WiredFacts
<1>1. User.op = "user"
  BY DEF User
<1>2. /\ \A x \in Pids : Done(st, b, x) <=> Done(st, a, x)
      /\ \A x \in Pids : Comes(st, a, x) => Comes(st, b, x)
  BY <1>1 DEF Done, Comes
<1>3. \A j \in Slots : Busy(t, j) <=> Busy(sp, j)
  BY DEF Busy
<1>4. Wiring(t, u, n)
  BY <1>0, <1>3 DEF Wired, Wiring, OneSlot
<1>5. \A x \in Pids : /\ b[x].op = "wait" => x # c /\ a[x].op = "wait" /\ b[x] = a[x]
                      /\ x # c => b[x] = a[x]
  BY <1>1
<1>6. Waits(t, b, u)
  <2>. SUFFICES ASSUME NEW x \in Pids, b[x].op = "wait"
                PROVE  /\ b[x].slot \in Slots /\ Busy(t, b[x].slot)
                       /\ t[b[x].slot].identifier = b[x].name
                       /\ t[b[x].slot].allowed_processes[1] = x
                       /\ \A q \in Pids : b[x].name \notin u[q]
    BY DEF Waits
  <2>1. /\ x # c /\ b[x] = a[x] /\ a[x].slot \in Slots /\ Busy(sp, a[x].slot)
        /\ sp[a[x].slot].identifier = a[x].name
        /\ sp[a[x].slot].allowed_processes[1] = x
        /\ \A q \in Pids : a[x].name \notin h[q]
    BY <1>5 DEF Wired, Waits
  <2>2. a[x].name # sp[i].identifier
    BY <1>0, <2>1 DEF OneSlot
  <2>3. \A q \in Pids : a[x].name \notin u[q]
    BY <2>1, <2>2
  <2>. QED  BY <1>3, <2>1, <2>3
<1>7. Locks(st, t, b, u)
  <2>. SUFFICES ASSUME NEW j \in Slots, Busy(t, j)
                PROVE  /\ ~t[j].is_locked => Done(st, b, t[j].identifier)
                       /\ t[j].is_locked /\ Done(st, b, t[j].identifier)
                            => \E q \in Pids : t[j].identifier \in u[q]
    BY DEF Locks
  <2>1. /\ Busy(sp, j) /\ t[j].identifier = sp[j].identifier /\ sp[j].identifier \in Pids
        /\ ~sp[j].is_locked => Done(st, a, sp[j].identifier)
        /\ sp[j].is_locked /\ Done(st, a, sp[j].identifier)
             => \E q \in Pids : sp[j].identifier \in h[q]
    BY <1>0, <1>3 DEF Wired, Locks
  <2>2. CASE j = i
    <3>1. sp[i].identifier \in u[c]
      OBVIOUS
    <3>. QED  BY <2>1, <2>2, <3>1
  <2>3. CASE j # i
    <3>1. t[j].is_locked = sp[j].is_locked
      BY <2>3
    <3>2. \A q \in Pids : h[q] \subseteq u[q]
      OBVIOUS
    <3>3. sp[j].is_locked /\ Done(st, a, sp[j].identifier)
             => \E q \in Pids : sp[j].identifier \in u[q]
      BY <2>1, <3>2
    <3>. QED  BY <1>2, <2>1, <3>1, <3>3
  <2>. QED  BY <2>2, <2>3
<1>8. \A j \in Slots : c \notin Members(sp[j].queue)
  BY DEF Wired, Queues, Done
<1>9. Queues(st, t, b)
  BY <1>0, <1>5, <1>8 DEF Wired, Queues
<1>10. Sleepers(st, t, b)
  <2>. SUFFICES ASSUME NEW x \in Pids, st[x] = BLOCKED
                PROVE  /\ b[x].op = "wait" /\ x \in Members(t[b[x].slot].queue)
                       /\ Comes(st, b, b[x].name)
    BY DEF Sleepers
  <2>1. /\ x # c /\ b[x] = a[x] /\ a[x].op = "wait" /\ x \in Members(sp[a[x].slot].queue)
        /\ Comes(st, a, a[x].name)
    BY <1>5 DEF Wired, Sleepers
  <2>. QED  BY <1>0, <1>2, <2>1
<1>11. Wakers(st, t, b)
  BY <1>1, <1>3 DEF Wired, Wakers
<1>. QED  BY <1>4, <1>6, <1>7, <1>9, <1>10, <1>11 DEF Wired

\* A process goes to sleep until another is done.
LEMMA SleepWired ==
  ASSUME NEW st, NEW sp, NEW a, NEW h, NEW n, Wired(st, sp, a, h, n), NEW c \in Pids, NEW i \in Slots,
         Busy(sp, i), sp[i].allowed_processes[1] = c, ~Done(st, a, c), st[c] # BLOCKED,
         a \in [Pids -> Place], a[c].op \in {"user", "wait"}, sp[i].is_locked,
         \A q \in Pids : sp[i].identifier \notin h[q], NEW s, NEW t, NEW b, t \in Table,
         \A p \in Pids : b[p] = IF p = c THEN Waiting(sp[i].identifier, i) ELSE a[p],
         \A x \in Pids : /\ s[x] = BLOCKED <=> x = c \/ st[x] = BLOCKED
                         /\ s[x] = DEAD <=> st[x] = DEAD,
         \A j \in Slots : /\ t[j].status = sp[j].status /\ t[j].identifier = sp[j].identifier
                          /\ t[j].allowed_processes = sp[j].allowed_processes
                          /\ t[j].is_locked = sp[j].is_locked
                          /\ t[j].queue = IF j = i THEN Append(sp[i].queue, c) ELSE sp[j].queue
  PROVE  Wired(s, t, b, h, n)
<1>0. /\ OneSlot(sp) /\ h \in [Pids -> SUBSET Pids]
      /\ \A j \in Slots : /\ sp[j].queue \in Seq(Pids) /\ Members(sp[j].queue) \subseteq Pids
                          /\ Busy(sp, j) => sp[j].identifier \in Pids
      /\ \A x \in Pids : a[x].op = "wait" => /\ a[x].slot \in Slots /\ Busy(sp, a[x].slot)
                                             /\ sp[a[x].slot].identifier = a[x].name
                                             /\ a[x].name \in Pids
  BY WiredFacts
<1>. DEFINE w == Waiting(sp[i].identifier, i)
<1>1. w.op = "wait" /\ w.name = sp[i].identifier /\ w.slot = i
  BY DEF Waiting
<1>2. \A p \in Pids : b[p] = IF p = c THEN w ELSE a[p]
  OBVIOUS
<1>. HIDE DEF w
<1>3. /\ \A x \in Pids : Done(s, b, x) <=> Done(st, a, x)
      /\ \A x \in Pids : Comes(st, a, x) => Comes(s, b, x)
      /\ \A x \in Pids : ~Done(st, a, x) => Comes(s, b, x)
  <2>1. \A x \in Pids : Done(s, b, x) <=> Done(st, a, x)
    BY <1>1, <1>2 DEF Done
  <2>2. \A x \in Pids : Comes(st, a, x) => Comes(s, b, x)
    BY <1>1, <1>2 DEF Comes
  <2>3. \A x \in Pids : a[x].op \in {"user", "wait", "unlock", "wake", "die", "remove", "finish"}
    BY DEF Place
  <2>. QED  BY <2>1, <2>2, <2>3 DEF Done, Comes
<1>4. \A j \in Slots : Busy(t, j) <=> Busy(sp, j)
  BY DEF Busy
<1>5. Wiring(t, h, n)
  BY <1>0, <1>4 DEF Wired, Wiring, OneSlot
<1>6. Waits(t, b, h)
  BY <1>0, <1>1, <1>2, <1>4 DEF Wired, Waits
<1>7. Locks(s, t, b, h)
  BY <1>0, <1>3, <1>4 DEF Wired, Locks
<1>8. \A j \in Slots : c \notin Members(sp[j].queue)
  BY DEF Wired, Queues, Done
<1>9. Members(sp[i].queue) = {}
  <2>. SUFFICES ASSUME NEW x \in Members(sp[i].queue) PROVE FALSE
    OBVIOUS
  <2>1. x \in Pids /\ a[x].op = "wait" /\ a[x].slot = i
    BY <1>0 DEF Wired, Queues
  <2>2. sp[i].allowed_processes[1] = x
    BY <2>1 DEF Wired, Waits
  <2>. QED  BY <1>8, <2>2
<1>10. Len(t[i].queue) = 1 /\ Members(t[i].queue) = {c}
  <2>. DEFINE q == sp[i].queue
  <2>1. q \in Seq(Pids) /\ Members(q) = {}
    BY <1>0, <1>9
  <2>2. Len(q) \in Nat /\ \A m \in 1 .. Len(q) : q[m] \in Members(q)
    BY <2>1 DEF Members
  <2>3. 1 \notin 1 .. Len(q)
    BY <2>1, <2>2
  <2>4. Len(q) = 0
    BY <2>2, <2>3
  <2>5. t[i].queue = Append(q, c)
    OBVIOUS
  <2>. HIDE DEF q
  <2>6. Members(Append(q, c)) = {c}
    BY <2>1, MembersAppend
  <2>7. Len(Append(q, c)) = 1
    BY <2>1, <2>4
  <2>. QED  BY <2>5, <2>6, <2>7
<1>11. Queues(s, t, b)
  <2>. SUFFICES ASSUME NEW j \in Slots
                PROVE  /\ Len(t[j].queue) =< 1
                       /\ \A x \in Members(t[j].queue) : /\ b[x].op = "wait" /\ b[x].slot = j
                                                         /\ s[x] \in {BLOCKED, DEAD}
    BY DEF Queues
  <2>1. CASE j = i
    <3>1. b[c].op = "wait" /\ b[c].slot = i /\ s[c] = BLOCKED
      BY <1>1, <1>2
    <3>2. \A x \in Members(t[j].queue) : x = c
      BY <1>10, <2>1
    <3>3. Len(t[j].queue) = 1
      BY <1>10, <2>1
    <3>4. Len(t[j].queue) =< 1
      BY <3>3
    <3>5. \A x \in Members(t[j].queue) : /\ b[x].op = "wait" /\ b[x].slot = j
                                         /\ s[x] \in {BLOCKED, DEAD}
      BY <2>1, <3>1, <3>2
    <3>. QED  BY <3>4, <3>5
  <2>2. CASE j # i
    <3>1. /\ Len(sp[j].queue) =< 1 /\ t[j].queue = sp[j].queue
          /\ \A x \in Members(sp[j].queue) : /\ x \in Pids /\ x # c /\ a[x].op = "wait" /\ a[x].slot = j
                                             /\ st[x] \in {BLOCKED, DEAD}
      BY <1>0, <1>8, <2>2 DEF Wired, Queues
    <3>. QED  BY <1>2, <3>1
  <2>. QED  BY <2>1, <2>2
<1>12. Sleepers(s, t, b)
  <2>. SUFFICES ASSUME NEW x \in Pids, s[x] = BLOCKED
                PROVE  /\ b[x].op = "wait" /\ x \in Members(t[b[x].slot].queue)
                       /\ Comes(s, b, b[x].name)
    BY DEF Sleepers
  <2>1. CASE x = c
    <3>1. ~Done(st, a, sp[i].identifier)
      BY DEF Wired, Locks
    <3>. QED  BY <1>0, <1>1, <1>2, <1>3, <1>10, <2>1, <3>1
  <2>2. CASE x # c
    <3>1. /\ st[x] = BLOCKED /\ b[x] = a[x] /\ a[x].op = "wait" /\ x \in Members(sp[a[x].slot].queue)
          /\ Comes(st, a, a[x].name)
      BY <1>2, <2>2 DEF Wired, Sleepers
    <3>2. a[x].slot # i
      BY <1>9, <3>1
    <3>. QED  BY <1>0, <1>3, <3>1, <3>2
  <2>. QED  BY <2>1, <2>2
<1>13. Wakers(s, t, b)
  BY <1>1, <1>2, <1>4 DEF Wired, Wakers
<1>. QED  BY <1>5, <1>6, <1>7, <1>11, <1>12, <1>13 DEF Wired

\* create_process opens the semaphore of the new process, if a slot is free.
LEMMA OpenWired ==
  ASSUME NEW st, NEW sp, NEW a, NEW h, NEW n \in Pids, Wired(st, sp, a, h, n), NEW c \in Pids,
         ~Done(st, a, n), NEW s,
         \A x \in Pids : (s[x] = BLOCKED <=> st[x] = BLOCKED) /\ (s[x] = DEAD <=> st[x] = DEAD)
  PROVE  Wired(s, OpenTable(sp, 1, n, c), a, h, n + 1)
<1>. DEFINE t == OpenTable(sp, 1, n, c)
            o == Opened(n, 1, c)
            free == {j \in Slots : sp[j].status = "AVAILABLE"}
<1>0. /\ sp \in Table /\ OneSlot(sp) /\ h \in [Pids -> SUBSET Pids]
      /\ \A j \in Slots : /\ Members(sp[j].queue) \subseteq Pids
                          /\ Busy(sp, j) => sp[j].identifier \in Pids
      /\ \A x \in Pids : a[x].op = "wait" => /\ a[x].slot \in Slots /\ Busy(sp, a[x].slot)
                                             /\ sp[a[x].slot].identifier = a[x].name
                                             /\ a[x].name \in Pids
  BY WiredFacts
<1>1. Pids \subseteq Nat
  BY SchedulerAssumption DEF Pids, SHELL_PID
<1>2. \A j \in Slots : Busy(sp, j) => sp[j].identifier # n /\ sp[j].identifier < n
  BY <1>0, <1>1 DEF Wired, Wiring
<1>3. Slot(sp, n) = NOT_FOUND
  BY <1>2, SlotFacts
<1>4. Wired(s, sp, a, h, n)
  BY TurnWired
<1>5. \A x \in Pids : x < n => x < n + 1
  BY <1>1
<1>6. Wired(s, sp, a, h, n + 1)
  BY <1>0, <1>4, <1>5 DEF Wired, Wiring
<1>7. CASE free = {}
  <2>1. t = sp
    BY <1>3, <1>7 DEF OpenTable
  <2>. QED  BY <1>6, <2>1
<1>8. CASE free # {}
  <2>. DEFINE i == Smallest(free)
  <2>1. i \in free
    <3>1. free \subseteq Nat
      BY KernelConstants
    <3>. HIDE DEF free
    <3>. QED  BY <1>8, <3>1, SmallestExists
  <2>2. i \in Slots /\ ~Busy(sp, i)
    BY <2>1 DEF Busy
  <2>3. t = [sp EXCEPT ![i] = o]
    BY <1>3, <1>8 DEF OpenTable
  <2>4. o \in Semaphore
    BY NewSlots DEF Names
  <2>5. /\ o.status = "UNAVAILABLE" /\ o.identifier = n /\ o.is_locked /\ o.queue = <<>>
        /\ o.allowed_processes = <<c>>
    <3>1. /\ o.status = "UNAVAILABLE" /\ o.identifier = n /\ o.queue = <<>>
          /\ o.allowed_processes = <<c>> /\ o.is_locked = (1 > 0)
      BY DEF Opened
    <3>2. (1 > 0) = TRUE
      OBVIOUS
    <3>. HIDE DEF o
    <3>. QED  BY <3>1, <3>2
  <2>. HIDE DEF o, i
  <2>6. t \in Table /\ \A j \in Slots : t[j] = IF j = i THEN o ELSE sp[j]
    BY <1>0, <2>2, <2>3, <2>4 DEF Table
  <2>. HIDE DEF t
  <2>7. /\ \A j \in Slots : Busy(t, j) <=> j = i \/ Busy(sp, j)
        /\ Len(o.queue) = 0 /\ Members(o.queue) = {} /\ Len(o.allowed_processes) = 1
    BY <2>2, <2>5, <2>6 DEF Busy, Members
  <2>8. n < n + 1
    BY <1>1
  <2>9. Wiring(t, h, n + 1)
    <3>1. OneSlot(t)
      BY <1>0, <1>2, <2>5, <2>6, <2>7 DEF OneSlot
    <3>2. ASSUME NEW j \in Slots, Busy(t, j)
          PROVE  /\ t[j].identifier \in Pids /\ t[j].identifier < n + 1
                 /\ Len(t[j].allowed_processes) = 1
      <4>1. CASE j = i
        BY <2>5, <2>6, <2>7, <2>8, <4>1
      <4>2. CASE j # i
        <5>1. t[j] = sp[j] /\ Busy(sp, j)
          BY <2>6, <2>7, <3>2, <4>2
        <5>. QED  BY <1>6, <5>1 DEF Wired, Wiring
      <4>. QED  BY <4>1, <4>2
    <3>. QED  BY <1>0, <2>6, <3>1, <3>2 DEF Wiring
  <2>10. \A x \in Pids : a[x].op = "wait" => a[x].slot # i /\ t[a[x].slot] = sp[a[x].slot]
    BY <1>0, <2>2, <2>6
  <2>11. Waits(t, a, h)
    BY <1>6, <2>7, <2>10 DEF Wired, Waits
  <2>12. Locks(s, t, a, h)
    <3>. SUFFICES ASSUME NEW j \in Slots, Busy(t, j)
                  PROVE  /\ ~t[j].is_locked => Done(s, a, t[j].identifier)
                         /\ t[j].is_locked /\ Done(s, a, t[j].identifier)
                              => \E q \in Pids : t[j].identifier \in h[q]
      BY DEF Locks
    <3>1. CASE j = i
      BY <2>5, <2>6, <3>1 DEF Done
    <3>2. CASE j # i
      BY <1>6, <2>6, <2>7, <3>2 DEF Wired, Locks
    <3>. QED  BY <3>1, <3>2
  <2>13. Queues(s, t, a)
    BY <1>6, <2>6, <2>7 DEF Wired, Queues
  <2>14. Sleepers(s, t, a)
    BY <1>6, <2>10 DEF Wired, Sleepers
  <2>15. Wakers(s, t, a)
    BY <1>6, <2>2, <2>6, <2>7 DEF Wired, Wakers
  <2>. QED  BY <2>9, <2>11, <2>12, <2>13, <2>14, <2>15 DEF Wired, t
<1>. QED  BY <1>7, <1>8

-----------------------------------------------------------------------------
(* The invariant, and the operations that keep it. *)

LifeState(g, fg, sp, a, h) == Core(g, fg, a) /\ Wired(g.status, sp, a, h, g.pid)

\* What the proofs use of LifeState.
LEMMA LifeFacts ==
  ASSUME NEW g, NEW fg, NEW sp, NEW a, NEW h, LifeState(g, fg, sp, a, h)
  PROVE  /\ Core(g, fg, a) /\ Placed(g, a) /\ AllLive(g, fg, a) /\ Wired(g.status, sp, a, h, g.pid)
         /\ Safe(g) /\ Sound(g) /\ g \in SchedState /\ g.current_pcb \in Pids
         /\ g.status[g.current_pcb] # NONE /\ g.status[g.current_pcb] # BLOCKED
         /\ a \in [Pids -> Place] /\ sp \in Table /\ h \in [Pids -> SUBSET Pids] /\ fg \in Killable
         /\ Lives(g.status, a, fg) /\ Lives(g.status, a, SHELL_PID)
         /\ a[g.current_pcb].op \notin Leaving => g.status[g.current_pcb] # DEAD
         /\ g.pid \in Nat
<1>1. Core(g, fg, a) /\ Placed(g, a) /\ AllLive(g, fg, a) /\ Wired(g.status, sp, a, h, g.pid)
  BY DEF LifeState, Core
<1>2. sp \in Table /\ h \in [Pids -> SUBSET Pids]
  BY <1>1, WiredFacts
<1>3. /\ Safe(g) /\ Sound(g) /\ g \in SchedState /\ g.current_pcb \in Pids
      /\ g.status[g.current_pcb] # NONE /\ a \in [Pids -> Place] /\ g.pid \in Nat
  BY <1>1, CoreFacts
<1>4. /\ g.status[g.current_pcb] # BLOCKED
      /\ a[g.current_pcb].op \notin Leaving => g.status[g.current_pcb] # DEAD
  BY <1>1 DEF Placed
<1>5. fg \in Killable /\ Lives(g.status, a, fg) /\ Lives(g.status, a, SHELL_PID)
  BY <1>1 DEF AllLive
<1>. QED  BY <1>1, <1>2, <1>3, <1>4, <1>5

\* Whoever runs its own code, or asks for a lock again, was not killed.
LEMMA AliveNow ==
  ASSUME NEW g, NEW fg, NEW sp, NEW a, NEW h, LifeState(g, fg, sp, a, h),
         a[g.current_pcb].op \in {"user", "wait"}
  PROVE  ~Done(g.status, a, g.current_pcb) /\ g.status[g.current_pcb] # DEAD
<1>1. a[g.current_pcb].op \notin Leaving
  BY DEF Leaving
<1>2. g.status[g.current_pcb] # DEAD
  BY <1>1, LifeFacts
<1>. QED  BY <1>2 DEF Done

\* A step that leaves the pending processes alone leaves the foreground alone.
LEMMA ForeStays == ASSUME NEW g, NEW f PROVE Fore(g, g, f) = f
  BY DEF Fore

\* A context switch, or a tick without one, keeps the state.
LEMMA TurnLife ==
  ASSUME NEW g, NEW fg, NEW sp, NEW a, NEW h, LifeState(g, fg, sp, a, h), NEW r,
         \/ Switched(g, r)
         \/ /\ Safe(r) /\ r.status = g.status /\ r.current_pcb = g.current_pcb
            /\ r.creation_queue = g.creation_queue /\ r.pid = g.pid
  PROVE  LifeState(r, Fore(g, r, fg), sp, a, h)
<1>1. Core(g, fg, a) /\ Wired(g.status, sp, a, h, g.pid)
  BY LifeFacts
<1>2. Core(r, Fore(g, r, fg), a)
  BY <1>1, TurnCore
<1>3. /\ r.pid = g.pid
      /\ \A x \in Pids : /\ r.status[x] = BLOCKED <=> g.status[x] = BLOCKED
                         /\ r.status[x] = DEAD <=> g.status[x] = DEAD
  BY DEF Switched, Alike
<1>4. Wired(r.status, sp, a, h, g.pid)
  BY <1>1, <1>3, TurnWired
<1>. QED  BY <1>2, <1>3, <1>4 DEF LifeState

\* Whoever sleeps is in a scheduling queue, where os_revive_process finds it.
LEMMA BlockedEntry ==
  ASSUME NEW g, NEW fg, NEW sp, NEW a, NEW h, LifeState(g, fg, sp, a, h), NEW x \in Pids,
         g.status[x] = BLOCKED
  PROVE  get_pcb_entry(g, x)
<1>1. AllLive(g, fg, a) /\ Wired(g.status, sp, a, h, g.pid) /\ Sound(g)
  BY LifeFacts
<1>2. a[x].op = "wait"
  BY <1>1 DEF Wired, Sleepers
<1>3. x \notin Members(g.creation_queue)
  BY <1>1, <1>2 DEF AllLive, Fresh
<1>. QED  BY <1>1, <1>3, EntryFacts DEF BLOCKED, NONE, DEAD

\* force_kill of a process that is in a scheduling queue.
LEMMA KillLife ==
  ASSUME NEW g, NEW fg, NEW sp, NEW a, NEW h, LifeState(g, fg, sp, a, h), NEW p \in Clients,
         get_pcb_entry(g, p)
  PROVE  LET r == kill(g, p, PostWakes(sp, p))
         IN  LifeState(r, Fore(g, r, IF fg = p THEN SHELL_PID ELSE fg), PostTable(sp, p), a, h)
<1>. DEFINE W == PostWakes(sp, p)
            r == kill(g, p, W)
            t == PostTable(sp, p)
            i == Slot(sp, p)
            f == IF fg = p THEN SHELL_PID ELSE fg
<1>1. /\ Core(g, fg, a) /\ Wired(g.status, sp, a, h, g.pid) /\ Safe(g) /\ sp \in Table
      /\ p \in Pids /\ p # SHELL_PID /\ p # IDLE_PID
  BY LifeFacts, KernelConstants
<1>2. Core(r, Fore(g, r, f), a)
  BY <1>1, KillCore
<1>3. /\ r.pid = g.pid
      /\ \A x \in Pids : /\ r.status[x] = DEAD <=> x = p \/ g.status[x] = DEAD
                         /\ r.status[x] = BLOCKED <=>
                              /\ x # p /\ g.status[x] = BLOCKED
                              /\ ~(x \in W /\ get_pcb_entry(g, x) /\ g.status[x] = BLOCKED)
  BY <1>1, KillCalm
<1>4. \A x \in Pids : r.status[x] = BLOCKED <=> x # p /\ g.status[x] = BLOCKED /\ x \notin W
  BY <1>3, BlockedEntry
<1>. HIDE DEF r, f
<1>5. /\ i = NOT_FOUND => t = sp /\ W = {}
      /\ i # NOT_FOUND => Posted(sp, p, i, t, W)
  BY <1>1, PostFacts
<1>6. i = NOT_FOUND => \A j \in Slots : Busy(sp, j) => sp[j].identifier # p
  BY SlotFacts
<1>. HIDE DEF t, W, i
<1>7. i = NOT_FOUND => PostsNothing(g.status, sp, p, r.status, t)
  BY <1>4, <1>5, <1>6 DEF PostsNothing
<1>8. i # NOT_FOUND => Posts(g.status, sp, a, p, i, r.status, t, a)
  BY <1>4, <1>5 DEF Posts, Posted
<1>9. /\ \A x \in Pids : x # p => a[x] = a[x] /\ (r.status[x] = DEAD <=> g.status[x] = DEAD)
      /\ r.status[p] = DEAD
  BY <1>1, <1>3
<1>10. Posts(g.status, sp, a, p, i, r.status, t, a) \/ PostsNothing(g.status, sp, p, r.status, t)
  BY <1>7, <1>8
<1>11. Wired(r.status, t, a, h, g.pid)
  BY <1>1, <1>9, <1>10, PostWired
<1>. QED  BY <1>2, <1>3, <1>11 DEF LifeState, r, t, W, f

\* waitpid gets the semaphore of a process.
LEMMA TakeLife ==
  ASSUME NEW g, NEW fg, NEW sp, NEW a, NEW h, LifeState(g, fg, sp, a, h), NEW i \in Slots, NEW n \in Clients,
         g.current_pcb # IDLE_PID, a[g.current_pcb].op \in {"user", "wait"},
         Busy(sp, i), sp[i].identifier = n, sp[i].allowed_processes[1] = g.current_pcb
  PROVE  LifeState(g, fg, [sp EXCEPT ![i].is_locked = TRUE], [a EXCEPT ![g.current_pcb] = User],
                   [h EXCEPT ![g.current_pcb] = @ \cup {n}])
<1>. DEFINE c == g.current_pcb
            t == [sp EXCEPT ![i].is_locked = TRUE]
            b == [a EXCEPT ![c] = User]
            u == [h EXCEPT ![c] = @ \cup {n}]
<1>1. /\ Core(g, fg, a) /\ Wired(g.status, sp, a, h, g.pid) /\ Safe(g) /\ sp \in Table /\ c \in Pids
      /\ g.status[c] # BLOCKED /\ g.status[c] # NONE /\ a \in [Pids -> Place]
      /\ h \in [Pids -> SUBSET Pids] /\ fg \in Killable /\ n \in Pids
  BY LifeFacts, KernelConstants
<1>2. ~Done(g.status, a, c) /\ g.status[c] # DEAD
  BY AliveNow
<1>3. User \in Place /\ User.op = "user"
  BY DEF User, Place
<1>4. Core(g, Fore(g, g, fg), b)
  <2>. DEFINE x == User
  <2>1. x \in Place /\ x.op = "user"
    BY <1>3
  <2>. HIDE DEF x
  <2>2. x.op \in {"user", "wait"} /\ x.op \notin Leaving /\ x.op # "wait"
    BY <2>1 DEF Leaving
  <2>3. Core(g, Fore(g, g, fg), [a EXCEPT ![c] = x])
    BY <1>1, <1>2, <2>1, <2>2, MoveCore
  <2>. QED  BY <2>3 DEF x
<1>5. /\ \A p \in Pids : b[p] = IF p = c THEN User ELSE a[p]
      /\ \A p \in Pids : u[p] = IF p = c THEN h[c] \cup {sp[i].identifier} ELSE h[p]
      /\ u \in [Pids -> SUBSET Pids]
  BY <1>1
<1>6. Relocked(sp, t, i)
  BY <1>1, SetLock
<1>8. t[i].is_locked
  BY <1>1 DEF Table, Semaphore
<1>. HIDE DEF t, b, u
<1>8a. a[c].op \in {"user", "wait"} /\ Busy(sp, i) /\ sp[i].allowed_processes[1] = c
  OBVIOUS
<1>9. Wired(g.status, t, b, u, g.pid)
  <2>. DEFINE st == g.status
  <2>1. ~Done(st, a, c) /\ st[c] # BLOCKED /\ Wired(st, sp, a, h, g.pid)
    BY <1>1, <1>2
  <2>. HIDE DEF st, c
  <2>2. Seized(st, c, sp, a, h, i, t, b, u)
    BY <1>1, <1>5, <1>6, <1>8, <1>8a, <2>1 DEF Seized
  <2>. QED  BY <2>1, <2>2, TakeWired DEF st
<1>. QED  BY <1>4, <1>9, ForeStays DEF LifeState, t, b, u

\* waitpid finds the semaphore locked and goes to sleep.
LEMMA SleepLife ==
  ASSUME NEW g, NEW fg, NEW sp, NEW a, NEW h, LifeState(g, fg, sp, a, h), NEW i \in Slots, NEW n \in Clients,
         g.current_pcb # IDLE_PID, a[g.current_pcb].op \in {"user", "wait"},
         Busy(sp, i), sp[i].identifier = n, sp[i].allowed_processes[1] = g.current_pcb,
         sp[i].is_locked, \A q \in Pids : n \notin h[q]
  PROVE  LET r == block_current(g)
         IN  LifeState(r, Fore(g, r, fg), [sp EXCEPT ![i].queue = Append(@, g.current_pcb)],
                       [a EXCEPT ![g.current_pcb] = Waiting(n, i)], h)
<1>. DEFINE c == g.current_pcb
            r == block_current(g)
            q == Append(sp[i].queue, c)
            t == [sp EXCEPT ![i].queue = q]
            w == Waiting(n, i)
            b == [a EXCEPT ![c] = w]
<1>1. /\ Core(g, fg, a) /\ Wired(g.status, sp, a, h, g.pid) /\ Safe(g) /\ sp \in Table /\ c \in Pids
      /\ g.status[c] # BLOCKED /\ g.status[c] # NONE /\ a \in [Pids -> Place]
      /\ fg \in Killable /\ n \in Pids
  BY LifeFacts, KernelConstants
<1>2. ~Done(g.status, a, c) /\ g.status[c] # DEAD
  BY AliveNow
<1>3. w \in Place /\ w.op = "wait" /\ w.name = n /\ w.op \in {"user", "wait"} /\ w.op \notin Leaving
  BY <1>1 DEF Waiting, Place, Names, Leaving
<1>4. /\ Safe(r) /\ r.pid = g.pid /\ r.creation_queue = <<>> /\ r.status[r.current_pcb] = RUNNING
      /\ \A x \in Pids : /\ r.status[x] = BLOCKED <=> x = c \/ g.status[x] = BLOCKED
                         /\ r.status[x] = DEAD <=> g.status[x] = DEAD
                         /\ r.status[x] = NONE <=> g.status[x] = NONE
  BY <1>1, <1>2, BlockCalm
<1>. HIDE DEF r
<1>5. b = [a EXCEPT ![c] = Waiting(sp[i].identifier, i)]
  OBVIOUS
<1>6. \A p \in Pids : b[p] = IF p = c THEN Waiting(sp[i].identifier, i) ELSE a[p]
  BY <1>1, <1>5
<1>. HIDE DEF w
<1>7. r.status[r.current_pcb] # BLOCKED /\ r.status[r.current_pcb] # DEAD /\ r.status[c] # DEAD
  BY <1>1, <1>2, <1>4 DEF RUNNING, BLOCKED, DEAD
<1>8. Core(r, Fore(g, r, fg), b)
  BY <1>1, <1>2, <1>3, <1>4, <1>7, MoveCore
<1>9. q \in Seq(Pids)
  BY <1>1, SlotTypes
<1>10. t = [sp EXCEPT ![i].queue = Append(@, c)]
  OBVIOUS
<1>11. q = Append(sp[i].queue, c)
  OBVIOUS
<1>. HIDE DEF q
<1>12. Requeued(sp, t, i, q)
  BY <1>1, <1>9, SetQueue
<1>13. t \in Table /\ \A j \in Slots : /\ t[j].status = sp[j].status /\ t[j].identifier = sp[j].identifier
                        /\ t[j].allowed_processes = sp[j].allowed_processes
                        /\ t[j].is_locked = sp[j].is_locked
                        /\ t[j].queue = IF j = i THEN q ELSE sp[j].queue
  <2>. HIDE DEF t
  <2>. QED  BY <1>12 DEF Requeued
<1>14. \A j \in Slots : t[j].queue = IF j = i THEN Append(sp[i].queue, c) ELSE sp[j].queue
  BY <1>11, <1>13
<1>. HIDE DEF t, b
<1>15. \A x \in Pids : sp[i].identifier \notin h[x]
  OBVIOUS
<1>16. Wired(r.status, t, b, h, g.pid)
  BY <1>1, <1>2, <1>4, <1>6, <1>12, <1>13, <1>14, <1>15, SleepWired
<1>. QED  BY <1>4, <1>8, <1>10, <1>16 DEF LifeState, r, b, w

\* A process is created, with its semaphore if the table has room.
LEMMA CreateLife ==
  ASSUME NEW g, NEW fg, NEW sp, NEW a, NEW h, LifeState(g, fg, sp, a, h), g.pid =< MaxPid, NEW r, NEW f,
         r = create_and_insert_process(g) \/ r = add_process_to_creation_queue(g),
         f = fg \/ f = g.pid
  PROVE  LifeState(r, Fore(g, r, f), OpenTable(sp, 1, g.pid, g.current_pcb), a, h)
<1>1. /\ Core(g, fg, a) /\ Placed(g, a) /\ Wired(g.status, sp, a, h, g.pid) /\ Safe(g)
      /\ g.current_pcb \in Pids
  BY LifeFacts
<1>2. Core(r, Fore(g, r, f), a)
  BY <1>1, CreateCore
<1>3. /\ r.pid = g.pid + 1 /\ g.pid \in Clients /\ g.status[g.pid] = NONE
      /\ \A x \in Pids : r.status[x] = IF x = g.pid THEN READY ELSE g.status[x]
  BY <1>1, CreateCalm, CreateLaterCalm
<1>4. g.pid \in Pids
  BY <1>3, KernelConstants
<1>5. ~Done(g.status, a, g.pid)
  BY <1>1, <1>3, <1>4 DEF Placed, Done, NONE, DEAD
<1>6. \A x \in Pids : /\ r.status[x] = BLOCKED <=> g.status[x] = BLOCKED
                      /\ r.status[x] = DEAD <=> g.status[x] = DEAD
  BY <1>3 DEF READY, NONE, BLOCKED, DEAD
<1>7. Wired(r.status, OpenTable(sp, 1, g.pid, g.current_pcb), a, h, g.pid + 1)
  BY <1>1, <1>4, <1>5, <1>6, OpenWired
<1>. QED  BY <1>2, <1>3, <1>7 DEF LifeState

\* The current process moves on and nothing else changes.
LEMMA MoveLife ==
  ASSUME NEW g, NEW fg, NEW sp, NEW a, NEW h, LifeState(g, fg, sp, a, h), NEW x \in Place, NEW f,
         f = fg \/ f = SHELL_PID, f # g.current_pcb, g.current_pcb # IDLE_PID,
         g.current_pcb # SHELL_PID,
         \/ x.op = "unlock" /\ a[g.current_pcb].op = "user"
         \/ x.op = "die" /\ a[g.current_pcb].op = "unlock" /\ Slot(sp, g.current_pcb) = NOT_FOUND
  PROVE  LifeState(g, f, sp, [a EXCEPT ![g.current_pcb] = x], h)
<1>. DEFINE c == g.current_pcb
            b == [a EXCEPT ![c] = x]
<1>1. /\ Core(g, fg, a) /\ Wired(g.status, sp, a, h, g.pid) /\ Safe(g) /\ c \in Pids
      /\ g.status[c] # BLOCKED /\ a \in [Pids -> Place] /\ fg \in Killable
  BY LifeFacts
<1>2. a[c].op \notin Leaving /\ x.op \notin Leaving /\ x.op # "wait" /\ x.op # "wake"
      /\ a[c].op # "wait"
  BY DEF Leaving
<1>3. g.status[c] # DEAD
  BY <1>2, LifeFacts
<1>4. f \in Killable
  BY <1>1 DEF Killable
<1>5. Core(g, Fore(g, g, f), b)
  BY <1>1, <1>2, <1>3, <1>4, MoveCore
<1>6. \A p \in Pids : p # c => b[p] = a[p] /\ (g.status[p] = DEAD <=> g.status[p] = DEAD)
  BY <1>1
<1>7. b[c] = x
  BY <1>1
<1>. HIDE DEF b
<1>8. StillOwes(g.status, a, g.status, b, sp, c)
  <2>1. CASE x.op = "unlock" /\ a[c].op = "user"
    BY <1>3, <1>7, <2>1 DEF StillOwes, Done, Comes
  <2>2. CASE Slot(sp, c) = NOT_FOUND
    BY <2>2, SlotFacts DEF StillOwes
  <2>. QED  BY <2>1, <2>2
<1>9. b[c].op \notin {"wait", "wake"}
  BY <1>2, <1>7
<1>10. Wired(g.status, sp, b, h, g.pid)
  <2>1. a[c].op # "wait" /\ \A y \in Pids : g.status[y] = BLOCKED <=> g.status[y] = BLOCKED
    BY <1>2
  <2>2. Wired(g.status, sp, a, h, g.pid) /\ c \in Pids
    BY <1>1
  <2>. HIDE DEF c
  <2>. QED  BY <1>6, <1>8, <1>9, <2>1, <2>2, MoveWired
<1>. QED  BY <1>5, <1>10, ForeStays DEF LifeState, b

\* Whoever is on its way out is neither the shell, nor idle, nor in the foreground.
LEMMA GoneFromView ==
  ASSUME NEW g, NEW fg, NEW sp, NEW a, NEW h, LifeState(g, fg, sp, a, h),
         a[g.current_pcb].op \notin {"user", "wait"}
  PROVE  fg # g.current_pcb /\ g.current_pcb # SHELL_PID /\ g.current_pcb # IDLE_PID
<1>1. Placed(g, a) /\ Lives(g.status, a, fg) /\ Lives(g.status, a, SHELL_PID)
  BY LifeFacts
<1>. QED  BY <1>1 DEF Lives, Placed

\* It unlocks its own semaphore.
LEMMA UnlockLife ==
  ASSUME NEW g, NEW fg, NEW sp, NEW a, NEW h, LifeState(g, fg, sp, a, h),
         a[g.current_pcb].op = "unlock", NEW i, i = Slot(sp, g.current_pcb), i # NOT_FOUND
  PROVE  LifeState(g, fg, UnlockTable(sp, i), [a EXCEPT ![g.current_pcb] = Goes("wake", i)], h)
<1>. DEFINE c == g.current_pcb
            x == Goes("wake", i)
            b == [a EXCEPT ![c] = x]
            t == UnlockTable(sp, i)
<1>1. /\ Core(g, fg, a) /\ Wired(g.status, sp, a, h, g.pid) /\ Safe(g) /\ c \in Pids
      /\ g.status[c] # BLOCKED /\ a \in [Pids -> Place] /\ fg \in Killable /\ sp \in Table
  BY LifeFacts
<1>2. i \in Slots /\ Busy(sp, i) /\ sp[i].identifier = c
  BY SlotFacts
<1>3. fg # c /\ c # SHELL_PID /\ c # IDLE_PID
  BY GoneFromView
<1>4. a[c].op \notin Leaving
  BY DEF Leaving
<1>5. g.status[c] # DEAD
  BY <1>4, LifeFacts
<1>6. \A p \in Pids : b[p] = IF p = c THEN Goes("wake", i) ELSE a[p]
  BY <1>1
<1>7. x \in Place /\ x.op = "wake" /\ x.op \notin Leaving /\ x.op # "wait"
  BY <1>2 DEF Goes, Place, Leaving
<1>. HIDE DEF x
<1>8. Core(g, Fore(g, g, fg), b)
  BY <1>1, <1>3, <1>5, <1>7, MoveCore
<1>9. Relocked(sp, t, i) /\ ~t[i].is_locked
  BY <1>1, <1>2, UnlockFacts
<1>. HIDE DEF t
<1>. HIDE DEF b
<1>12. Wired(g.status, t, b, h, g.pid)
  BY <1>1, <1>2, <1>6, <1>9, UnlockWired
<1>. QED  BY <1>8, <1>12, ForeStays DEF LifeState, t, b, x

\* It wakes the process that sleeps in its queue.
LEMMA WakeLife ==
  ASSUME NEW g, NEW fg, NEW sp, NEW a, NEW h, LifeState(g, fg, sp, a, h), a[g.current_pcb].op = "wake",
         NEW i, i = a[g.current_pcb].slot
  PROVE  LET r == os_revive_process(g, Members(First(sp[i].queue)))
         IN  LifeState(r, Fore(g, r, fg), WakeTable(sp, i),
                       [a EXCEPT ![g.current_pcb] = Goes("die", 0)], h)
<1>. DEFINE c == g.current_pcb
            W == Members(First(sp[i].queue))
            r == os_revive_process(g, W)
            x == Goes("die", 0)
            b == [a EXCEPT ![c] = x]
            t == WakeTable(sp, i)
<1>1. /\ Core(g, fg, a) /\ Wired(g.status, sp, a, h, g.pid) /\ Safe(g) /\ c \in Pids
      /\ g.status[c] # BLOCKED /\ a \in [Pids -> Place] /\ fg \in Killable /\ sp \in Table
  BY LifeFacts
<1>2. fg # c /\ c # SHELL_PID /\ c # IDLE_PID
  BY GoneFromView
<1>3. a[c].op \notin Leaving
  BY DEF Leaving
<1>4. g.status[c] # DEAD
  BY <1>3, LifeFacts
<1>5. i \in Slots /\ Busy(sp, i) /\ sp[i].identifier = c
  BY <1>1, <1>4 DEF Wired, Wakers
<1>6. /\ Safe(r) /\ r.pid = g.pid /\ r.current_pcb = c /\ r.creation_queue = g.creation_queue
      /\ \A y \in Pids : r.status[y] = IF /\ y \in W /\ get_pcb_entry(g, y)
                                          /\ g.status[y] \in {BLOCKED, RUNNING}
                                       THEN READY ELSE g.status[y]
  BY <1>1, ReviveCalm DEF SameRest, SameLists
<1>. HIDE DEF r, W
<1>7. \A y \in Pids : /\ r.status[y] = DEAD <=> g.status[y] = DEAD
                      /\ r.status[y] = NONE <=> g.status[y] = NONE
                      /\ r.status[y] = BLOCKED => g.status[y] = BLOCKED
  BY <1>6 DEF READY, RUNNING, BLOCKED, DEAD, NONE
<1>8. \A y \in Pids : r.status[y] = BLOCKED <=> g.status[y] = BLOCKED /\ y # c /\ y \notin W
  <2>. SUFFICES ASSUME NEW y \in Pids
                PROVE  r.status[y] = BLOCKED <=> g.status[y] = BLOCKED /\ y # c /\ y \notin W
    OBVIOUS
  <2>1. g.status[y] = BLOCKED => get_pcb_entry(g, y) /\ y # c
    BY <1>1, BlockedEntry
  <2>. QED  BY <1>6, <1>7, <2>1 DEF READY, BLOCKED
<1>9. x \in Place /\ x.op = "die" /\ x.op \notin Leaving /\ x.op # "wait"
  BY DEF Goes, Place, Leaving
<1>10. \A p \in Pids : b[p] = IF p = c THEN x ELSE a[p]
  BY <1>1
<1>. HIDE DEF x
<1>11. r.status[r.current_pcb] # BLOCKED /\ r.status[c] # DEAD
  BY <1>1, <1>4, <1>6, <1>7
<1>12. Core(r, Fore(g, r, fg), b)
  BY <1>1, <1>2, <1>4, <1>6, <1>7, <1>9, <1>11, MoveCore
<1>13. /\ t \in Table
       /\ \A j \in Slots : /\ t[j].status = sp[j].status /\ t[j].identifier = sp[j].identifier
                           /\ t[j].is_locked = sp[j].is_locked
                           /\ t[j].allowed_processes = sp[j].allowed_processes
                           /\ t[j].queue = IF j = i THEN Rest(sp[i].queue) ELSE sp[j].queue
                           /\ j # i => t[j] = sp[j]
  <2>1. Requeued(sp, t, i, Rest(sp[i].queue))
    BY <1>1, <1>5, WakeFacts
  <2>. HIDE DEF t
  <2>. QED  BY <2>1 DEF Requeued
<1>14. Done(g.status, a, c)
  BY DEF Done
<1>15. W = Members(First(sp[i].queue))
  BY DEF W
<1>. HIDE DEF t, b
<1>16. Posts(g.status, sp, a, c, i, r.status, t, b)
  BY <1>5, <1>8, <1>13, <1>14, <1>15 DEF Posts
<1>17. \A y \in Pids : y # c => b[y] = a[y] /\ (r.status[y] = DEAD <=> g.status[y] = DEAD)
  BY <1>7, <1>10
<1>18. a[c].op # "wait" /\ b[c].op = "die"
  BY <1>1, <1>9, <1>10
<1>19. Wired(r.status, t, b, h, g.pid)
  BY <1>1, <1>16, <1>17, <1>18, PostWired
<1>. QED  BY <1>6, <1>12, <1>19, Zenon DEF LifeState, r, W, t, b, x

\* It marks itself DEAD, or puts itself on the removal list.
LEMMA LeaveLife ==
  ASSUME NEW g, NEW fg, NEW sp, NEW a, NEW h, LifeState(g, fg, sp, a, h), NEW r, NEW x \in Place,
         \/ /\ a[g.current_pcb].op = "die" /\ x.op = "remove"
            /\ r = [g EXCEPT !.status[g.current_pcb] = DEAD]
         \/ /\ a[g.current_pcb].op = "remove" /\ x.op = "finish"
            /\ r = add_process_to_removal_queue(g, g.current_pcb)
  PROVE  LifeState(r, Fore(g, r, fg), sp, [a EXCEPT ![g.current_pcb] = x], h)
<1>. DEFINE c == g.current_pcb
            b == [a EXCEPT ![c] = x]
<1>1. /\ Core(g, fg, a) /\ Placed(g, a) /\ Wired(g.status, sp, a, h, g.pid) /\ Safe(g) /\ c \in Pids
      /\ g.status[c] # BLOCKED /\ g.status[c] # NONE /\ a \in [Pids -> Place] /\ fg \in Killable
  BY LifeFacts
<1>2. fg # c /\ c # SHELL_PID /\ c # IDLE_PID
  BY GoneFromView
<1>3. /\ Safe(r) /\ r.pid = g.pid /\ r.current_pcb = c /\ r.creation_queue = g.creation_queue
      /\ r.status[c] = DEAD /\ \A y \in Pids : y # c => r.status[y] = g.status[y]
  <2>1. CASE a[c].op = "die" /\ r = [g EXCEPT !.status[c] = DEAD]
    <3>. DEFINE d == [g EXCEPT !.status[c] = DEAD]
    <3>1. /\ Safe(d) /\ SameRest(g, d) /\ SameLists(g, d)
          /\ \A y \in Pids : d.status[y] = IF y = c THEN DEAD ELSE g.status[y]
      BY <1>1, <1>2, SetStatusCalm
    <3>. HIDE DEF d
    <3>2. r = d
      BY <2>1 DEF d
    <3>. QED  BY <1>1, <3>1, <3>2 DEF SameRest, SameLists
  <2>2. CASE a[c].op = "remove" /\ r = add_process_to_removal_queue(g, c)
    <3>1. g.status[c] = DEAD
      BY <1>1, <2>2 DEF Placed, Leaving
    <3>. QED  BY <1>1, <2>2, <3>1, RemovalCalm DEF SameRest
  <2>. QED  BY <2>1, <2>2
<1>4. x.op \in Leaving /\ x.op # "wait" /\ x.op # "wake" /\ a[c].op # "wait"
  BY DEF Leaving
<1>5. \A y \in Pids : /\ r.status[y] = NONE <=> g.status[y] = NONE
                      /\ y # c => (r.status[y] = DEAD <=> g.status[y] = DEAD)
                      /\ r.status[y] = BLOCKED <=> g.status[y] = BLOCKED
  BY <1>1, <1>3 DEF DEAD, NONE, BLOCKED
<1>6. r.status[r.current_pcb] # BLOCKED
  BY <1>3 DEF DEAD, BLOCKED
<1>7. Core(r, Fore(g, r, fg), b)
  BY <1>1, <1>2, <1>3, <1>4, <1>5, <1>6, MoveCore
<1>8. /\ \A p \in Pids : p # c => b[p] = a[p] /\ (r.status[p] = DEAD <=> g.status[p] = DEAD)
      /\ b[c].op \notin {"wait", "wake"} /\ b[c] = x
  BY <1>1, <1>4, <1>5
<1>. HIDE DEF b
<1>9. (Done(g.status, a, c) <=> Done(r.status, b, c)) /\ (Comes(g.status, a, c) => Comes(r.status, b, c))
  BY <1>3 DEF Done, Comes
<1>10. Wired(r.status, sp, b, h, g.pid)
  <2>1. a[c].op # "wait" /\ \A y \in Pids : r.status[y] = BLOCKED <=> g.status[y] = BLOCKED
    BY <1>4, <1>5
  <2>2. StillOwes(g.status, a, r.status, b, sp, c)
    BY <1>9 DEF StillOwes
  <2>3. \A p \in Pids : p # c => b[p] = a[p] /\ (r.status[p] = DEAD <=> g.status[p] = DEAD)
    BY <1>8
  <2>4. a[c].op # "wait"
    BY <2>1
  <2>5. \A y \in Pids : r.status[y] = BLOCKED <=> g.status[y] = BLOCKED
    BY <2>1
  <2>6. b[c].op \notin {"wait", "wake"}
    BY <1>8
  <2>7. Wired(g.status, sp, a, h, g.pid) /\ c \in Pids
    BY <1>1
  <2>. HIDE DEF c
  <2>. QED  BY <2>2, <2>3, <2>4, <2>5, <2>6, <2>7, MoveWired
<1>. QED  BY <1>3, <1>7, <1>10 DEF LifeState, b

-----------------------------------------------------------------------------
(* The steps. *)

LifeInv == LifeState(Sched, foreground_pid, sem_spaces, at, holding)

\* A step whose parts are known leads to a state that satisfies the invariant.
LEMMA Settles ==
  ASSUME NEW f, NEW g, NEW sp, NEW a, NEW h, Sched' = g, sem_spaces' = sp, at' = a, holding' = h,
         Moved(f), LifeState(g, Fore(Sched, g, f), sp, a, h)
  PROVE  LifeInv'
<1>1. g.creation_queue = creation_queue'
  BY DEF Sched
<1>2. foreground_pid' = Fore(Sched, g, f)
  BY <1>1, SchedFields DEF Moved, Fore
<1>. QED  BY <1>2 DEF LifeInv

\* The steps that only give the processor away keep the invariant.
LEMMA TurnLives ==
  ASSUME LifeInv, TimerInterrupt \/ SysYield \/ ExitFinish
  PROVE  LifeInv'
<1>0. LifeState(Sched, foreground_pid, sem_spaces, at, holding) /\ Safe(Sched)
  BY LifeFacts DEF LifeInv
<1>1. CASE TimerInterrupt
  <2>. DEFINE r == timer_interrupt(Sched)
  <2>1. \/ Switched(Sched, r)
        \/ /\ Safe(r) /\ r.status = Sched.status /\ r.current_pcb = Sched.current_pcb
           /\ r.creation_queue = Sched.creation_queue /\ r.pid = Sched.pid
    BY <1>0, TimerCalm
  <2>2. Sched' = r /\ sem_spaces' = sem_spaces /\ at' = at /\ holding' = holding /\ Moved(foreground_pid)
    BY <1>1, TimerEffect
  <2>. HIDE DEF r
  <2>3. LifeState(r, Fore(Sched, r, foreground_pid), sem_spaces, at, holding)
    BY <1>0, <2>1, TurnLife
  <2>. QED  BY <2>2, <2>3, Settles
<1>2. CASE SysYield \/ ExitFinish
  <2>. DEFINE r == finish_current_tick(Sched)
  <2>1. Switched(Sched, r)
    BY <1>0, FinishTickCalm
  <2>2. Sched' = r /\ sem_spaces' = sem_spaces /\ at' = at /\ holding' = holding /\ Moved(foreground_pid)
    BY <1>2, YieldEffect
  <2>. HIDE DEF r
  <2>3. LifeState(r, Fore(Sched, r, foreground_pid), sem_spaces, at, holding)
    BY <1>0, <2>1, TurnLife
  <2>. QED  BY <2>2, <2>3, Settles
<1>. QED  BY <1>1, <1>2

\* So does creating a process, at once or later,
LEMMA CreateLives ==
  ASSUME LifeInv, NEW fore \in BOOLEAN, SysCreate(fore) \/ SysPs
  PROVE  LifeInv'
<1>1. LifeState(Sched, foreground_pid, sem_spaces, at, holding) /\ Sched.pid =< MaxPid
  BY SchedFields DEF LifeInv, SysCreate, SysPs
<1>2. PICK f : /\ f = foreground_pid \/ f = Sched.pid
               /\ Sched' = create_and_insert_process(Sched) \/ Sched' = add_process_to_creation_queue(Sched)
               /\ sem_spaces' = OpenTable(sem_spaces, 1, Sched.pid, Sched.current_pcb)
               /\ at' = at /\ holding' = holding /\ Moved(f)
  <2>1. CASE SysCreate(fore)
    <3>. DEFINE f == IF fore THEN pid ELSE foreground_pid
    <3>1. /\ Sched' = create_and_insert_process(Sched)
          /\ sem_spaces' = OpenTable(sem_spaces, 1, pid, current_pcb)
          /\ at' = at /\ holding' = holding /\ Moved(f)
      BY <2>1, CreateEffect
    <3>2. f = foreground_pid \/ f = Sched.pid
      BY SchedFields
    <3>. HIDE DEF f
    <3>. QED  BY <3>1, <3>2, SchedFields
  <2>2. CASE SysPs
    BY <2>2, PsEffect, SchedFields
  <2>. QED  BY <2>1, <2>2
<1>. DEFINE r == Sched'
<1>3. r = create_and_insert_process(Sched) \/ r = add_process_to_creation_queue(Sched)
  BY <1>2
<1>. HIDE DEF r
<1>4. LifeState(r, Fore(Sched, r, f), OpenTable(sem_spaces, 1, Sched.pid, Sched.current_pcb), at, holding)
  BY <1>1, <1>2, <1>3, CreateLife
<1>. QED  BY <1>2, <1>4, Settles DEF r

\* A kill, by a system call, by Ctrl-C, or by a waitpid that did not have to wait.
LEMMA KillLives ==
  ASSUME LifeInv, NEW p \in Killable, Passes(p)
  PROVE  LifeInv'
<1>1. LifeState(Sched, foreground_pid, sem_spaces, at, holding)
  BY DEF LifeInv
<1>2. CASE Reaps(Sched, p)
  <2>. DEFINE r == kill(Sched, p, PostWakes(sem_spaces, p))
              t == PostTable(sem_spaces, p)
              f == IF foreground_pid = p THEN SHELL_PID ELSE foreground_pid
  <2>1. p \in Clients /\ get_pcb_entry(Sched, p)
    BY <1>2 DEF Reaps, Killable
  <2>2. Sched' = r /\ sem_spaces' = t /\ at' = at /\ holding' = holding /\ Moved(f)
    BY <1>2 DEF Passes, ReapSched, ReapTable, ReapFore
  <2>3. LifeState(r, Fore(Sched, r, f), t, at, holding)
    BY <1>1, <2>1, KillLife
  <2>. HIDE DEF r, t, f
  <2>. QED  BY <2>2, <2>3, Settles
<1>3. CASE ~Reaps(Sched, p)
  <2>1. /\ Sched' = Sched /\ sem_spaces' = sem_spaces /\ at' = at /\ holding' = holding
        /\ Moved(foreground_pid)
    BY <1>3, PassesNothing
  <2>2. LifeState(Sched, Fore(Sched, Sched, foreground_pid), sem_spaces, at, holding)
    BY <1>1, ForeStays
  <2>. QED  BY <2>1, <2>2, Settles
<1>. QED  BY <1>2, <1>3

\* The one process listed for slot i asks for the semaphore of n.
Asks(g, sp, a, h, n, i) ==
  LET c == g.current_pcb
  IN  /\ n \in Clients /\ i \in Slots /\ Busy(sp, i) /\ sp[i].identifier = n
      /\ sp[i].allowed_processes[1] = c /\ c # IDLE_PID /\ a[c].op \in {"user", "wait"}
      /\ sp[i].is_locked => \A q \in Pids : n \notin h[q]

\* entering the region of a semaphore,
LEMMA EnterLives ==
  ASSUME LifeInv, NEW n, NEW i, Asks(Sched, sem_spaces, at, holding, n, i), Takes(n, i) \/ Sleeps(n, i)
  PROVE  LifeInv'
<1>. DEFINE c == Sched.current_pcb
            t == [sem_spaces EXCEPT ![i].is_locked = TRUE]
            q == [sem_spaces EXCEPT ![i].queue = Append(@, c)]
            u == [at EXCEPT ![c] = User]
            w == [at EXCEPT ![c] = Waiting(n, i)]
            h == [holding EXCEPT ![c] = @ \cup {n}]
<1>1. LifeState(Sched, foreground_pid, sem_spaces, at, holding)
  BY DEF LifeInv
<1>2. /\ n \in Clients /\ i \in Slots /\ Busy(sem_spaces, i) /\ sem_spaces[i].identifier = n
      /\ sem_spaces[i].allowed_processes[1] = c /\ c # IDLE_PID /\ at[c].op \in {"user", "wait"}
      /\ sem_spaces[i].is_locked => \A x \in Pids : n \notin holding[x]
  BY DEF Asks
<1>3. CASE Takes(n, i)
  <2>1. LifeState(Sched, foreground_pid, t, u, h)
    BY <1>1, <1>2, TakeLife
  <2>2. /\ Sched' = ReapSched(Sched, t, n) /\ sem_spaces' = ReapTable(Sched, t, n)
        /\ at' = u /\ holding' = h /\ Moved(ReapFore(Sched, foreground_pid, n))
    BY <1>3, SchedFields DEF Takes
  <2>. HIDE DEF t, u, h
  <2>3. CASE Reaps(Sched, n)
    <3>. DEFINE r == kill(Sched, n, PostWakes(t, n))
                s == PostTable(t, n)
                f == IF foreground_pid = n THEN SHELL_PID ELSE foreground_pid
    <3>1. Sched' = r /\ sem_spaces' = s /\ Moved(f)
      BY <2>2, <2>3 DEF ReapSched, ReapTable, ReapFore
    <3>2. get_pcb_entry(Sched, n)
      BY <2>3 DEF Reaps
    <3>3. LifeState(r, Fore(Sched, r, f), s, u, h)
      BY <1>2, <2>1, <3>2, KillLife
    <3>. HIDE DEF r, s, f
    <3>. QED  BY <2>2, <3>1, <3>3, Settles
  <2>4. CASE ~Reaps(Sched, n)
    <3>1. Sched' = Sched /\ sem_spaces' = t /\ Moved(foreground_pid)
      BY <2>2, <2>4 DEF ReapSched, ReapTable, ReapFore
    <3>2. LifeState(Sched, Fore(Sched, Sched, foreground_pid), t, u, h)
      BY <2>1, ForeStays
    <3>. QED  BY <2>2, <3>1, <3>2, Settles
  <2>. QED  BY <2>3, <2>4
<1>4. CASE Sleeps(n, i)
  <2>. DEFINE r == block_current(Sched)
  <2>1. sem_spaces[i].is_locked
    BY <1>4 DEF Sleeps
  <2>2. LifeState(r, Fore(Sched, r, foreground_pid), q, w, holding)
    BY <1>1, <1>2, <2>1, SleepLife
  <2>3. Sched' = r /\ sem_spaces' = q /\ at' = w /\ holding' = holding /\ Moved(foreground_pid)
    BY <1>4, SchedFields DEF Sleeps
  <2>. HIDE DEF q, w, r
  <2>. QED  BY <2>2, <2>3, Settles
<1>. QED  BY <1>3, <1>4

\* What a waiter that is scheduled finds.
LEMMA RetryAsks ==
  ASSUME LifeInv, at[current_pcb].op = "wait"
  PROVE  LET a == at[current_pcb]
         IN  Asks(Sched, sem_spaces, at, holding, a.name, a.slot)
<1>. DEFINE c == Sched.current_pcb
<1>1. LifeState(Sched, foreground_pid, sem_spaces, at, holding) /\ c = current_pcb
  BY SchedFields DEF LifeInv
<1>2. Placed(Sched, at) /\ Wired(Sched.status, sem_spaces, at, holding, Sched.pid) /\ c \in Pids
  BY <1>1, LifeFacts
<1>3. at[c].name \in Clients /\ c # IDLE_PID
  BY <1>1, <1>2 DEF Placed
<1>4. /\ at[c].slot \in Slots /\ Busy(sem_spaces, at[c].slot)
      /\ sem_spaces[at[c].slot].identifier = at[c].name
      /\ sem_spaces[at[c].slot].allowed_processes[1] = c
      /\ \A q \in Pids : at[c].name \notin holding[q]
  BY <1>1, <1>2 DEF Wired, Waits
<1>. QED  BY <1>1, <1>3, <1>4 DEF Asks

\* trying again after a wake-up,
LEMMA RetryLives ==
  ASSUME LifeInv, Retry
  PROVE  LifeInv'
<1>. DEFINE n == at[current_pcb].name
            i == at[current_pcb].slot
<1>1. Asks(Sched, sem_spaces, at, holding, n, i)
  BY RetryAsks DEF Retry
<1>2. Sched \in SchedState
  BY LifeFacts DEF LifeInv
<1>3. Takes(n, i) \/ Sleeps(n, i)
  BY <1>2, RetryEffect
<1>. HIDE DEF n, i
<1>. QED  BY <1>1, <1>3, EnterLives

-----------------------------------------------------------------------------
(* A child that was reaped is dead, and a second waitpid finds its semaphore *)
(* open or does not find the child.                                          *)

\* p is in a queue of the scheduler and its semaphore is locked.
Shut(g, sp, p) == /\ get_pcb_entry(g, p)
                  /\ \E i \in Slots : Busy(sp, i) /\ sp[i].identifier = p /\ sp[i].is_locked

Reaped(g, sp, h) == \A q \in Pids : \A p \in h[q] : g.status[p] = DEAD /\ ~Shut(g, sp, p)

ReapInv == Reaped(Sched, sem_spaces, holding)

\* Only processes that wait for their creation enter a queue.
Admits(k, r) == \A x \in Pids : get_pcb_entry(r, x)
                                  => get_pcb_entry(k, x) \/ x \in Members(k.creation_queue)

LEMMA StopAdmits ==
  ASSUME NEW k, Sound(k)
  PROVE  \A x \in Pids : get_pcb_entry(stop_current_process(k), x) => get_pcb_entry(k, x)
<1>. DEFINE c == k.current_pcb
            n == k.priority[c] - 1
            r == change_process_priority(k, c, n)
            s == [k EXCEPT !.status[c] = READY, !.ticks[c] = 0]
<1>1. /\ k \in SchedState /\ k.queue \in [Priorities -> Seq(Pids)] /\ c \in Pids
      /\ k.priority \in [Pids -> Priorities]
  BY QueueTypes
<1>2. \/ stop_current_process(k) = k \/ stop_current_process(k) = s
      \/ stop_current_process(k) = r /\ k.priority[c] > LOW_PRIORITY
  BY DEF stop_current_process
<1>3. s.queue = k.queue
  BY <1>1 DEF SchedState
<1>4. ASSUME k.priority[c] > LOW_PRIORITY, NEW x \in Pids, get_pcb_entry(r, x) PROVE get_pcb_entry(k, x)
  <2>1. k.priority[c] \in Priorities /\ n \in Priorities
    BY <1>1, <1>4 DEF Priorities, IDLE_PRIORITY, LOW_PRIORITY, HIGH_PRIORITY
  <2>2. CASE ~get_pcb_entry(k, c)
    BY <1>4, <2>2 DEF change_process_priority
  <2>3. CASE get_pcb_entry(k, c)
    <3>. DEFINE old == k.priority[c]
                u == Without(k.queue[old], {c})
                q1 == [k.queue EXCEPT ![old] = u]
                v == Append(q1[n], c)
                q2 == [q1 EXCEPT ![n] = v]
    <3>1. r.queue = q2
      BY <1>1, <2>3 DEF change_process_priority, SchedState
    <3>2. k.queue[old] \in Seq(Pids) /\ u \in Seq(Pids) /\ Members(u) = Members(k.queue[old]) \ {c}
      BY <1>1, <2>1, WithoutMembers
    <3>. HIDE DEF u, r, n, old
    <3>3. \A i \in Priorities : q1[i] \in Seq(Pids) /\ Members(q1[i]) \subseteq Members(k.queue[i])
      BY <1>1, <2>1, <3>2 DEF old
    <3>4. q1 \in [Priorities -> Seq(Pids)]
      BY <1>1, <3>2
    <3>. HIDE DEF q1
    <3>5. Members(v) = Members(q1[n]) \cup {c}
      BY <1>1, <2>1, <3>3, MembersAppend
    <3>6. PICK i \in Priorities : x \in Members(q2[i])
      BY <1>4, <3>1 DEF get_pcb_entry
    <3>7. q2[i] = IF i = n THEN v ELSE q1[i]
      BY <2>1, <3>4
    <3>8. x \in Members(q1[i]) \/ x = c
      BY <3>5, <3>6, <3>7
    <3>. QED  BY <2>3, <3>3, <3>8 DEF get_pcb_entry
  <2>. QED  BY <2>2, <2>3
<1>. HIDE DEF r, s
<1>. QED  BY <1>2, <1>3, <1>4 DEF get_pcb_entry

\* Removal, creation and demotion admit nobody else,
LEMMA PreparedAdmits ==
  ASSUME NEW k, Sound(k), ~k.fault, k.ticks[k.current_pcb] >= quantum
  PROVE  Admits(k, stop_current_process(create_processes_in_creation_queue(
                     kill_processes_in_removal_queue(k))))
<1>. DEFINE killed(i) == {p \in Members(k.waiting_for_remove) : k.priority[p] = i}
            a == kill_processes_in_removal_queue(k)
            b == create_processes_in_creation_queue(a)
            d == stop_current_process(b)
<1>1. /\ k \in SchedState /\ k.queue \in [Priorities -> Seq(Pids)]
  BY QueueTypes
<1>2. Sound(a) /\ a.fault = k.fault
  BY KillQueueSound
<1>3. Sound(b)
  BY <1>2, CreateQueueSound
<1>4. a.queue = [i \in Priorities |-> Without(k.queue[i], killed(i))] /\ a.creation_queue = k.creation_queue
  BY <1>1 DEF kill_processes_in_removal_queue, SchedState
<1>. HIDE DEF killed
<1>5. \A i \in Priorities : Members(a.queue[i]) \subseteq Members(k.queue[i])
  BY <1>1, <1>4, WithoutMembers
<1>. HIDE DEF a
<1>6. a \in SchedState /\ a.queue \in [Priorities -> Seq(Pids)] /\ a.creation_queue \in Seq(Pids)
  BY <1>2, QueueTypes
<1>7. b.queue = [a.queue EXCEPT ![HIGH_PRIORITY] = @ \o a.creation_queue]
  BY <1>6 DEF create_processes_in_creation_queue, SchedState
<1>. HIDE DEF b
<1>8. \A i \in Priorities : Members(b.queue[i]) \subseteq Members(a.queue[i]) \cup Members(a.creation_queue)
  <2>1. Members(a.queue[HIGH_PRIORITY] \o a.creation_queue)
          = Members(a.queue[HIGH_PRIORITY]) \cup Members(a.creation_queue)
    BY <1>6, ConstantFacts, ConcatFacts
  <2>. QED  BY <1>6, <1>7, <2>1
<1>9. \A x \in Pids : get_pcb_entry(b, x) => get_pcb_entry(k, x) \/ x \in Members(k.creation_queue)
  BY <1>4, <1>5, <1>8 DEF get_pcb_entry
<1>10. \A x \in Pids : get_pcb_entry(d, x) => get_pcb_entry(b, x)
  BY <1>3, StopAdmits
<1>. HIDE DEF d
<1>. QED  BY <1>9, <1>10 DEF Admits, a, b, d

\* nor does a context switch,
LEMMA SwitchAdmits ==
  ASSUME NEW k, Sound(k), ~k.fault, k.ticks[k.current_pcb] >= quantum
  PROVE  Admits(k, switch_context(k))
<1>. DEFINE d == stop_current_process(create_processes_in_creation_queue(
                   kill_processes_in_removal_queue(k)))
            r == switch_context(k)
<1>1. Sound(d) /\ Admits(k, d)
  BY PreparedSound, PreparedAdmits
<1>2. r = IF NothingToRun(d) THEN [d EXCEPT !.fault = TRUE] ELSE Dispatch(d, find_next_process(d))
  BY DEF switch_context
<1>. HIDE DEF d, r
<1>3. \A i \in Priorities : Members(r.queue[i]) = Members(d.queue[i])
  <2>1. CASE NothingToRun(d)
    BY <1>1, <1>2, <2>1, QueueTypes DEF SchedState
  <2>2. CASE ~NothingToRun(d)
    BY <1>1, <1>2, <2>2, DispatchFields
  <2>. QED  BY <2>1, <2>2
<1>4. \A x \in Pids : get_pcb_entry(r, x) => get_pcb_entry(d, x)
  BY <1>3 DEF get_pcb_entry
<1>. QED  BY <1>1, <1>4 DEF Admits, r

\* a yield or the timer.
LEMMA TurnAdmits ==
  ASSUME NEW k, Sound(k), ~k.fault
  PROVE  Admits(k, finish_current_tick(k)) /\ Admits(k, timer_interrupt(k))
<1>. DEFINE c == k.current_pcb
            f == [k EXCEPT !.ticks[c] = quantum]
            t == [k EXCEPT !.ticks[c] = @ + 1]
<1>1. k \in SchedState /\ c \in Pids /\ k.ticks[c] \in 0 .. quantum
  BY QueueTypes DEF SchedState
<1>2. /\ f.queue = k.queue /\ f.creation_queue = k.creation_queue /\ t.queue = k.queue
      /\ f.current_pcb = c /\ f.ticks[c] = quantum /\ f.fault = k.fault
  BY <1>1 DEF SchedState
<1>3. Sound(f)
  <2>1. quantum \in 0 .. quantum
    BY ConstantFacts
  <2>. QED  BY <2>1, TicksSound DEF Lawful
<1>. HIDE DEF f, t
<1>4. Admits(f, switch_context(f))
  BY <1>2, <1>3, SwitchAdmits, ConstantFacts
<1>5. Admits(k, finish_current_tick(k))
  BY <1>2, <1>4 DEF finish_current_tick, Admits, get_pcb_entry, f
<1>6. CASE k.ticks[c] < quantum
  <2>1. timer_interrupt(k) = t
    BY <1>6 DEF timer_interrupt, t
  <2>. QED  BY <1>2, <1>5, <2>1 DEF Admits, get_pcb_entry
<1>7. CASE ~(k.ticks[c] < quantum)
  <2>1. timer_interrupt(k) = switch_context(k) /\ k.ticks[c] >= quantum
    BY <1>1, <1>7, ConstantFacts DEF timer_interrupt
  <2>. QED  BY <1>5, <2>1, SwitchAdmits
<1>. QED  BY <1>6, <1>7

\* Going to sleep and a kill: the queues change in a context switch only.
LEMMA BlockAdmits ==
  ASSUME NEW k, Safe(k), k.current_pcb # IDLE_PID, k.status[k.current_pcb] # DEAD
  PROVE  Admits(k, block_current(k))
<1>. DEFINE c == k.current_pcb
            b == [k EXCEPT !.status[c] = BLOCKED]
<1>1. c \in Pids /\ k.status[c] # NONE
  BY QueuedIsHandedOut, QueueTypes DEF Safe
<1>2. Safe(b) /\ SameRest(k, b) /\ SameLists(k, b)
  BY <1>1, SetStatusCalm
<1>3. block_current(k) = finish_current_tick(b)
  BY DEF block_current
<1>. HIDE DEF b
<1>4. Admits(b, finish_current_tick(b))
  BY <1>2, TurnAdmits DEF Safe
<1>. QED  BY <1>2, <1>3, <1>4 DEF Admits, get_pcb_entry, SameRest, SameLists

LEMMA KillAdmits ==
  ASSUME NEW k, Safe(k), NEW p \in Pids, p # IDLE_PID, p # SHELL_PID, get_pcb_entry(k, p), NEW W
  PROVE  Admits(k, kill(k, p, W))
<1>. DEFINE v == os_revive_process(k, W)
            d == [v EXCEPT !.status[p] = DEAD]
            e == add_process_to_removal_queue(d, p)
            r == kill(k, p, W)
<1>1. r = IF p = k.current_pcb THEN finish_current_tick(e) ELSE e
  BY DEF kill
<1>2. /\ Safe(v) /\ SameRest(k, v) /\ SameLists(k, v)
      /\ \A x \in Pids : v.status[x] = IF /\ x \in W /\ get_pcb_entry(k, x)
                                          /\ k.status[x] \in {BLOCKED, RUNNING}
                                       THEN READY ELSE k.status[x]
  BY ReviveCalm
<1>3. k.status[p] # NONE
  BY QueuedIsHandedOut DEF Safe
<1>. HIDE DEF v, r
<1>4. v.status[p] # NONE
  BY <1>2, <1>3 DEF READY, NONE
<1>5. /\ Safe(d) /\ SameRest(v, d) /\ SameLists(v, d)
      /\ \A x \in Pids : d.status[x] = IF x = p THEN DEAD ELSE v.status[x]
  BY <1>2, <1>4, SetStatusCalm
<1>. HIDE DEF d
<1>6. Safe(e) /\ SameRest(d, e) /\ e.creation_queue = d.creation_queue
  BY <1>5, RemovalCalm
<1>. HIDE DEF e
<1>7. e.queue = k.queue /\ e.creation_queue = k.creation_queue
  BY <1>2, <1>5, <1>6 DEF SameRest, SameLists
<1>8. Admits(e, finish_current_tick(e))
  BY <1>6, TurnAdmits DEF Safe
<1>. QED  BY <1>1, <1>7, <1>8 DEF Admits, get_pcb_entry, r

\* The dead stay dead and enter no queue; no semaphore of theirs is locked again.
Fades(g, r) == \A x \in Pids : g.status[x] = DEAD => /\ r.status[x] = DEAD
                                                     /\ get_pcb_entry(r, x) => get_pcb_entry(g, x)

Unlocks(g, sp, t) ==
  \A i \in Slots : Busy(t, i) /\ t[i].is_locked =>
     \/ Busy(sp, i) /\ sp[i].is_locked /\ t[i].identifier = sp[i].identifier
     \/ g.status[t[i].identifier] # DEAD

LEMMA ReapedStays ==
  ASSUME NEW g, NEW sp, NEW h, Reaped(g, sp, h), h \in [Pids -> SUBSET Pids], NEW r, NEW t,
         Fades(g, r), Unlocks(g, sp, t)
  PROVE  Reaped(r, t, h)
<1>. SUFFICES ASSUME NEW q \in Pids, NEW p \in h[q] PROVE r.status[p] = DEAD /\ ~Shut(r, t, p)
  BY DEF Reaped
<1>1. p \in Pids /\ g.status[p] = DEAD /\ ~Shut(g, sp, p)
  BY DEF Reaped
<1>2. r.status[p] = DEAD /\ (get_pcb_entry(r, p) => get_pcb_entry(g, p))
  BY <1>1 DEF Fades
<1>3. ASSUME Shut(r, t, p) PROVE FALSE
  <2>1. PICK i \in Slots : Busy(t, i) /\ t[i].identifier = p /\ t[i].is_locked
    BY <1>3 DEF Shut
  <2>2. Busy(sp, i) /\ sp[i].is_locked /\ sp[i].identifier = p
    BY <1>1, <2>1 DEF Unlocks
  <2>. QED  BY <1>1, <1>2, <1>3, <2>2 DEF Shut
<1>. QED  BY <1>2, <1>3

\* Whoever waits for its creation lives.
LEMMA DeadFade ==
  ASSUME NEW g, NEW fg, NEW sp, NEW a, NEW h, LifeState(g, fg, sp, a, h), NEW r, Admits(g, r),
         \A x \in Pids : g.status[x] = DEAD => r.status[x] = DEAD
  PROVE  Fades(g, r)
<1>1. AllLive(g, fg, a)
  BY LifeFacts
<1>2. \A x \in Members(g.creation_queue) : g.status[x] # DEAD
  BY <1>1 DEF AllLive, Fresh, Lives
<1>. QED  BY <1>2 DEF Fades, Admits

\* A context switch or a tick, creating a process,
LEMMA TurnReaped ==
  ASSUME LifeInv, ReapInv, TimerInterrupt \/ SysYield \/ ExitFinish
  PROVE  ReapInv'
<1>0. LifeState(Sched, foreground_pid, sem_spaces, at, holding) /\ Safe(Sched)
      /\ holding \in [Pids -> SUBSET Pids]
  BY LifeFacts DEF LifeInv
<1>1. sem_spaces' = sem_spaces /\ holding' = holding
  BY TimerEffect, YieldEffect
<1>. DEFINE r == Sched'
<1>2. Admits(Sched, r) /\ \A x \in Pids : Sched.status[x] = DEAD => r.status[x] = DEAD
  <2>1. CASE TimerInterrupt
    <3>1. r = timer_interrupt(Sched)
      BY <2>1, TimerEffect
    <3>. HIDE DEF r
    <3>2. Switched(Sched, r) \/ r.status = Sched.status
      BY <1>0, <3>1, TimerCalm
    <3>. QED  BY <1>0, <3>1, <3>2, TurnAdmits DEF Safe, Switched, Alike
  <2>2. CASE SysYield \/ ExitFinish
    <3>1. r = finish_current_tick(Sched)
      BY <2>2, YieldEffect
    <3>. HIDE DEF r
    <3>2. Switched(Sched, r)
      BY <1>0, <3>1, FinishTickCalm
    <3>. QED  BY <1>0, <3>1, <3>2, TurnAdmits DEF Safe, Switched, Alike
  <2>. QED  BY <2>1, <2>2
<1>. HIDE DEF r
<1>3. Fades(Sched, r)
  BY <1>0, <1>2, DeadFade
<1>4. Unlocks(Sched, sem_spaces, sem_spaces)
  BY DEF Unlocks
<1>5. Reaped(r, sem_spaces, holding)
  BY <1>0, <1>3, <1>4, ReapedStays DEF ReapInv
<1>. QED  BY <1>1, <1>5 DEF ReapInv, r

LEMMA CreateAdmits ==
  ASSUME NEW k, Safe(k), k.pid =< MaxPid, NEW r,
         r = create_and_insert_process(k) \/ r = add_process_to_creation_queue(k)
  PROVE  \A x \in Pids : get_pcb_entry(r, x) => get_pcb_entry(k, x) \/ x = k.pid
<1>. DEFINE b == create_process(k)
<1>1. k.queue \in [Priorities -> Seq(Pids)] /\ Good(b) /\ k.pid \in Pids
  BY CreateFields, QueueTypes DEF Safe
<1>2. b.queue = k.queue
  BY CreateFields DEF Safe
<1>3. r = add_new_process(b, k.pid) \/ r = [b EXCEPT !.creation_queue = Append(@, k.pid)]
  BY DEF create_and_insert_process, add_process_to_creation_queue
<1>. HIDE DEF b
<1>4. CASE r = add_new_process(b, k.pid)
  <2>. DEFINE q == Append(b.queue[HIGH_PRIORITY], k.pid)
  <2>1. r.queue = [b.queue EXCEPT ![HIGH_PRIORITY] = q]
    BY <1>1, <1>4 DEF add_new_process, Good, SchedState
  <2>2. Members(q) = Members(b.queue[HIGH_PRIORITY]) \cup {k.pid} /\ HIGH_PRIORITY \in Priorities
    BY <1>1, <1>2, ConstantFacts, MembersAppend
  <2>. HIDE DEF q
  <2>3. \A i \in Priorities : Members(r.queue[i]) \subseteq Members(k.queue[i]) \cup {k.pid}
    BY <1>1, <1>2, <2>1, <2>2
  <2>. QED  BY <2>3 DEF get_pcb_entry
<1>5. CASE r = [b EXCEPT !.creation_queue = Append(@, k.pid)]
  <2>1. r.queue = b.queue
    BY <1>1, <1>5 DEF Good, SchedState
  <2>. QED  BY <1>2, <2>1 DEF get_pcb_entry
<1>. QED  BY <1>3, <1>4, <1>5

LEMMA CreateReaped ==
  ASSUME LifeInv, ReapInv, NEW fore \in BOOLEAN, SysCreate(fore) \/ SysPs
  PROVE  ReapInv'
<1>. DEFINE n == Sched.pid
            c == Sched.current_pcb
            r == Sched'
            t == OpenTable(sem_spaces, 1, n, c)
<1>0. /\ LifeState(Sched, foreground_pid, sem_spaces, at, holding) /\ Safe(Sched) /\ n =< MaxPid
      /\ holding \in [Pids -> SUBSET Pids] /\ sem_spaces \in Table /\ c \in Pids
  BY LifeFacts, SchedFields DEF LifeInv, SysCreate, SysPs
<1>1. /\ r = create_and_insert_process(Sched) \/ r = add_process_to_creation_queue(Sched)
      /\ sem_spaces' = t /\ holding' = holding
  BY CreateEffect, PsEffect, SchedFields
<1>. HIDE DEF r
<1>2. /\ Sched.status[n] = NONE
      /\ \A x \in Pids : r.status[x] = IF x = n THEN READY ELSE Sched.status[x]
  BY <1>0, <1>1, CreateCalm, CreateLaterCalm
<1>3. Fades(Sched, r)
  BY <1>0, <1>1, <1>2, CreateAdmits DEF Fades, NONE, DEAD
<1>4. Unlocks(Sched, sem_spaces, t)
  <2>. DEFINE i == Slot(sem_spaces, n)
              free == {j \in Slots : sem_spaces[j].status = "AVAILABLE"}
              f == Smallest(free)
  <2>1. CASE i # NOT_FOUND
    <3>. DEFINE q == Append(sem_spaces[i].allowed_processes, c)
    <3>1. t = [sem_spaces EXCEPT ![i].allowed_processes = q]
      BY <2>1 DEF OpenTable
    <3>2. i \in Slots
      BY <2>1, SlotFacts
    <3>. HIDE DEF t, i
    <3>3. q \in Seq(Pids \cup {NOBODY})
      BY <1>0, <3>2, SlotTypes
    <3>. HIDE DEF q
    <3>4. Reallowed(sem_spaces, t, i, q)
      BY <1>0, <3>1, <3>2, <3>3, SetAllowed
    <3>. QED  BY <3>4 DEF Unlocks, Busy, Reallowed
  <2>2. CASE i = NOT_FOUND /\ free # {}
    <3>1. t = [sem_spaces EXCEPT ![f] = Opened(n, 1, c)]
      BY <2>2 DEF OpenTable
    <3>2. Opened(n, 1, c).identifier = n
      BY DEF Opened
    <3>. HIDE DEF f
    <3>3. \A j \in Slots : t[j] = sem_spaces[j] \/ t[j].identifier = n
      BY <1>0, <3>1, <3>2 DEF Table
    <3>. HIDE DEF t, n
    <3>. QED  BY <1>2, <3>3 DEF Unlocks, Busy, NONE, DEAD
  <2>3. CASE i = NOT_FOUND /\ free = {}
    BY <2>3 DEF OpenTable, Unlocks
  <2>. QED  BY <2>1, <2>2, <2>3
<1>. HIDE DEF t
<1>5. Reaped(r, t, holding)
  BY <1>0, <1>3, <1>4, ReapedStays DEF ReapInv
<1>. QED  BY <1>1, <1>5 DEF ReapInv, r

\* force_kill leaves the semaphore of the process it kills open.
LEMMA KillReaped ==
  ASSUME NEW g, NEW fg, NEW sp, NEW a, NEW h, LifeState(g, fg, sp, a, h), NEW p \in Clients,
         get_pcb_entry(g, p)
  PROVE  LET r == kill(g, p, PostWakes(sp, p))
             t == PostTable(sp, p)
         IN  /\ Fades(g, r) /\ Unlocks(g, sp, t) /\ r.status[p] = DEAD
             /\ \A i \in Slots : Busy(t, i) /\ t[i].identifier = p => ~t[i].is_locked
<1>. DEFINE W == PostWakes(sp, p)
            r == kill(g, p, W)
            t == PostTable(sp, p)
            i == Slot(sp, p)
<1>1. /\ Safe(g) /\ sp \in Table /\ OneSlot(sp) /\ p \in Pids /\ p # SHELL_PID /\ p # IDLE_PID
  BY LifeFacts, KernelConstants, WiredFacts
<1>2. \A x \in Pids : r.status[x] = DEAD <=> x = p \/ g.status[x] = DEAD
  BY <1>1, KillCalm
<1>3. Admits(g, r)
  BY <1>1, KillAdmits
<1>. HIDE DEF r
<1>4. Fades(g, r)
  BY <1>2, <1>3, DeadFade
<1>5. /\ i = NOT_FOUND => t = sp
      /\ i # NOT_FOUND => Posted(sp, p, i, t, W)
  BY <1>1, PostFacts
<1>6. i = NOT_FOUND => \A j \in Slots : Busy(sp, j) => sp[j].identifier # p
  BY SlotFacts
<1>. HIDE DEF t, W, i
<1>7. CASE i = NOT_FOUND
  BY <1>1, <1>2, <1>4, <1>5, <1>6, <1>7 DEF Unlocks, r, t, W
<1>8. CASE i # NOT_FOUND
  <2>1. /\ i \in Slots /\ Busy(sp, i) /\ sp[i].identifier = p /\ ~t[i].is_locked
        /\ \A j \in Slots : /\ t[j].status = sp[j].status /\ t[j].identifier = sp[j].identifier
                            /\ j # i => t[j] = sp[j]
    BY <1>5, <1>8 DEF Posted
  <2>2. \A j \in Slots : Busy(t, j) /\ t[j].identifier = p => j = i
    BY <1>1, <2>1 DEF OneSlot, Busy
  <2>3. Unlocks(g, sp, t)
    BY <2>1 DEF Unlocks, Busy
  <2>4. \A j \in Slots : Busy(t, j) /\ t[j].identifier = p => ~t[j].is_locked
    BY <2>1, <2>2
  <2>. QED  BY <1>1, <1>2, <1>4, <2>3, <2>4 DEF r, t, W
<1>. QED  BY <1>7, <1>8

\* A kill, by a system call, by Ctrl-C, or by a waitpid that did not have to wait,
LEMMA PassReaped ==
  ASSUME LifeInv, ReapInv, NEW p \in Killable, Passes(p)
  PROVE  ReapInv'
<1>1. LifeState(Sched, foreground_pid, sem_spaces, at, holding) /\ holding \in [Pids -> SUBSET Pids]
  BY LifeFacts DEF LifeInv
<1>2. CASE Reaps(Sched, p)
  <2>. DEFINE r == kill(Sched, p, PostWakes(sem_spaces, p))
              t == PostTable(sem_spaces, p)
  <2>1. p \in Clients /\ get_pcb_entry(Sched, p)
    BY <1>2 DEF Reaps, Killable
  <2>2. Sched' = r /\ sem_spaces' = t /\ holding' = holding
    BY <1>2 DEF Passes, ReapSched, ReapTable
  <2>3. Fades(Sched, r) /\ Unlocks(Sched, sem_spaces, t)
    BY <1>1, <2>1, KillReaped
  <2>. HIDE DEF r, t
  <2>4. Reaped(r, t, holding)
    BY <1>1, <2>3, ReapedStays DEF ReapInv
  <2>. QED  BY <2>2, <2>4 DEF ReapInv
<1>3. CASE ~Reaps(Sched, p)
  <2>1. Sched' = Sched /\ sem_spaces' = sem_spaces /\ holding' = holding
    BY <1>3, PassesNothing
  <2>. QED  BY <2>1 DEF ReapInv
<1>. QED  BY <1>2, <1>3

\* Whoever takes the lock of a process that is done kills it and opens the lock
\* again, or the process is in no queue any more.
LEMMA TakeReaped ==
  ASSUME LifeInv, ReapInv, NEW n, NEW i, Asks(Sched, sem_spaces, at, holding, n, i), Takes(n, i)
  PROVE  ReapInv'
<1>. DEFINE c == Sched.current_pcb
            t == [sem_spaces EXCEPT ![i].is_locked = TRUE]
            u == [at EXCEPT ![c] = User]
            h == [holding EXCEPT ![c] = @ \cup {n}]
<1>1. LifeState(Sched, foreground_pid, sem_spaces, at, holding)
  BY DEF LifeInv
<1>2. /\ n \in Clients /\ i \in Slots /\ Busy(sem_spaces, i) /\ sem_spaces[i].identifier = n
      /\ sem_spaces[i].allowed_processes[1] = c /\ c # IDLE_PID /\ at[c].op \in {"user", "wait"}
  BY DEF Asks
<1>3. /\ holding \in [Pids -> SUBSET Pids] /\ sem_spaces \in Table /\ Placed(Sched, at)
      /\ Wired(Sched.status, sem_spaces, at, holding, Sched.pid) /\ Sound(Sched)
      /\ AllLive(Sched, foreground_pid, at) /\ c \in Pids /\ n \in Pids
  BY <1>1, <1>2, LifeFacts, KernelConstants
<1>4. LifeState(Sched, foreground_pid, t, u, h)
  BY <1>1, <1>2, TakeLife
<1>5. /\ Sched' = ReapSched(Sched, t, n) /\ sem_spaces' = ReapTable(Sched, t, n)
      /\ holding' = h /\ ~sem_spaces[i].is_locked
  BY SchedFields DEF Takes
<1>6. Relocked(sem_spaces, t, i)
  BY <1>2, <1>3, SetLock
<1>7. \A q \in Pids : h[q] \subseteq holding[q] \cup {n}
  BY <1>3
<1>. HIDE DEF t, u, h
<1>8. \A j \in Slots : /\ t[j].status = sem_spaces[j].status /\ t[j].identifier = sem_spaces[j].identifier
                       /\ j # i => t[j] = sem_spaces[j]
  BY <1>6 DEF Relocked
<1>9. CASE Reaps(Sched, n)
  <2>. DEFINE r == kill(Sched, n, PostWakes(t, n))
              s == PostTable(t, n)
  <2>1. Sched' = r /\ sem_spaces' = s
    BY <1>5, <1>9 DEF ReapSched, ReapTable
  <2>2. get_pcb_entry(Sched, n)
    BY <1>9 DEF Reaps
  <2>3. /\ Fades(Sched, r) /\ Unlocks(Sched, t, s) /\ r.status[n] = DEAD
        /\ \A j \in Slots : Busy(s, j) /\ s[j].identifier = n => ~s[j].is_locked
    BY <1>2, <1>4, <2>2, KillReaped
  <2>. HIDE DEF r, s
  <2>4. Unlocks(Sched, sem_spaces, s)
    <3>. SUFFICES ASSUME NEW j \in Slots, Busy(s, j), s[j].is_locked, Sched.status[s[j].identifier] = DEAD
                  PROVE  Busy(sem_spaces, j) /\ sem_spaces[j].is_locked
                         /\ s[j].identifier = sem_spaces[j].identifier
      BY DEF Unlocks
    <3>1. Busy(t, j) /\ t[j].is_locked /\ s[j].identifier = t[j].identifier /\ s[j].identifier # n
      BY <2>3 DEF Unlocks
    <3>2. j # i
      BY <1>2, <1>8, <3>1
    <3>. QED  BY <1>8, <3>1, <3>2 DEF Busy
  <2>5. Reaped(r, s, holding)
    BY <1>3, <2>3, <2>4, ReapedStays DEF ReapInv
  <2>6. ~Shut(r, s, n)
    BY <2>3 DEF Shut
  <2>7. Reaped(r, s, h)
    BY <1>7, <2>3, <2>5, <2>6 DEF Reaped
  <2>. QED  BY <1>5, <2>1, <2>7 DEF ReapInv
<1>10. CASE ~Reaps(Sched, n)
  <2>1. Sched' = Sched /\ sem_spaces' = t
    BY <1>5, <1>10 DEF ReapSched, ReapTable
  <2>2. ~get_pcb_entry(Sched, n)
    BY <1>2, <1>3, <1>10, KernelConstants DEF Reaps
  <2>3. Done(Sched.status, at, n)
    BY <1>2, <1>3, <1>5 DEF Wired, Locks
  <2>4. Sched.status[n] = DEAD
    <3>. SUFFICES ASSUME Sched.status[n] # DEAD PROVE FALSE
      OBVIOUS
    <3>1. at[n].op # "user"
      BY <2>3 DEF Done
    <3>2. Sched.status[n] # NONE
      BY <1>3, <3>1 DEF Placed
    <3>3. n \notin Members(Sched.creation_queue)
      BY <1>3, <3>1 DEF AllLive, Fresh
    <3>. QED  BY <1>3, <2>2, <3>2, <3>3, EntryFacts
  <2>5. ASSUME NEW p \in Pids, p # n, Shut(Sched, t, p) PROVE Shut(Sched, sem_spaces, p)
    <3>1. PICK j \in Slots : Busy(t, j) /\ t[j].identifier = p /\ t[j].is_locked
      BY <2>5 DEF Shut
    <3>2. t[j] = sem_spaces[j]
      BY <1>2, <1>8, <2>5, <3>1
    <3>. QED  BY <2>5, <3>1, <3>2 DEF Shut, Busy
  <2>6. ~Shut(Sched, t, n)
    BY <2>2 DEF Shut
  <2>7. Reaped(Sched, t, h)
    <3>. SUFFICES ASSUME NEW q \in Pids, NEW p \in h[q] PROVE Sched.status[p] = DEAD /\ ~Shut(Sched, t, p)
      BY DEF Reaped
    <3>1. CASE p = n
      BY <2>4, <2>6, <3>1
    <3>2. CASE p # n
      <4>1. p \in holding[q] /\ p \in Pids
        BY <1>3, <1>7, <3>2
      <4>. QED  BY <2>5, <3>2, <4>1 DEF ReapInv, Reaped
    <3>. QED  BY <3>1, <3>2
  <2>. QED  BY <1>5, <2>1, <2>7 DEF ReapInv
<1>. QED  BY <1>9, <1>10

\* going to sleep,
LEMMA SleepReaped ==
  ASSUME LifeInv, ReapInv, NEW n, NEW i, Asks(Sched, sem_spaces, at, holding, n, i), Sleeps(n, i)
  PROVE  ReapInv'
<1>. DEFINE c == Sched.current_pcb
            r == block_current(Sched)
            q == Append(sem_spaces[i].queue, c)
            t == [sem_spaces EXCEPT ![i].queue = q]
<1>1. LifeState(Sched, foreground_pid, sem_spaces, at, holding)
  BY DEF LifeInv
<1>2. i \in Slots /\ c # IDLE_PID /\ at[c].op \in {"user", "wait"}
  BY DEF Asks
<1>3. /\ holding \in [Pids -> SUBSET Pids] /\ sem_spaces \in Table /\ Safe(Sched) /\ c \in Pids
      /\ Sched.status[c] # DEAD
  BY <1>1, <1>2, LifeFacts, AliveNow
<1>4. Sched' = r /\ sem_spaces' = t /\ holding' = holding
  BY SchedFields DEF Sleeps
<1>5. Admits(Sched, r) /\ \A x \in Pids : r.status[x] = DEAD <=> Sched.status[x] = DEAD
  BY <1>2, <1>3, BlockAdmits, BlockCalm
<1>. HIDE DEF r
<1>6. Fades(Sched, r)
  BY <1>1, <1>5, DeadFade
<1>7. q \in Seq(Pids)
  BY <1>2, <1>3, SlotTypes
<1>. HIDE DEF q
<1>8. Requeued(sem_spaces, t, i, q)
  BY <1>2, <1>3, <1>7, SetQueue
<1>. HIDE DEF t
<1>9. Unlocks(Sched, sem_spaces, t)
  BY <1>8 DEF Requeued, Unlocks, Busy
<1>10. Reaped(r, t, holding)
  BY <1>3, <1>6, <1>9, ReapedStays DEF ReapInv
<1>. QED  BY <1>4, <1>10 DEF ReapInv

\* and returning from the entry point.
LEMMA ExitReaped ==
  ASSUME LifeInv, ReapInv, Exit
  PROVE  ReapInv'
<1>. DEFINE c == Sched.current_pcb
<1>1. /\ LifeState(Sched, foreground_pid, sem_spaces, at, holding) /\ c = current_pcb
      /\ holding \in [Pids -> SUBSET Pids] /\ sem_spaces \in Table /\ Safe(Sched) /\ Sched \in SchedState
      /\ c \in Pids
  BY LifeFacts, SchedFields DEF LifeInv
<1>2. CASE ExitStart
  BY <1>2, ExitStartEffect DEF ReapInv
<1>3. CASE ExitUnlock
  <2>. DEFINE i == Slot(sem_spaces, c)
  <2>1. /\ Sched' = Sched /\ holding' = holding
        /\ sem_spaces' = sem_spaces \/ sem_spaces' = UnlockTable(sem_spaces, i)
        /\ i = NOT_FOUND => sem_spaces' = sem_spaces
    BY <1>1, <1>3, ExitUnlockEffect
  <2>2. CASE i # NOT_FOUND
    <3>. DEFINE t == UnlockTable(sem_spaces, i)
    <3>1. i \in Slots
      BY <2>2, SlotFacts
    <3>2. Relocked(sem_spaces, t, i) /\ ~t[i].is_locked
      BY <1>1, <3>1, UnlockFacts
    <3>. HIDE DEF t, i
    <3>3. Unlocks(Sched, sem_spaces, t)
      BY <3>2 DEF Relocked, Unlocks, Busy
    <3>4. Fades(Sched, Sched)
      BY DEF Fades
    <3>5. Reaped(Sched, t, holding)
      BY <1>1, <3>3, <3>4, ReapedStays DEF ReapInv
    <3>6. sem_spaces' = sem_spaces \/ sem_spaces' = t
      BY <2>1 DEF t
    <3>. QED  BY <2>1, <3>5, <3>6 DEF ReapInv
  <2>3. CASE i = NOT_FOUND
    BY <2>1, <2>3 DEF ReapInv
  <2>. QED  BY <2>2, <2>3
<1>4. CASE ExitWake
  <2>. DEFINE i == at[c].slot
              W == Members(First(sem_spaces[i].queue))
              g == os_revive_process(Sched, W)
              t == WakeTable(sem_spaces, i)
  <2>1. at[c].op = "wake"
    BY <1>1, <1>4 DEF ExitWake, Exiting
  <2>2. Sched' = g /\ sem_spaces' = t /\ holding' = holding
    BY <1>1, <1>4, ExitWakeEffect
  <2>3. Sched.status[c] # DEAD
    BY <1>1, <2>1, LifeFacts DEF Leaving
  <2>4. i \in Slots
    BY <1>1, <2>1, <2>3, LifeFacts DEF Wired, Wakers
  <2>5. Requeued(sem_spaces, t, i, Rest(sem_spaces[i].queue))
    BY <1>1, <2>4, WakeFacts
  <2>. HIDE DEF t, W
  <2>6. Unlocks(Sched, sem_spaces, t)
    BY <2>5 DEF Requeued, Unlocks, Busy
  <2>7. /\ SameRest(Sched, g)
        /\ \A x \in Pids : g.status[x] = IF /\ x \in W /\ get_pcb_entry(Sched, x)
                                            /\ Sched.status[x] \in {BLOCKED, RUNNING}
                                         THEN READY ELSE Sched.status[x]
    BY <1>1, ReviveCalm
  <2>. HIDE DEF g
  <2>8. Fades(Sched, g)
    BY <2>7 DEF Fades, SameRest, get_pcb_entry, DEAD, BLOCKED, RUNNING
  <2>9. Reaped(g, t, holding)
    BY <1>1, <2>6, <2>8, ReapedStays DEF ReapInv
  <2>. QED  BY <2>2, <2>9 DEF ReapInv
<1>5. CASE ExitDie \/ ExitRemove
  <2>. DEFINE g == Sched'
  <2>1. /\ g = [Sched EXCEPT !.status[c] = DEAD] \/ g = add_process_to_removal_queue(Sched, c)
        /\ sem_spaces' = sem_spaces /\ holding' = holding
    BY <1>1, <1>5, ExitDieEffect, ExitRemoveEffect
  <2>. HIDE DEF g
  <2>2. g.queue = Sched.queue /\ \A x \in Pids : Sched.status[x] = DEAD => g.status[x] = DEAD
    BY <1>1, <2>1 DEF SchedState, add_process_to_removal_queue
  <2>3. Fades(Sched, g) /\ Unlocks(Sched, sem_spaces, sem_spaces)
    BY <2>2 DEF Fades, Unlocks, get_pcb_entry
  <2>4. Reaped(g, sem_spaces, holding)
    BY <1>1, <2>3, ReapedStays DEF ReapInv
  <2>. QED  BY <2>1, <2>4 DEF ReapInv, g
<1>6. CASE ExitFinish
  BY <1>6, TurnReaped
<1>. QED  BY <1>2, <1>3, <1>4, <1>5, <1>6 DEF Exit

\* What a process that calls waitpid finds: a semaphore of its own child, or none.
LEMMA WaitpidAsks ==
  ASSUME LifeInv, ReapInv, NEW p \in Clients, SysWaitpid(p)
  PROVE  \/ Passes(p)
         \/ \E i : Asks(Sched, sem_spaces, at, holding, p, i) /\ (Takes(p, i) \/ Sleeps(p, i))
<1>. DEFINE c == Sched.current_pcb
            i == Slot(sem_spaces, p)
<1>1. LifeState(Sched, foreground_pid, sem_spaces, at, holding) /\ c = current_pcb
  BY SchedFields DEF LifeInv
<1>2. /\ Sched \in SchedState /\ Wired(Sched.status, sem_spaces, at, holding, Sched.pid)
      /\ c \in Pids /\ p \in Pids
  BY <1>1, LifeFacts, KernelConstants
<1>3. c # IDLE_PID /\ at[c].op = "user"
  BY <1>1, RunningFacts DEF SysWaitpid
<1>4. \/ /\ get_pcb_entry(Sched, p) /\ i # NOT_FOUND
         /\ c \in Members(sem_spaces[i].allowed_processes)
         /\ Takes(p, i) \/ Sleeps(p, i)
      \/ Passes(p)
  BY <1>1, <1>2, WaitpidEffect
<1>5. CASE /\ get_pcb_entry(Sched, p) /\ i # NOT_FOUND
           /\ c \in Members(sem_spaces[i].allowed_processes)
           /\ Takes(p, i) \/ Sleeps(p, i)
  <2>1. i \in Slots /\ Busy(sem_spaces, i) /\ sem_spaces[i].identifier = p
    BY <1>5, SlotFacts
  <2>. HIDE DEF i
  <2>2. Len(sem_spaces[i].allowed_processes) = 1
    BY <1>2, <2>1 DEF Wired, Wiring
  <2>3. sem_spaces[i].allowed_processes[1] = c
    BY <1>5, <2>2 DEF Members
  <2>4. sem_spaces[i].is_locked => \A q \in Pids : p \notin holding[q]
    BY <1>5, <2>1 DEF ReapInv, Reaped, Shut
  <2>5. Asks(Sched, sem_spaces, at, holding, p, i)
    BY <1>3, <2>1, <2>3, <2>4 DEF Asks
  <2>. QED  BY <1>5, <2>5
<1>. QED  BY <1>4, <1>5

\* waitpid,
LEMMA WaitpidLives ==
  ASSUME LifeInv, ReapInv, NEW p \in Clients, SysWaitpid(p)
  PROVE  LifeInv'
<1>1. CASE Passes(p)
  <2>1. p \in Killable
    BY DEF Killable
  <2>. QED  BY <1>1, <2>1, KillLives
<1>2. ASSUME NEW i, Asks(Sched, sem_spaces, at, holding, p, i), Takes(p, i) \/ Sleeps(p, i)
      PROVE  LifeInv'
  BY <1>2, EnterLives
<1>. QED  BY <1>1, <1>2, WaitpidAsks

\* A process returns from its entry point.
LEMMA ExitLives ==
  ASSUME LifeInv, Exit
  PROVE  LifeInv'
<1>. DEFINE c == Sched.current_pcb
<1>1. LifeState(Sched, foreground_pid, sem_spaces, at, holding) /\ c = current_pcb
  BY SchedFields DEF LifeInv
<1>2. \A op \in {"unlock", "die", "remove", "finish"} : /\ Goes(op, 0) \in Place /\ Goes(op, 0).op = op
  BY DEF Goes, Place
<1>3. CASE ExitStart
  <2>. DEFINE f == IF foreground_pid = c THEN SHELL_PID ELSE foreground_pid
              x == Goes("unlock", 0)
              a == [at EXCEPT ![c] = x]
  <2>1. at[c].op = "user" /\ c # IDLE_PID /\ c # SHELL_PID
    BY <1>1, <1>3, RunningFacts DEF ExitStart
  <2>2. (f = foreground_pid \/ f = SHELL_PID) /\ f # c
    BY <2>1
  <2>3. Sched' = Sched /\ sem_spaces' = sem_spaces /\ holding' = holding /\ at' = a /\ Moved(f)
    BY <1>1, <1>3, ExitStartEffect
  <2>. HIDE DEF f, x
  <2>4. x \in Place /\ x.op = "unlock"
    BY <1>2 DEF x
  <2>5. \/ x.op = "unlock" /\ at[c].op = "user"
        \/ x.op = "die" /\ at[c].op = "unlock" /\ Slot(sem_spaces, c) = NOT_FOUND
    BY <2>1, <2>4
  <2>6. LifeState(Sched, f, sem_spaces, a, holding)
    BY <1>1, <2>1, <2>2, <2>4, <2>5, MoveLife
  <2>. HIDE DEF a
  <2>. QED  BY <2>3, <2>6, ForeStays, Settles
<1>4. CASE ExitUnlock
  <2>. DEFINE i == Slot(sem_spaces, c)
  <2>1. at[c].op = "unlock"
    BY <1>1, <1>4 DEF ExitUnlock, Exiting
  <2>2. CASE i = NOT_FOUND
    <3>. DEFINE x == Goes("die", 0)
                a == [at EXCEPT ![c] = x]
    <3>1. Sched' = Sched /\ sem_spaces' = sem_spaces /\ holding' = holding /\ at' = a /\ Moved(foreground_pid)
      BY <1>1, <1>4, <2>2, ExitUnlockEffect
    <3>. HIDE DEF x
    <3>2. x \in Place /\ x.op = "die"
      BY <1>2 DEF x
    <3>3. foreground_pid # c /\ c # SHELL_PID /\ c # IDLE_PID
      BY <1>1, <2>1, GoneFromView
    <3>4. LifeState(Sched, foreground_pid, sem_spaces, a, holding)
      BY <1>1, <2>1, <2>2, <3>2, <3>3, MoveLife
    <3>. HIDE DEF a
    <3>. QED  BY <3>1, <3>4, ForeStays, Settles
  <2>3. CASE i # NOT_FOUND
    <3>. DEFINE a == [at EXCEPT ![c] = Goes("wake", i)]
                t == UnlockTable(sem_spaces, i)
    <3>1. Sched' = Sched /\ sem_spaces' = t /\ holding' = holding /\ at' = a /\ Moved(foreground_pid)
      BY <1>1, <1>4, <2>3, ExitUnlockEffect
    <3>2. LifeState(Sched, foreground_pid, t, a, holding)
      BY <1>1, <2>1, <2>3, UnlockLife
    <3>. HIDE DEF a, t
    <3>. QED  BY <3>1, <3>2, ForeStays, Settles
  <2>. QED  BY <2>2, <2>3
<1>5. CASE ExitWake
  <2>. DEFINE i == at[c].slot
              g == os_revive_process(Sched, Members(First(sem_spaces[i].queue)))
              t == WakeTable(sem_spaces, i)
              a == [at EXCEPT ![c] = Goes("die", 0)]
  <2>1. at[c].op = "wake"
    BY <1>1, <1>5 DEF ExitWake, Exiting
  <2>2. Sched' = g /\ sem_spaces' = t /\ holding' = holding /\ at' = a /\ Moved(foreground_pid)
    BY <1>1, <1>5, ExitWakeEffect
  <2>3. LifeState(g, Fore(Sched, g, foreground_pid), t, a, holding)
    BY <1>1, <2>1, WakeLife
  <2>. HIDE DEF g, t, a
  <2>. QED  BY <2>2, <2>3, Settles
<1>6. CASE ExitDie
  <2>. DEFINE g == [Sched EXCEPT !.status[c] = DEAD]
              x == Goes("remove", 0)
              a == [at EXCEPT ![c] = x]
  <2>1. at[c].op = "die"
    BY <1>1, <1>6 DEF ExitDie, Exiting
  <2>2. Sched' = g /\ sem_spaces' = sem_spaces /\ holding' = holding /\ at' = a /\ Moved(foreground_pid)
    BY <1>1, <1>6, ExitDieEffect
  <2>. HIDE DEF x
  <2>3. x \in Place /\ x.op = "remove"
    BY <1>2 DEF x
  <2>4. LifeState(g, Fore(Sched, g, foreground_pid), sem_spaces, a, holding)
    BY <1>1, <2>1, <2>3, LeaveLife
  <2>. HIDE DEF g, a
  <2>. QED  BY <2>2, <2>4, Settles
<1>7. CASE ExitRemove
  <2>. DEFINE g == add_process_to_removal_queue(Sched, c)
              x == Goes("finish", 0)
              a == [at EXCEPT ![c] = x]
  <2>1. at[c].op = "remove"
    BY <1>1, <1>7 DEF ExitRemove, Exiting
  <2>2. Sched' = g /\ sem_spaces' = sem_spaces /\ holding' = holding /\ at' = a /\ Moved(foreground_pid)
    BY <1>1, <1>7, ExitRemoveEffect
  <2>. HIDE DEF x
  <2>3. x \in Place /\ x.op = "finish"
    BY <1>2 DEF x
  <2>4. LifeState(g, Fore(Sched, g, foreground_pid), sem_spaces, a, holding)
    BY <1>1, <2>1, <2>3, LeaveLife
  <2>. HIDE DEF g, a
  <2>. QED  BY <2>2, <2>4, Settles
<1>8. CASE ExitFinish
  BY <1>8, TurnLives
<1>. QED  BY <1>3, <1>4, <1>5, <1>6, <1>7, <1>8 DEF Exit

\* The state main leaves to the shell.
LEMMA LifeInit == KernelInit => LifeInv
<1>. SUFFICES ASSUME KernelInit PROVE LifeState(Sched, foreground_pid, sem_spaces, at, holding)
  BY DEF LifeInv
<1>1. Sound(Sched) /\ IdleFirst(Sched)
  BY InitIsSound DEF KernelInit
<1>2. /\ status = [p \in Pids |-> IF p = SHELL_PID THEN RUNNING
                                  ELSE IF p = IDLE_PID THEN READY ELSE NONE]
      /\ fault = FALSE /\ creation_queue = <<>> /\ current_pcb = SHELL_PID
  BY DEF KernelInit, SchedInit
<1>3. \A p \in Pids : status[p] # BLOCKED /\ status[p] # DEAD
  BY <1>2 DEF BLOCKED, DEAD, RUNNING, READY, NONE
<1>4. status[SHELL_PID] # NONE /\ SHELL_PID \in Pids /\ IDLE_PID \in Pids
  BY <1>2, ConstantFacts DEF RUNNING, NONE
<1>5. /\ \A p \in Pids : at[p] = User /\ holding[p] = {}
      /\ foreground_pid = SHELL_PID
  BY DEF KernelInit
<1>6. User \in Place /\ User.op = "user"
  BY DEF User, Place
<1>7. at \in [Pids -> Place] /\ holding \in [Pids -> SUBSET Pids]
  BY <1>6 DEF KernelInit
<1>8. Safe(Sched)
  BY <1>1, <1>2, <1>3, <1>4, SchedFields DEF Safe
<1>9. Placed(Sched, at)
  BY <1>2, <1>3, <1>4, <1>5, <1>6, <1>7, <1>8, SchedFields DEF Placed, Leaving
<1>10. Members(creation_queue) = {}
  BY <1>2 DEF Members
<1>11. AllLive(Sched, foreground_pid, at)
  BY <1>3, <1>4, <1>5, <1>6, <1>10, SchedFields DEF AllLive, Lives, Killable
<1>12. \A i \in Slots : \/ i = 1 /\ sem_spaces[i] = Opened(SHELL_PID, 1, NOBODY)
                        \/ i = 2 /\ sem_spaces[i] = Opened(IDLE_PID, 1, NOBODY)
                        \/ sem_spaces[i] = AVAILABLE
  BY DEF KernelInit
<1>13. sem_spaces \in Table
  <2>1. /\ Opened(SHELL_PID, 1, NOBODY) \in Semaphore /\ Opened(IDLE_PID, 1, NOBODY) \in Semaphore
        /\ AVAILABLE \in Semaphore
    BY <1>4, NewSlots DEF Names
  <2>2. sem_spaces = [i \in Slots |-> IF i = 1 THEN Opened(SHELL_PID, 1, NOBODY)
                                      ELSE IF i = 2 THEN Opened(IDLE_PID, 1, NOBODY)
                                      ELSE AVAILABLE]
    BY DEF KernelInit
  <2>. QED  BY <2>1, <2>2 DEF Table
<1>14. /\ \A n, b : /\ Opened(n, 1, b).identifier = n /\ Opened(n, 1, b).status = "UNAVAILABLE"
                    /\ Opened(n, 1, b).queue = <<>> /\ Opened(n, 1, b).allowed_processes = <<b>>
       /\ AVAILABLE.status = "AVAILABLE" /\ AVAILABLE.queue = <<>>
  BY DEF Opened, AVAILABLE
<1>15. \A n, b : Opened(n, 1, b).is_locked
  <2>. SUFFICES ASSUME NEW n, NEW b PROVE Opened(n, 1, b).is_locked
    OBVIOUS
  <2>. DEFINE o == Opened(n, 1, b)
  <2>1. o.is_locked = (1 > 0)
    BY DEF Opened
  <2>2. (1 > 0) = TRUE
    OBVIOUS
  <2>. HIDE DEF o
  <2>3. o.is_locked
    BY <2>1, <2>2
  <2>. QED  BY <2>3 DEF o
<1>16. \A i \in Slots : /\ sem_spaces[i].queue = <<>>
                        /\ Busy(sem_spaces, i) =>
                             /\ i \in {1, 2}
                             /\ sem_spaces[i].identifier = IF i = 1 THEN SHELL_PID ELSE IDLE_PID
                             /\ Len(sem_spaces[i].allowed_processes) = 1
                             /\ sem_spaces[i].is_locked
  <2>. SUFFICES ASSUME NEW i \in Slots
                PROVE  /\ sem_spaces[i].queue = <<>>
                       /\ Busy(sem_spaces, i) =>
                             /\ i \in {1, 2}
                             /\ sem_spaces[i].identifier = IF i = 1 THEN SHELL_PID ELSE IDLE_PID
                             /\ Len(sem_spaces[i].allowed_processes) = 1
                             /\ sem_spaces[i].is_locked
    OBVIOUS
  <2>1. Len(<<NOBODY>>) = 1
    OBVIOUS
  <2>2. CASE i = 1 /\ sem_spaces[i] = Opened(SHELL_PID, 1, NOBODY)
    <3>. DEFINE o == Opened(SHELL_PID, 1, NOBODY)
    <3>1. o.queue = <<>> /\ o.identifier = SHELL_PID /\ Len(o.allowed_processes) = 1
      BY <1>14, <2>1
    <3>2. o.is_locked
      BY <1>15
    <3>3. i = 1 /\ sem_spaces[i] = o
      BY <2>2
    <3>. HIDE DEF o
    <3>. QED  BY <3>1, <3>2, <3>3
  <2>3. CASE i = 2 /\ sem_spaces[i] = Opened(IDLE_PID, 1, NOBODY)
    <3>. DEFINE o == Opened(IDLE_PID, 1, NOBODY)
    <3>1. o.queue = <<>> /\ o.identifier = IDLE_PID /\ Len(o.allowed_processes) = 1
      BY <1>14, <2>1
    <3>2. o.is_locked
      BY <1>15
    <3>3. i = 2 /\ sem_spaces[i] = o
      BY <2>3
    <3>. HIDE DEF o
    <3>. QED  BY <3>1, <3>2, <3>3
  <2>4. CASE sem_spaces[i] = AVAILABLE
    BY <1>14, <2>4 DEF Busy
  <2>. QED  BY <1>12, <2>2, <2>3, <2>4
<1>17. /\ SHELL_PID # IDLE_PID /\ SHELL_PID < pid /\ IDLE_PID < pid
  BY <1>2, ConstantFacts DEF KernelInit, SchedInit, SHELL_PID, IDLE_PID
<1>18. Wiring(sem_spaces, holding, pid)
  BY <1>4, <1>7, <1>13, <1>16, <1>17 DEF Wiring, OneSlot
<1>19. \A p \in Pids : ~Done(status, at, p)
  BY <1>3, <1>5, <1>6 DEF Done
<1>20. Locks(status, sem_spaces, at, holding)
  BY <1>4, <1>16, <1>19 DEF Locks
<1>21. Queues(status, sem_spaces, at)
  <2>1. Members(<<>>) = {} /\ Len(<<>>) =< 1
    BY DEF Members
  <2>. QED  BY <1>16, <2>1 DEF Queues
<1>22. Waits(sem_spaces, at, holding) /\ Sleepers(status, sem_spaces, at) /\ Wakers(status, sem_spaces, at)
  BY <1>3, <1>5, <1>6 DEF Waits, Sleepers, Wakers
<1>. QED  BY <1>9, <1>11, <1>18, <1>20, <1>21, <1>22, SchedFields DEF LifeState, Core, Wired

\* and every step of the kernel and its clients.
LEMMA LifeStep == LifeInv /\ ReapInv /\ [LifecycleNext]_kvars => LifeInv'
<1>. SUFFICES ASSUME LifeInv, ReapInv, [LifecycleNext]_kvars PROVE LifeInv'
  OBVIOUS
<1>0. /\ Sched \in SchedState /\ foreground_pid \in Killable /\ Killable \subseteq Pids
      /\ Clients \subseteq Killable
  BY LifeFacts, KernelConstants, ConstantFacts DEF LifeInv, Killable
<1>1. CASE TimerInterrupt \/ SysYield
  BY <1>1, TurnLives
<1>2. CASE CtrlC
  <2>1. Passes(foreground_pid)
    BY <1>0, <1>2, CtrlCEffect
  <2>. QED  BY <1>0, <2>1, KillLives
<1>3. CASE Retry
  BY <1>3, RetryLives
<1>4. CASE SysPs
  <2>1. TRUE \in BOOLEAN
    OBVIOUS
  <2>. QED  BY <1>4, <2>1, CreateLives
<1>5. CASE Exit
  BY <1>5, ExitLives
<1>6. ASSUME NEW fore \in BOOLEAN, SysCreate(fore) PROVE LifeInv'
  BY <1>6, CreateLives
<1>7. ASSUME NEW p \in Clients, SysKill(p) PROVE LifeInv'
  <2>1. Passes(p)
    BY <1>0, <1>7, KillEffect
  <2>. QED  BY <1>0, <2>1, KillLives
<1>8. ASSUME NEW p \in Clients, SysWaitpid(p) PROVE LifeInv'
  BY <1>8, WaitpidLives
<1>9. CASE UNCHANGED kvars
  <2>1. /\ Sched' = Sched /\ foreground_pid' = foreground_pid /\ sem_spaces' = sem_spaces
        /\ at' = at /\ holding' = holding
    BY <1>9 DEF kvars, svars, Sched
  <2>. QED  BY <2>1 DEF LifeInv
<1>. QED  BY <1>1, <1>2, <1>3, <1>4, <1>5, <1>6, <1>7, <1>8, <1>9 DEF LifecycleNext

\* So is what was said of reaped processes.
LEMMA ReapStep == LifeInv /\ ReapInv /\ [LifecycleNext]_kvars => ReapInv'
<1>. SUFFICES ASSUME LifeInv, ReapInv, [LifecycleNext]_kvars PROVE ReapInv'
  OBVIOUS
<1>0. /\ Sched \in SchedState /\ foreground_pid \in Killable /\ Killable \subseteq Pids
      /\ Clients \subseteq Killable
  BY LifeFacts, KernelConstants, ConstantFacts DEF LifeInv, Killable
<1>1. CASE TimerInterrupt \/ SysYield
  BY <1>1, TurnReaped
<1>2. CASE CtrlC
  <2>1. Passes(foreground_pid)
    BY <1>0, <1>2, CtrlCEffect
  <2>. QED  BY <1>0, <2>1, PassReaped
<1>3. CASE Retry
  <2>. DEFINE n == at[current_pcb].name
              i == at[current_pcb].slot
  <2>1. Asks(Sched, sem_spaces, at, holding, n, i)
    BY <1>3, RetryAsks DEF Retry
  <2>2. Takes(n, i) \/ Sleeps(n, i)
    BY <1>0, <1>3, RetryEffect
  <2>. HIDE DEF n, i
  <2>. QED  BY <2>1, <2>2, TakeReaped, SleepReaped
<1>4. CASE SysPs
  <2>1. TRUE \in BOOLEAN
    OBVIOUS
  <2>. QED  BY <1>4, <2>1, CreateReaped
<1>5. CASE Exit
  BY <1>5, ExitReaped
<1>6. ASSUME NEW fore \in BOOLEAN, SysCreate(fore) PROVE ReapInv'
  BY <1>6, CreateReaped
<1>7. ASSUME NEW p \in Clients, SysKill(p) PROVE ReapInv'
  <2>1. Passes(p)
    BY <1>0, <1>7, KillEffect
  <2>. QED  BY <1>0, <2>1, PassReaped
<1>8. ASSUME NEW p \in Clients, SysWaitpid(p) PROVE ReapInv'
  BY <1>0, <1>8, WaitpidAsks, PassReaped, TakeReaped, SleepReaped
<1>9. CASE UNCHANGED kvars
  <2>1. Sched' = Sched /\ sem_spaces' = sem_spaces /\ holding' = holding
    BY <1>9 DEF kvars, svars, Sched
  <2>. QED  BY <2>1 DEF ReapInv
<1>. QED  BY <1>1, <1>2, <1>3, <1>4, <1>5, <1>6, <1>7, <1>8, <1>9 DEF LifecycleNext

LEMMA ReapInit == KernelInit => ReapInv
  BY DEF KernelInit, ReapInv, Reaped

\* The inductive invariant: places, the foreground process and the semaphores of
\* processes agree with the scheduler, and a child that was reaped is dead, with
\* its semaphore open for as long as it is found (process.c, semaphore.c).
THEOREM LifecycleInvariant == LifecycleSpec => [](LifeInv /\ ReapInv)
  BY LifeInit, LifeStep, ReapInit, ReapStep, PTL DEF LifecycleSpec

\* The foreground process exists and was not killed, however foreground processes
\* are created and end (force_kill, kill_foreground_process, add_new_process).
THEOREM ForegroundStays == LifecycleSpec => []ForegroundLives
<1>1. LifeInv => ForegroundLives
  BY LifeFacts, SchedFields DEF LifeInv, Lives, ForegroundLives
<1>. QED  BY <1>1, LifecycleInvariant, PTL

\* Whoever sleeps in waitpid will still be woken by the process it waits for.
THEOREM ExitsAreNoticed == LifecycleSpec => []NoMissedExit
<1>1. LifeInv => NoMissedExit
  <2>. SUFFICES ASSUME LifeInv, NEW p \in Pids, status[p] = BLOCKED
                PROVE  /\ status[at[p].name] # DEAD
                       /\ at[at[p].name].op \in {"user", "wait", "unlock", "wake"}
                       /\ p \in Members(sem_spaces[at[p].slot].queue)
    BY DEF NoMissedExit
  <2>1. Sleepers(status, sem_spaces, at)
    BY LifeFacts, SchedFields DEF LifeInv, Wired
  <2>. QED  BY <2>1 DEF Sleepers, Comes
<1>. QED  BY <1>1, LifecycleInvariant, PTL

\* Closing, reopening and dying never take the slot of a waiter away.
THEOREM WaitedSlotsAreKept == LifecycleSpec => []WaitersKeepTheirSlot
<1>1. LifeInv => WaitersKeepTheirSlot
  <2>. SUFFICES ASSUME LifeInv PROVE WaitersKeepTheirSlot
    OBVIOUS
  <2>1. Waits(sem_spaces, at, holding)
    BY LifeFacts DEF LifeInv, Wired
  <2>. QED  BY <2>1 DEF Waits, WaitersKeepTheirSlot, Busy
<1>. QED  BY <1>1, LifecycleInvariant, PTL

\* Every part of the kernel's state keeps its type while processes come and go.
THEOREM LifecycleTypes == LifecycleSpec => []KernelTypeOK
<1>1. LifeInv => KernelTypeOK
  <2>. SUFFICES ASSUME LifeInv PROVE KernelTypeOK
    OBVIOUS
  <2>1. /\ sem_spaces \in Table /\ at \in [Pids -> Place] /\ holding \in [Pids -> SUBSET Pids]
        /\ foreground_pid \in Killable
    BY LifeFacts DEF LifeInv
  <2>2. foreground_pid \in Pids
    BY <2>1, KernelConstants, ConstantFacts DEF Killable
  <2>3. \A i \in Slots : sem_spaces[i] \in Semaphore
    BY <2>1 DEF Table
  <2>4. \A p \in Pids : at[p] \in Place
    BY <2>1
  <2>5. holding \in [Pids -> SUBSET Names]
    BY <2>1 DEF Names
  <2>. QED  BY <2>2, <2>3, <2>4, <2>5 DEF KernelTypeOK, Semaphore, Place
<1>. QED  BY <1>1, LifecycleInvariant, PTL

\* Only a waiter that is scheduled and takes the lock stops waiting.
LEMMA OnlyRetryReturns ==
  ASSUME LifeInv, LifecycleNext, NEW p \in Pids, at[p].op = "wait", at'[p].op # "wait"
  PROVE  p = current_pcb /\ Retry
<1>. DEFINE c == current_pcb
<1>0. Sched \in SchedState /\ at \in [Pids -> Place] /\ foreground_pid \in Pids /\ Clients \subseteq Pids
  BY LifeFacts, KernelConstants, ConstantFacts DEF LifeInv, Killable
<1>1. at' # at
  OBVIOUS
<1>2. \A x : at' = [at EXCEPT ![c] = x] => p = c
  <2>. SUFFICES ASSUME NEW x, at' = [at EXCEPT ![c] = x], p # c PROVE FALSE
    OBVIOUS
  <2>1. at'[p] = at[p]
    BY <1>0
  <2>. QED  BY <2>1
<1>3. ~(TimerInterrupt \/ SysYield \/ SysPs \/ CtrlC \/ ExitFinish)
  BY <1>0, <1>1, TimerEffect, YieldEffect, PsEffect, CtrlCEffect DEF Passes
<1>4. \A fore \in BOOLEAN : ~SysCreate(fore)
  BY <1>1, CreateEffect
<1>5. \A x \in Clients : ~SysKill(x)
  BY <1>0, <1>1, KillEffect DEF Passes
<1>6. ASSUME NEW x \in Clients, SysWaitpid(x) PROVE FALSE
  <2>1. at[c].op = "user"
    BY <1>6 DEF SysWaitpid, Running
  <2>2. at' = at \/ (\E y : at' = [at EXCEPT ![c] = y])
    BY <1>0, <1>6, WaitpidEffect DEF Takes, Sleeps, Passes
  <2>. QED  BY <1>1, <1>2, <2>1, <2>2
<1>7. CASE ExitStart
  <2>1. at[c].op = "user"
    BY <1>7 DEF ExitStart, Running
  <2>. QED  BY <1>2, <1>7, <2>1, ExitStartEffect
<1>8. CASE ExitUnlock
  <2>1. at[c].op = "unlock"
    BY <1>8 DEF ExitUnlock, Exiting
  <2>. QED  BY <1>2, <1>8, <2>1, ExitUnlockEffect
<1>9. CASE ExitWake
  <2>1. at[c].op = "wake"
    BY <1>9 DEF ExitWake, Exiting
  <2>. QED  BY <1>2, <1>9, <2>1, ExitWakeEffect
<1>10. CASE ExitDie
  <2>1. at[c].op = "die"
    BY <1>10 DEF ExitDie, Exiting
  <2>. QED  BY <1>2, <1>10, <2>1, ExitDieEffect
<1>11. CASE ExitRemove
  <2>1. at[c].op = "remove"
    BY <1>11 DEF ExitRemove, Exiting
  <2>. QED  BY <1>2, <1>11, <2>1, ExitRemoveEffect
<1>12. CASE Retry
  <2>1. \E y : at' = [at EXCEPT ![c] = y]
    BY <1>0, <1>12, RetryEffect DEF Takes, Sleeps
  <2>. QED  BY <1>2, <1>12, <2>1
<1>. QED  BY <1>3, <1>4, <1>5, <1>6, <1>7, <1>8, <1>9, <1>10, <1>11, <1>12 DEF LifecycleNext, Exit

\* A waiter goes on only when the process it waits for has finished.
LEMMA ReapsFinished ==
  ASSUME LifeInv, LifecycleNext, NEW p \in Pids, at[p].op = "wait", at'[p].op # "wait"
  PROVE  Finished(at[p].name)
<1>. DEFINE n == at[p].name
            i == at[p].slot
<1>1. p = current_pcb /\ Retry
  BY OnlyRetryReturns
<1>2. /\ Sched \in SchedState /\ Wired(status, sem_spaces, at, holding, pid)
      /\ at \in [Pids -> Place]
  BY LifeFacts, SchedFields DEF LifeInv
<1>3. Takes(n, i) \/ Sleeps(n, i)
  BY <1>1, <1>2, RetryEffect
<1>4. ~Sleeps(n, i)
  <2>. SUFFICES ASSUME Sleeps(n, i) PROVE FALSE
    OBVIOUS
  <2>1. at' = [at EXCEPT ![p] = Waiting(n, i)]
    BY <1>1 DEF Sleeps
  <2>2. at'[p] = Waiting(n, i)
    BY <1>2, <2>1
  <2>. QED  BY <2>2 DEF Waiting
<1>5. ~sem_spaces[i].is_locked
  BY <1>3, <1>4 DEF Takes
<1>6. i \in Slots /\ Busy(sem_spaces, i) /\ sem_spaces[i].identifier = n
  BY <1>2 DEF Wired, Waits
<1>7. Done(status, at, n)
  BY <1>2, <1>5, <1>6 DEF Wired, Locks
<1>. QED  BY <1>7 DEF Done, Finished

\* A waitpid that slept returns, and kills what it waited for, only when the child
\* has finished: neither a stray wake-up nor another's post lets it go (waitpid).
THEOREM WaitpidReaps == LifecycleSpec => WaitpidReapsFinished
<1>1. LifeInv /\ [LifecycleNext]_kvars
        => [\A p \in Pids : at[p].op = "wait" /\ at[p].name \in Pids /\ at'[p].op # "wait"
                              => Finished(at[p].name)]_kvars
  <2>. SUFFICES ASSUME LifeInv, LifecycleNext
                PROVE  \A p \in Pids : at[p].op = "wait" /\ at[p].name \in Pids /\ at'[p].op # "wait"
                                         => Finished(at[p].name)
    OBVIOUS
  <2>. QED  BY ReapsFinished
<1>. QED  BY <1>1, LifecycleInvariant, PTL DEF LifecycleSpec, WaitpidReapsFinished

-----------------------------------------------------------------------------
(* The kernel drives the scheduler only in the ways SchedSpec allows. *)

\* Whoever is about to give up the processor for good is on the removal list; the
\* list is empty when a waiter is scheduled, and there is room on it.
Tidy(g, a) ==
  /\ a[g.current_pcb].op = "finish" => g.current_pcb \in Members(g.waiting_for_remove)
  /\ a[g.current_pcb].op = "wait" => g.waiting_for_remove = <<>>
  /\ \A p \in Pids : a[p].op = "wait" => MaxPending > 0

\* After a context switch the list is empty.
LEMMA SwitchTidy ==
  ASSUME NEW g, NEW a, Placed(g, a), g.status[g.current_pcb] # DEAD, g.waiting_for_remove = <<>>,
         \A p \in Pids : a[p].op = "wait" => MaxPending > 0
  PROVE  Tidy(g, a)
<1>1. g.current_pcb \in Pids
  BY CoreFacts
<1>. QED  BY <1>1 DEF Placed, Leaving, Tidy

\* The current process moves on, or stays in a place that asks for nothing.
LEMMA PlaceTidy ==
  ASSUME NEW g, NEW a, Tidy(g, a), NEW r, NEW b,
         b[r.current_pcb].op \notin {"wait", "finish"},
         \A p \in Pids : b[p].op = "wait" => a[p].op = "wait"
  PROVE  Tidy(r, b)
  BY DEF Tidy

\* force_kill of a client keeps the removal list tidy.
LEMMA KillTidy ==
  ASSUME NEW g, NEW fg, NEW sp, NEW a, NEW h, LifeState(g, fg, sp, a, h), Tidy(g, a),
         NEW p \in Clients, get_pcb_entry(g, p), a[g.current_pcb].op # "wait", NEW r, NEW W,
         r = kill(g, p, W), Placed(r, a)
  PROVE  Tidy(r, a)
<1>1. /\ Safe(g) /\ p \in Pids /\ p # SHELL_PID /\ p # IDLE_PID /\ g \in SchedState /\ Sound(g)
  BY LifeFacts, KernelConstants
<1>2. /\ p = g.current_pcb => r.waiting_for_remove = <<>> /\ r.status[r.current_pcb] = RUNNING
      /\ p # g.current_pcb => /\ r.current_pcb = g.current_pcb
                              /\ r.waiting_for_remove = Append(g.waiting_for_remove, p)
  BY <1>1, KillCalm
<1>3. CASE p = g.current_pcb
  <2>1. r.status[r.current_pcb] # DEAD
    BY <1>2, <1>3 DEF RUNNING, DEAD
  <2>. QED  BY <1>2, <1>3, <2>1, SwitchTidy DEF Tidy
<1>4. CASE p # g.current_pcb
  <2>1. g.waiting_for_remove \in Seq(Pids)
    BY <1>1, QueueTypes
  <2>2. Members(Append(g.waiting_for_remove, p)) = Members(g.waiting_for_remove) \cup {p}
    BY <1>1, <2>1, MembersAppend
  <2>. QED  BY <1>2, <1>4, <2>2 DEF Tidy
<1>. QED  BY <1>3, <1>4

LifeTidy == LifeInv /\ ReapInv /\ Tidy(Sched, at)

\* The steps that leave everybody where it is.
LEMMA TidyStays ==
  ASSUME LifeTidy, LifeInv',
         \/ TimerInterrupt \/ SysYield \/ SysPs \/ ExitFinish
         \/ \E fore \in BOOLEAN : SysCreate(fore)
  PROVE  Tidy(Sched, at)'
<1>. DEFINE c == Sched.current_pcb
            r == Sched'
<1>1. /\ LifeState(Sched, foreground_pid, sem_spaces, at, holding) /\ Tidy(Sched, at)
      /\ c = current_pcb /\ Safe(Sched)
  BY LifeFacts, SchedFields DEF LifeTidy, LifeInv
<1>2. at' = at
  BY TimerEffect, YieldEffect, PsEffect, CreateEffect
<1>3. Placed(r, at)
  <2>1. LifeState(Sched, foreground_pid, sem_spaces, at, holding)'
    BY DEF LifeInv
  <2>2. LifeState(r, foreground_pid', sem_spaces', at', holding')
    BY <2>1
  <2>. HIDE DEF r
  <2>. QED  BY <1>2, <2>2, LifeFacts
<1>4. \/ r.waiting_for_remove = <<>> /\ r.status[r.current_pcb] = RUNNING
      \/ r.waiting_for_remove = Sched.waiting_for_remove /\ r.current_pcb = c
  <2>1. CASE TimerInterrupt
    <3>. DEFINE k == timer_interrupt(Sched)
    <3>1. \/ Switched(Sched, k)
          \/ k.waiting_for_remove = Sched.waiting_for_remove /\ k.current_pcb = c
      BY <1>1, TimerCalm
    <3>2. r = k
      BY <2>1, TimerEffect
    <3>. HIDE DEF k, r
    <3>. QED  BY <3>1, <3>2 DEF Switched
  <2>2. CASE SysYield \/ ExitFinish
    <3>1. r = finish_current_tick(Sched)
      BY <2>2, YieldEffect
    <3>. HIDE DEF r
    <3>. QED  BY <1>1, <3>1, FinishTickCalm DEF Switched
  <2>3. CASE SysPs
    <3>1. r = add_process_to_creation_queue(Sched) /\ Sched.pid =< MaxPid
      BY <2>3, PsEffect, SchedFields DEF SysPs
    <3>. HIDE DEF r
    <3>. QED  BY <1>1, <3>1, CreateLaterCalm
  <2>4. ASSUME NEW fore \in BOOLEAN, SysCreate(fore)
        PROVE  r.waiting_for_remove = Sched.waiting_for_remove /\ r.current_pcb = c
    <3>1. r = create_and_insert_process(Sched) /\ Sched.pid =< MaxPid
      BY <2>4, CreateEffect, SchedFields DEF SysCreate
    <3>. HIDE DEF r
    <3>. QED  BY <1>1, <3>1, CreateCalm DEF SameLists
  <2>. QED  BY <2>1, <2>2, <2>3, <2>4
<1>. HIDE DEF r
<1>5. Tidy(r, at)
  <2>1. CASE r.waiting_for_remove = <<>> /\ r.status[r.current_pcb] = RUNNING
    <3>1. r.status[r.current_pcb] # DEAD
      BY <2>1 DEF RUNNING, DEAD
    <3>. QED  BY <1>1, <1>3, <2>1, <3>1, SwitchTidy DEF Tidy
  <2>2. CASE r.waiting_for_remove = Sched.waiting_for_remove /\ r.current_pcb = c
    BY <1>1, <2>2 DEF Tidy
  <2>. QED  BY <1>4, <2>1, <2>2
<1>. QED  BY <1>2, <1>5 DEF r

\* What the invariant says after a step.
LEMMA PlacedNext == LifeInv' => Placed(Sched', at') /\ Sched'.current_pcb \in Pids
<1>. SUFFICES ASSUME LifeInv' PROVE Placed(Sched', at') /\ Sched'.current_pcb \in Pids
  OBVIOUS
<1>1. LifeState(Sched, foreground_pid, sem_spaces, at, holding)'
  BY DEF LifeInv
<1>2. LifeState(Sched', foreground_pid', sem_spaces', at', holding')
  BY <1>1
<1>. QED  BY <1>2, LifeFacts

\* So does a system call that kills,
LEMMA KillsTidy ==
  ASSUME LifeTidy, LifeInv', NEW p \in Killable, Passes(p), at[current_pcb].op # "wait"
  PROVE  Tidy(Sched, at)'
<1>1. /\ LifeState(Sched, foreground_pid, sem_spaces, at, holding) /\ Tidy(Sched, at)
      /\ Sched.current_pcb = current_pcb /\ Placed(Sched', at')
  BY SchedFields, PlacedNext DEF LifeTidy, LifeInv
<1>2. at' = at /\ Sched' = ReapSched(Sched, sem_spaces, p)
  BY DEF Passes
<1>. DEFINE r == Sched'
<1>3. Placed(r, at)
  BY <1>1, <1>2
<1>4. r = ReapSched(Sched, sem_spaces, p)
  BY <1>2
<1>. HIDE DEF r
<1>5. Tidy(r, at)
  <2>1. CASE Reaps(Sched, p)
    <3>1. p \in Clients /\ get_pcb_entry(Sched, p)
      BY <2>1 DEF Reaps, Killable
    <3>2. r = kill(Sched, p, PostWakes(sem_spaces, p))
      BY <1>4, <2>1 DEF ReapSched
    <3>3. at[Sched.current_pcb].op # "wait"
      BY <1>1
    <3>. DEFINE W == PostWakes(sem_spaces, p)
    <3>4. r = kill(Sched, p, W)
      BY <3>2
    <3>. HIDE DEF W
    <3>. QED  BY <1>1, <1>3, <3>1, <3>3, <3>4, KillTidy
  <2>2. CASE ~Reaps(Sched, p)
    BY <1>1, <1>4, <2>2 DEF ReapSched
  <2>. QED  BY <2>1, <2>2
<1>. QED  BY <1>2, <1>5 DEF r

\* one that takes or waits for a semaphore,
LEMMA EntersTidy ==
  ASSUME LifeTidy, LifeInv', NEW n, NEW i, Asks(Sched, sem_spaces, at, holding, n, i),
         Takes(n, i) \/ Sleeps(n, i), MaxPending > 0
  PROVE  Tidy(Sched, at)'
<1>. DEFINE c == Sched.current_pcb
            t == [sem_spaces EXCEPT ![i].is_locked = TRUE]
            u == [at EXCEPT ![c] = User]
            h == [holding EXCEPT ![c] = @ \cup {n}]
            r == Sched'
<1>1. /\ LifeState(Sched, foreground_pid, sem_spaces, at, holding) /\ Tidy(Sched, at)
      /\ c = current_pcb /\ Placed(r, at')
  BY SchedFields, PlacedNext DEF LifeTidy, LifeInv
<1>2. /\ n \in Clients /\ i \in Slots /\ Busy(sem_spaces, i) /\ sem_spaces[i].identifier = n
      /\ sem_spaces[i].allowed_processes[1] = c /\ c # IDLE_PID /\ at[c].op \in {"user", "wait"}
  BY DEF Asks
<1>3. c \in Pids /\ at \in [Pids -> Place] /\ Safe(Sched)
  BY <1>1, LifeFacts
<1>4. CASE Takes(n, i)
  <2>1. r = ReapSched(Sched, t, n) /\ at' = u
    BY <1>1, <1>4 DEF Takes
  <2>2. LifeState(Sched, foreground_pid, t, u, h)
    BY <1>1, <1>2, TakeLife
  <2>3. u[c].op = "user" /\ \A p \in Pids : u[p].op = "wait" => at[p].op = "wait"
    <3>1. u[c] = User /\ \A p \in Pids : p # c => u[p] = at[p]
      BY <1>3
    <3>. HIDE DEF u
    <3>2. User.op = "user"
      BY DEF User
    <3>. QED  BY <3>1, <3>2
  <2>. HIDE DEF t, u, h
  <2>4. Tidy(Sched, u)
    <3>1. u[Sched.current_pcb].op \notin {"wait", "finish"}
      BY <2>3
    <3>. QED  BY <1>1, <2>3, <3>1, PlaceTidy
  <2>5. Tidy(r, u)
    <3>1. Placed(r, u)
      BY <1>1, <2>1
    <3>. HIDE DEF r
    <3>2. CASE Reaps(Sched, n)
      <4>. DEFINE W == PostWakes(t, n)
      <4>1. r = kill(Sched, n, W) /\ get_pcb_entry(Sched, n)
        BY <2>1, <3>2 DEF ReapSched, Reaps
      <4>2. u[Sched.current_pcb].op # "wait"
        BY <2>3
      <4>. HIDE DEF W
      <4>. QED  BY <1>2, <2>2, <2>4, <3>1, <4>1, <4>2, KillTidy
    <3>3. CASE ~Reaps(Sched, n)
      BY <2>1, <2>4, <3>3 DEF ReapSched
    <3>. QED  BY <3>2, <3>3
  <2>. QED  BY <2>1, <2>5
<1>5. CASE Sleeps(n, i)
  <2>1. r = block_current(Sched)
    BY <1>5 DEF Sleeps
  <2>2. Sched.status[c] # DEAD
    BY <1>1, <1>2, AliveNow
  <2>3. Placed(r, at')
    BY <1>1
  <2>. HIDE DEF r
  <2>4. r.waiting_for_remove = <<>> /\ r.status[r.current_pcb] = RUNNING
    BY <1>2, <1>3, <2>1, <2>2, BlockCalm
  <2>5. r.status[r.current_pcb] # DEAD
    BY <2>4 DEF RUNNING, DEAD
  <2>6. Tidy(r, at')
    BY <2>3, <2>4, <2>5, SwitchTidy
  <2>. QED  BY <2>6 DEF r
<1>. QED  BY <1>4, <1>5

\* every step of an exit but the last one,
LEMMA ExitTidy ==
  ASSUME LifeTidy, LifeInv', ExitStart \/ ExitUnlock \/ ExitWake \/ ExitDie \/ ExitRemove
  PROVE  Tidy(Sched, at)'
<1>. DEFINE c == Sched.current_pcb
            r == Sched'
<1>1. /\ LifeState(Sched, foreground_pid, sem_spaces, at, holding) /\ Tidy(Sched, at)
      /\ c = current_pcb
  BY SchedFields DEF LifeTidy, LifeInv
<1>2. /\ c \in Pids /\ at \in [Pids -> Place] /\ Safe(Sched) /\ Sound(Sched) /\ Placed(Sched, at)
      /\ Sched \in SchedState
  BY <1>1, LifeFacts
<1>3. \A op : /\ Goes(op, 0).op = op /\ \A i : Goes(op, i).op = op
  BY DEF Goes
<1>4. CASE ExitStart \/ ExitUnlock \/ ExitWake \/ ExitDie
  <2>1. PICK op, i : /\ op \in {"unlock", "wake", "die", "remove"}
                     /\ at' = [at EXCEPT ![c] = Goes(op, i)]
    BY <1>1, <1>4, ExitStartEffect, ExitUnlockEffect, ExitWakeEffect, ExitDieEffect
  <2>2. at'[c] = Goes(op, i) /\ \A p \in Pids : p # c => at'[p] = at[p]
    BY <1>2, <2>1
  <2>3. at'[c].op \notin {"wait", "finish"} /\ \A p \in Pids : at'[p].op = "wait" => at[p].op = "wait"
    <3>1. at'[c].op = op
      BY <1>3, <2>2
    <3>. QED  BY <2>1, <2>2, <3>1
  <2>4. r.current_pcb = c
    <3>1. CASE ExitStart \/ ExitUnlock
      BY <3>1, ExitStartEffect, ExitUnlockEffect
    <3>2. CASE ExitWake
      <4>. DEFINE W == Members(First(sem_spaces[at[current_pcb].slot].queue))
      <4>1. r = os_revive_process(Sched, W)
        BY <3>2, ExitWakeEffect
      <4>. HIDE DEF r, W
      <4>. QED  BY <1>2, <4>1, ReviveCalm DEF SameRest
    <3>3. CASE ExitDie
      <4>1. r = [Sched EXCEPT !.status[current_pcb] = DEAD]
        BY <3>3, ExitDieEffect
      <4>. HIDE DEF r
      <4>. QED  BY <4>1 DEF Sched
    <3>. QED  BY <1>4, <3>1, <3>2, <3>3
  <2>. HIDE DEF r
  <2>5. at'[r.current_pcb].op \notin {"wait", "finish"}
    BY <2>3, <2>4
  <2>6. Tidy(r, at')
    BY <1>1, <2>3, <2>5, PlaceTidy
  <2>. QED  BY <2>6 DEF r
<1>5. CASE ExitRemove
  <2>1. at' = [at EXCEPT ![c] = Goes("finish", 0)] /\ r = add_process_to_removal_queue(Sched, c)
    BY <1>1, <1>5, ExitRemoveEffect
  <2>2. at'[c].op = "finish" /\ \A p \in Pids : at'[p].op = "wait" => at[p].op = "wait"
    <3>1. at'[c] = Goes("finish", 0) /\ \A p \in Pids : p # c => at'[p] = at[p]
      BY <1>2, <2>1
    <3>. QED  BY <1>3, <3>1
  <2>3. at[c].op = "remove"
    BY <1>1, <1>5 DEF ExitRemove, Exiting
  <2>4. Sched.status[c] = DEAD
    BY <1>2, <2>3 DEF Placed, Leaving
  <2>. HIDE DEF r
  <2>5. r.current_pcb = c /\ r.waiting_for_remove = Append(Sched.waiting_for_remove, c)
    BY <1>2, <2>1, <2>4, RemovalCalm DEF SameRest
  <2>6. Sched.waiting_for_remove \in Seq(Pids)
    BY <1>2, QueueTypes
  <2>7. Members(Append(Sched.waiting_for_remove, c)) = Members(Sched.waiting_for_remove) \cup {c}
    BY <1>2, <2>6, MembersAppend
  <2>8. Tidy(r, at')
    BY <1>1, <2>2, <2>5, <2>7 DEF Tidy
  <2>. QED  BY <2>8 DEF r
<1>. QED  BY <1>4, <1>5

\* and every step of the kernel and its clients.
LEMMA TidyStep == LifeTidy /\ [LifecycleNext]_kvars => LifeTidy'
<1>. SUFFICES ASSUME LifeTidy, [LifecycleNext]_kvars PROVE LifeTidy'
  OBVIOUS
<1>0. LifeInv /\ ReapInv /\ LifeInv' /\ ReapInv' /\ Tidy(Sched, at)
  BY LifeStep, ReapStep DEF LifeTidy
<1>. SUFFICES Tidy(Sched, at)'
  BY <1>0 DEF LifeTidy
<1>1. /\ Sched \in SchedState /\ foreground_pid \in Killable /\ Killable \subseteq Pids
      /\ Clients \subseteq Killable /\ Sched.current_pcb = current_pcb /\ current_pcb \in Pids
  BY <1>0, LifeFacts, KernelConstants, ConstantFacts, SchedFields DEF LifeInv, Killable
<1>2. CASE TimerInterrupt \/ SysYield \/ SysPs \/ ExitFinish \/ \E fore \in BOOLEAN : SysCreate(fore)
  BY <1>0, <1>2, TidyStays
<1>3. CASE CtrlC
  <2>1. Passes(foreground_pid) /\ at[current_pcb].op # "wait"
    BY <1>1, <1>3, CtrlCEffect DEF CtrlC, InterruptsEnabled
  <2>. QED  BY <1>0, <1>1, <2>1, KillsTidy
<1>4. CASE Retry
  <2>. DEFINE n == at[current_pcb].name
              i == at[current_pcb].slot
  <2>1. Asks(Sched, sem_spaces, at, holding, n, i)
    BY <1>0, <1>4, RetryAsks DEF Retry
  <2>2. Takes(n, i) \/ Sleeps(n, i)
    BY <1>1, <1>4, RetryEffect
  <2>3. MaxPending > 0
    BY <1>0, <1>1, <1>4 DEF Tidy, Retry
  <2>. HIDE DEF n, i
  <2>. QED  BY <1>0, <2>1, <2>2, <2>3, EntersTidy
<1>5. CASE ExitStart \/ ExitUnlock \/ ExitWake \/ ExitDie \/ ExitRemove
  BY <1>0, <1>5, ExitTidy
<1>6. ASSUME NEW p \in Clients, SysKill(p) PROVE Tidy(Sched, at)'
  <2>1. Passes(p) /\ at[current_pcb].op # "wait"
    BY <1>1, <1>6, KillEffect DEF SysKill, Running
  <2>. QED  BY <1>0, <1>1, <2>1, KillsTidy
<1>7. ASSUME NEW p \in Clients, SysWaitpid(p) PROVE Tidy(Sched, at)'
  <2>1. MaxPending > 0
    <3>1. Len(waiting_for_remove) < MaxPending /\ Len(waiting_for_remove) \in Nat
      <4>1. waiting_for_remove \in Seq(Pids)
        BY <1>0, LifeFacts, QueueTypes, SchedFields DEF LifeInv
      <4>. QED  BY <1>7, <4>1 DEF SysWaitpid, CanKill
    <3>. QED  BY <3>1, SchedulerAssumption
  <2>2. CASE Passes(p)
    <3>1. at[current_pcb].op # "wait"
      BY <1>7 DEF SysWaitpid, Running
    <3>. QED  BY <1>0, <1>1, <2>2, <3>1, KillsTidy
  <2>3. CASE ~Passes(p)
    <3>1. PICK i : Asks(Sched, sem_spaces, at, holding, p, i) /\ (Takes(p, i) \/ Sleeps(p, i))
      BY <1>0, <1>7, <2>3, WaitpidAsks
    <3>. QED  BY <1>0, <2>1, <3>1, EntersTidy
  <2>. QED  BY <2>2, <2>3
<1>8. CASE UNCHANGED kvars
  <2>1. Sched' = Sched /\ at' = at
    BY <1>8 DEF kvars, svars, Sched
  <2>. QED  BY <1>0, <2>1
<1>. QED  BY <1>2, <1>3, <1>4, <1>5, <1>6, <1>7, <1>8 DEF LifecycleNext, Exit

\* A step of the scheduler part is a step of the scheduler.
LEMMA BecomesNext == ASSUME NEW r, Sched' = r PROVE SchedBecomes(r)
  BY DEF Sched, SchedBecomes

\* A step that leaves the scheduler part alone is a stutter.
LEMMA SchedStutters == ASSUME Sched' = Sched PROVE UNCHANGED svars
<1>1. SchedBecomes(Sched)
  BY BecomesNext
<1>. QED  BY <1>1 DEF SchedBecomes, Sched, svars

\* Waking has an effect only on the processes SchedSpec lets it wake.
LEMMA WakeableOnly ==
  ASSUME NEW W
  PROVE  LET V == W \cap Wakeable
         IN  /\ V \in SUBSET Wakeable
             /\ os_revive_process(Sched, V) = os_revive_process(Sched, W)
<1>. DEFINE V == W \cap Wakeable
            new(X) == [p \in Pids |-> IF /\ p \in X /\ get_pcb_entry(Sched, p)
                                         /\ Sched.status[p] \in {BLOCKED, RUNNING}
                                      THEN READY ELSE Sched.status[p]]
<1>1. \A p \in Pids : Sched.status[p] \in {BLOCKED, RUNNING} => (p \in V <=> p \in W)
  BY SchedFields DEF Wakeable
<1>2. new(V) = new(W)
  BY <1>1
<1>3. \A X : os_revive_process(Sched, X) = [Sched EXCEPT !.status = new(X)]
  BY DEF os_revive_process
<1>. HIDE DEF new
<1>. QED  BY <1>2, <1>3

\* A kill is a Kill of the scheduler, or a stutter when nobody is there.
LEMMA KillRefines ==
  ASSUME Clients \subseteq Targets, ~fault, Len(waiting_for_remove) < MaxPending,
         NEW p, p \in Killable, NEW sp, Sched' = ReapSched(Sched, sp, p)
  PROVE  [SchedNext]_svars
<1>1. CASE Reaps(Sched, p)
  <2>. DEFINE W == PostWakes(sp, p)
              V == W \cap Wakeable
  <2>1. V \in SUBSET Wakeable /\ os_revive_process(Sched, V) = os_revive_process(Sched, W)
    BY WakeableOnly
  <2>2. Sched' = kill(Sched, p, W) /\ p \in Clients
    BY <1>1 DEF ReapSched, Reaps, Killable
  <2>. HIDE DEF W, V
  <2>3. kill(Sched, p, V) = kill(Sched, p, W)
    BY <2>1 DEF kill
  <2>4. Kill(p, V)
    BY <2>2, <2>3, BecomesNext DEF Kill
  <2>5. p \in Targets
    BY <2>2
  <2>. QED  BY <2>1, <2>4, <2>5 DEF SchedNext, Calls
<1>2. CASE ~Reaps(Sched, p)
  BY <1>2, SchedStutters DEF ReapSched
<1>. QED  BY <1>1, <1>2

\* Whoever is neither killed nor asleep may block itself.
LEMMA InOwnCode ==
  ASSUME LifeInv, current_pcb # IDLE_PID, at[current_pcb].op \notin Leaving
  PROVE  InUserCode
<1>1. LifeState(Sched, foreground_pid, sem_spaces, at, holding)
  BY DEF LifeInv
<1>2. /\ status[current_pcb] # NONE /\ status[current_pcb] # BLOCKED /\ status[current_pcb] # DEAD
      /\ Safe(Sched) /\ current_pcb \in Pids
  BY <1>1, LifeFacts, SchedFields
<1>3. status[current_pcb] \in Statuses /\ ~fault
  BY <1>2, QueueTypes, SchedFields DEF Safe
<1>. QED  BY <1>2, <1>3 DEF InUserCode, Statuses

\* Taking a lock is a stutter, sleeping is a block of the running process.
LEMMA EnterRefines ==
  ASSUME Clients \subseteq Targets, LifeInv, NEW n, NEW i,
         Asks(Sched, sem_spaces, at, holding, n, i), Takes(n, i) \/ Sleeps(n, i),
         Len(waiting_for_remove) < MaxPending
  PROVE  [SchedNext]_svars
<1>1. current_pcb # IDLE_PID /\ at[current_pcb].op \notin Leaving /\ n \in Killable
  BY SchedFields DEF Asks, Leaving, Killable
<1>2. InUserCode
  BY <1>1, InOwnCode
<1>3. CASE Takes(n, i)
  <2>. DEFINE t == [sem_spaces EXCEPT ![i].is_locked = TRUE]
  <2>1. Sched' = ReapSched(Sched, t, n)
    BY <1>3 DEF Takes
  <2>2. ~fault
    BY <1>2 DEF InUserCode
  <2>. HIDE DEF t
  <2>. QED  BY <1>1, <2>1, <2>2, KillRefines
<1>4. CASE Sleeps(n, i)
  <2>1. BlockCurrent
    BY <1>2, <1>4, BecomesNext DEF Sleeps, BlockCurrent
  <2>. QED  BY <2>1 DEF SchedNext, Calls
<1>. QED  BY <1>3, <1>4

\* The steps of an exit are those of the scheduler.
LEMMA ExitRefines ==
  ASSUME LifeTidy, Exit
  PROVE  [SchedNext]_svars
<1>. DEFINE c == current_pcb
<1>1. /\ LifeState(Sched, foreground_pid, sem_spaces, at, holding) /\ c = Sched.current_pcb
      /\ Placed(Sched, at) /\ c \in Pids
  BY LifeFacts, SchedFields DEF LifeTidy, LifeInv
<1>2. CASE ExitStart \/ ExitUnlock
  BY <1>2, ExitStartEffect, ExitUnlockEffect, SchedStutters
<1>3. CASE ExitWake
  <2>. DEFINE W == Members(First(sem_spaces[at[c].slot].queue))
              V == W \cap Wakeable
  <2>1. Sched' = os_revive_process(Sched, W) /\ ~fault
    BY <1>3, ExitWakeEffect DEF ExitWake, Exiting
  <2>. HIDE DEF W
  <2>2. V \in SUBSET Wakeable /\ os_revive_process(Sched, V) = os_revive_process(Sched, W)
    BY WakeableOnly
  <2>3. Wake(V)
    BY <2>1, <2>2, BecomesNext DEF Wake
  <2>. HIDE DEF V
  <2>. QED  BY <2>2, <2>3 DEF SchedNext, Calls
<1>4. CASE ExitDie
  <2>1. at[c].op = "die"
    BY <1>4 DEF ExitDie, Exiting
  <2>2. c # SHELL_PID /\ c # IDLE_PID
    BY <1>1, <2>1, GoneFromView
  <2>3. InUserCode
    BY <2>1, <2>2, InOwnCode DEF LifeTidy, Leaving
  <2>4. MarkDead
    BY <1>4, <2>2, <2>3, ExitDieEffect, BecomesNext DEF MarkDead
  <2>. QED  BY <2>4 DEF SchedNext, Calls
<1>5. CASE ExitRemove
  <2>1. at[c].op = "remove" /\ ~fault /\ Len(waiting_for_remove) < MaxPending
    BY <1>5 DEF ExitRemove, Exiting, CanKill
  <2>2. status[c] = DEAD
    BY <1>1, <2>1, SchedFields DEF Placed, Leaving
  <2>3. QueueDead
    BY <1>5, <2>1, <2>2, ExitRemoveEffect, BecomesNext DEF QueueDead
  <2>. QED  BY <2>3 DEF SchedNext, Calls
<1>6. CASE ExitFinish
  <2>1. at[c].op = "finish" /\ ~fault
    BY <1>6 DEF ExitFinish, Exiting
  <2>2. status[c] = DEAD
    BY <1>1, <2>1, SchedFields DEF Placed, Leaving
  <2>3. c \in Members(waiting_for_remove)
    BY <1>1, <2>1, SchedFields DEF LifeTidy, Tidy
  <2>4. YieldDead
    BY <1>6, <2>1, <2>2, <2>3, YieldEffect, BecomesNext DEF YieldDead
  <2>. QED  BY <2>4 DEF SchedNext, Calls
<1>. QED  BY <1>2, <1>3, <1>4, <1>5, <1>6 DEF Exit

\* Every step of the kernel is a step of the scheduler or a stutter.
LEMMA LifecycleRefines ==
  ASSUME Clients \subseteq Targets, LifeTidy, [LifecycleNext]_kvars
  PROVE  [SchedNext]_svars
<1>0. LifeInv /\ ReapInv /\ Tidy(Sched, at)
  BY DEF LifeTidy
<1>1. /\ Sched \in SchedState /\ foreground_pid \in Killable /\ Killable \subseteq Pids
      /\ Clients \subseteq Killable /\ Sched.current_pcb = current_pcb /\ current_pcb \in Pids
  BY <1>0, LifeFacts, KernelConstants, ConstantFacts, SchedFields DEF LifeInv, Killable
<1>2. CASE TimerInterrupt
  <2>1. Timer
    BY <1>2, TimerEffect, BecomesNext DEF TimerInterrupt, InterruptsEnabled, Timer
  <2>. QED  BY <2>1 DEF SchedNext
<1>3. CASE SysYield
  <2>1. Yield
    BY <1>3, YieldEffect, BecomesNext DEF SysYield, Running, Yield
  <2>. QED  BY <2>1 DEF SchedNext, Calls
<1>4. CASE SysPs
  <2>1. CreateLater
    BY <1>4, PsEffect, BecomesNext DEF SysPs, Running, CreateLater
  <2>. QED  BY <2>1 DEF SchedNext, Calls
<1>5. ASSUME NEW fore \in BOOLEAN, SysCreate(fore) PROVE [SchedNext]_svars
  <2>1. Create
    BY <1>5, CreateEffect, BecomesNext DEF SysCreate, Running, Create
  <2>. QED  BY <2>1 DEF SchedNext, Calls
<1>6. CASE CtrlC
  <2>1. /\ Passes(foreground_pid) /\ ~fault /\ Len(waiting_for_remove) < MaxPending
    BY <1>1, <1>6, CtrlCEffect DEF CtrlC, InterruptsEnabled, CanKill
  <2>2. Sched' = ReapSched(Sched, sem_spaces, foreground_pid)
    BY <2>1 DEF Passes
  <2>. QED  BY <1>1, <2>1, <2>2, KillRefines
<1>7. ASSUME NEW p \in Clients, SysKill(p) PROVE [SchedNext]_svars
  <2>1. /\ Passes(p) /\ ~fault /\ Len(waiting_for_remove) < MaxPending
    BY <1>1, <1>7, KillEffect DEF SysKill, Running, InUserCode, CanKill
  <2>2. Sched' = ReapSched(Sched, sem_spaces, p)
    BY <2>1 DEF Passes
  <2>. QED  BY <1>1, <2>1, <2>2, KillRefines
<1>8. ASSUME NEW p \in Clients, SysWaitpid(p) PROVE [SchedNext]_svars
  <2>1. ~fault /\ Len(waiting_for_remove) < MaxPending
    BY <1>8 DEF SysWaitpid, Running, InUserCode, CanKill
  <2>2. CASE Passes(p)
    <3>1. Sched' = ReapSched(Sched, sem_spaces, p)
      BY <2>2 DEF Passes
    <3>. QED  BY <1>1, <2>1, <3>1, KillRefines
  <2>3. CASE ~Passes(p)
    <3>1. PICK i : Asks(Sched, sem_spaces, at, holding, p, i) /\ (Takes(p, i) \/ Sleeps(p, i))
      BY <1>0, <1>8, <2>3, WaitpidAsks
    <3>. QED  BY <1>0, <2>1, <3>1, EnterRefines
  <2>. QED  BY <2>2, <2>3
<1>9. CASE Retry
  <2>. DEFINE n == at[current_pcb].name
              i == at[current_pcb].slot
  <2>1. Asks(Sched, sem_spaces, at, holding, n, i)
    BY <1>0, <1>9, RetryAsks DEF Retry
  <2>2. Takes(n, i) \/ Sleeps(n, i)
    BY <1>1, <1>9, RetryEffect
  <2>3. waiting_for_remove = <<>> /\ MaxPending > 0
    BY <1>0, <1>1, <1>9, SchedFields DEF Tidy, Retry
  <2>4. Len(waiting_for_remove) < MaxPending
    BY <2>3
  <2>. HIDE DEF n, i
  <2>. QED  BY <1>0, <2>1, <2>2, <2>4, EnterRefines
<1>10. CASE Exit
  BY <1>10, ExitRefines
<1>11. CASE UNCHANGED kvars
  BY <1>11 DEF kvars, svars
<1>. QED  BY <1>2, <1>3, <1>4, <1>5, <1>6, <1>7, <1>8, <1>9, <1>10, <1>11 DEF LifecycleNext

\* Creating, waiting, killing and exiting drive the scheduler only through the
\* steps of SchedSpec: what is proved of the scheduler alone holds in the kernel
\* (process.c and semaphore.c on basicScheduler.c).
THEOREM LifecycleImplementsScheduler ==
  ASSUME Clients \subseteq Targets
  PROVE  LifecycleSpec => SchedSpec
<1>1. KernelInit => SchedInit
  BY DEF KernelInit
<1>2. KernelInit => LifeTidy
  <2>. SUFFICES ASSUME KernelInit PROVE LifeTidy
    OBVIOUS
  <2>1. LifeInv /\ ReapInv /\ \A p \in Pids : at[p].op = "user"
    BY LifeInit, ReapInit DEF KernelInit, User
  <2>2. Sched.current_pcb \in Pids
    BY <2>1, LifeFacts DEF LifeInv
  <2>. QED  BY <2>1, <2>2 DEF LifeTidy, Tidy
<1>3. LifeTidy /\ [LifecycleNext]_kvars => [SchedNext]_svars
  BY LifecycleRefines
<1>. QED  BY <1>1, <1>2, <1>3, TidyStep, PTL DEF LifecycleSpec, SchedSpec

\* In the kernel too a process is in exactly the queue its priority field names,
\* once: remove_node and insert_node never miss, whoever is killed, woken or waits.
THEOREM KernelQueuesMatch ==
  ASSUME Clients \subseteq Targets
  PROVE  LifecycleSpec => []QueuesMatchPriorities
  BY LifecycleImplementsScheduler, QueuesMatch, PTL

\* As long as nobody blocks or kills the idle process, get_idle_pcb never follows
\* a null current_node, for every number of processes and semaphores.
THEOREM KernelNeverFaults == LifecycleSpec => []~fault
<1>1. LifeInv => ~fault
  BY LifeFacts, SchedFields DEF LifeInv, Safe
<1>. QED  BY <1>1, LifecycleInvariant, PTL
=============================================================================
