--------------------------- MODULE TestSyncProofs ---------------------------
(***************************************************************************)
(* Proofs about TestSync: whatever the timer does, however often the test   *)
(* is run and however long its loops are, the value it prints is 0, as long *)
(* as the semaphore table has room for everybody.                           *)
(***************************************************************************)
EXTENDS TestSync, SemaphoreProofs

\* A slot for every process and one for sem_1, the keyboard's slot apart.
TableHasRoom == MAX_SEMS > MaxPid

-----------------------------------------------------------------------------
(* The semaphore table by names. *)

Named(sp, n) == \E i \in Slots : Busy(sp, i) /\ sp[i].identifier = n

Unlocked(sp, n) == \E i \in Slots : Busy(sp, i) /\ sp[i].identifier = n /\ ~sp[i].is_locked

Listed(sp, n, p) ==
  \E i \in Slots : Busy(sp, i) /\ sp[i].identifier = n /\ p \in Members(sp[i].allowed_processes)

\* The slots of the table are taken from the first on and never given back: one
\* for every pid that was handed out below n, and one for sem_1.
Prefix(sp, m) == \A i \in Slots : Busy(sp, i) <=> i =< m

Tabled(sp, n) ==
  /\ sp \in Table /\ OneSlot(sp)
  /\ \A i \in Slots : Busy(sp, i) => sp[i].identifier = sem_1 \/ sp[i].identifier \in SHELL_PID .. (n - 1)
  /\ \E m \in 0 .. (n - 1) : Prefix(sp, m) /\ (m = n - 1 => Named(sp, sem_1))

\* t has the slots of sp, with other locks and queues.
SameNames(sp, t) ==
  /\ t \in Table
  /\ \A i \in Slots : /\ t[i].status = sp[i].status /\ t[i].identifier = sp[i].identifier
                      /\ t[i].allowed_processes = sp[i].allowed_processes

\* Only the semaphore named x may have been unlocked on the way from sp to t.
UnlocksOnly(sp, t, x) == \A n : Unlocked(t, n) => Unlocked(sp, n) \/ n = x

\* The table has the same names and the same allowed processes,
LEMMA SameNamesFacts ==
  ASSUME NEW sp, NEW t, SameNames(sp, t)
  PROVE  /\ \A i \in Slots : Busy(t, i) <=> Busy(sp, i)
         /\ \A n : Named(t, n) <=> Named(sp, n)
         /\ \A n, p : Listed(t, n, p) <=> Listed(sp, n, p)
  BY DEF SameNames, Busy, Named, Listed

\* and its slots are taken in order as before.
LEMMA SameNamesTabled ==
  ASSUME NEW sp, NEW t, SameNames(sp, t), NEW n, Tabled(sp, n)
  PROVE  Tabled(t, n)
<1>1. /\ \A i \in Slots : Busy(t, i) <=> Busy(sp, i)
      /\ \A x : Named(t, x) <=> Named(sp, x)
  BY SameNamesFacts
<1>2. /\ t \in Table
      /\ \A i \in Slots : t[i].identifier = sp[i].identifier
  BY DEF SameNames
<1>3. OneSlot(t)
  BY <1>1, <1>2 DEF Tabled, OneSlot
<1>4. \A i \in Slots : Busy(t, i) => t[i].identifier = sem_1 \/ t[i].identifier \in SHELL_PID .. (n - 1)
  BY <1>1, <1>2 DEF Tabled
<1>5. \E m \in 0 .. (n - 1) : Prefix(t, m) /\ (m = n - 1 => Named(t, sem_1))
  BY <1>1 DEF Tabled, Prefix
<1>. QED  BY <1>2, <1>3, <1>4, <1>5 DEF Tabled

\* Two steps that keep the names keep them.
LEMMA SameNamesTrans ==
  ASSUME NEW sp, NEW t, NEW u, SameNames(sp, t), SameNames(t, u)
  PROVE  SameNames(sp, u)
  BY DEF SameNames

\* A table left alone keeps its names.
LEMMA SameNamesSelf ==
  ASSUME NEW sp \in Table, NEW x
  PROVE  SameNames(sp, sp) /\ UnlocksOnly(sp, sp, x)
  BY DEF SameNames, UnlocksOnly

\* A queue that changes.
LEMMA RequeuedNames ==
  ASSUME NEW sp, NEW t, NEW i, NEW q, Requeued(sp, t, i, q), NEW x
  PROVE  SameNames(sp, t) /\ UnlocksOnly(sp, t, x)
  BY DEF Requeued, SameNames, UnlocksOnly, Unlocked, Busy

\* A lock that is taken: nobody else finds that semaphore unlocked.
LEMMA TakeNames ==
  ASSUME NEW sp \in Table, OneSlot(sp), NEW i \in Slots, NEW x, Busy(sp, i)
  PROVE  LET t == [sp EXCEPT ![i].is_locked = TRUE]
         IN  /\ SameNames(sp, t) /\ UnlocksOnly(sp, t, x)
             /\ ~Unlocked(t, sp[i].identifier)
<1>. DEFINE t == [sp EXCEPT ![i].is_locked = TRUE]
<1>1. Relocked(sp, t, i)
  BY SetLock
<1>2. t[i].is_locked
  BY SlotTypes DEF Table, Semaphore
<1>. HIDE DEF t
<1>3. SameNames(sp, t)
  BY <1>1 DEF Relocked, SameNames
<1>4. \A j \in Slots : ~t[j].is_locked => t[j] = sp[j] /\ j # i
  BY <1>1, <1>2 DEF Relocked
<1>5. UnlocksOnly(sp, t, x)
  BY <1>4 DEF UnlocksOnly, Unlocked, Busy
<1>6. ~Unlocked(t, sp[i].identifier)
  BY <1>4 DEF Unlocked, OneSlot, Busy
<1>. QED  BY <1>3, <1>5, <1>6 DEF t

\* leave_region.
LEMMA UnlockNames ==
  ASSUME NEW sp \in Table, NEW n, Slot(sp, n) # NOT_FOUND
  PROVE  LET t == UnlockTable(sp, Slot(sp, n))
         IN  SameNames(sp, t) /\ UnlocksOnly(sp, t, n)
<1>. DEFINE i == Slot(sp, n)
            t == UnlockTable(sp, i)
<1>1. i \in Slots /\ Busy(sp, i) /\ sp[i].identifier = n
  BY SlotFacts
<1>. HIDE DEF i
<1>2. Relocked(sp, t, i)
  BY <1>1, UnlockFacts
<1>. HIDE DEF t
<1>3. SameNames(sp, t)
  BY <1>2 DEF Relocked, SameNames
<1>4. UnlocksOnly(sp, t, n)
  BY <1>1, <1>2 DEF Relocked, UnlocksOnly, Unlocked, Busy
<1>. QED  BY <1>3, <1>4 DEF t, i

\* my_sem_post.
LEMMA PostNames ==
  ASSUME NEW sp \in Table, NEW n
  PROVE  SameNames(sp, PostTable(sp, n)) /\ UnlocksOnly(sp, PostTable(sp, n), n)
<1>. DEFINE t == PostTable(sp, n)
            i == Slot(sp, n)
<1>1. CASE i = NOT_FOUND
  BY <1>1, PostFacts, SameNamesSelf
<1>2. CASE i # NOT_FOUND
  <2>1. Posted(sp, n, i, t, PostWakes(sp, n))
    BY <1>2, PostFacts
  <2>. HIDE DEF t, i
  <2>2. SameNames(sp, t)
    BY <2>1 DEF Posted, SameNames
  <2>3. UnlocksOnly(sp, t, n)
    BY <2>1 DEF Posted, UnlocksOnly, Unlocked, Busy
  <2>. QED  BY <2>2, <2>3 DEF t
<1>. QED  BY <1>1, <1>2

\* Waking takes the first waiter out of a queue.
LEMMA WakeNames ==
  ASSUME NEW sp \in Table, NEW i \in Slots, NEW x
  PROVE  SameNames(sp, WakeTable(sp, i)) /\ UnlocksOnly(sp, WakeTable(sp, i), x)
  BY WakeFacts, RequeuedNames

\* Going to sleep puts one in.
LEMMA SleepNames ==
  ASSUME NEW sp \in Table, NEW i \in Slots, NEW c \in Pids, NEW x
  PROVE  LET t == [sp EXCEPT ![i].queue = Append(@, c)]
         IN  SameNames(sp, t) /\ UnlocksOnly(sp, t, x)
<1>. DEFINE q == Append(sp[i].queue, c)
            t == [sp EXCEPT ![i].queue = q]
<1>1. q \in Seq(Pids)
  BY SlotTypes
<1>. HIDE DEF q
<1>2. Requeued(sp, t, i, q)
  BY <1>1, SetQueue
<1>. HIDE DEF t
<1>3. SameNames(sp, t) /\ UnlocksOnly(sp, t, x)
  BY <1>2, RequeuedNames
<1>. QED  BY <1>3 DEF t, q

\* What opening a semaphore leaves as it was, and what is new.
Opens(sp, t, v, name, c) ==
  /\ t \in Table /\ OneSlot(t)
  /\ \A i \in Slots : Busy(sp, i) => Busy(t, i) /\ t[i].identifier = sp[i].identifier
  /\ \A i \in Slots : Busy(t, i) => \/ t[i].identifier = name
                                    \/ Busy(sp, i) /\ t[i].identifier = sp[i].identifier
  /\ \A x, p : Listed(sp, x, p) => Listed(t, x, p)
  /\ Listed(t, name, c)
  /\ \A x : Unlocked(t, x) => Unlocked(sp, x) \/ (x = name /\ v = 0 /\ ~Named(sp, name))

\* A name that is in the table.
LEMMA OpenAgain ==
  ASSUME NEW sp \in Table, OneSlot(sp), NEW v, NEW name, NEW c \in Pids, Named(sp, name)
  PROVE  LET t == OpenTable(sp, v, name, c)
         IN  Opens(sp, t, v, name, c) /\ \A i \in Slots : Busy(t, i) <=> Busy(sp, i)
<1>. DEFINE i == Slot(sp, name)
            s == Append(sp[i].allowed_processes, c)
            t == [sp EXCEPT ![i].allowed_processes = s]
<1>1. i # NOT_FOUND /\ i \in Slots /\ Busy(sp, i) /\ sp[i].identifier = name
  BY SlotFacts DEF Named
<1>2. OpenTable(sp, v, name, c) = t
  BY <1>1 DEF OpenTable
<1>. HIDE DEF i
<1>3. sp[i].allowed_processes \in Seq(Pids \cup {NOBODY})
  BY <1>1, SlotTypes
<1>4. s \in Seq(Pids \cup {NOBODY}) /\ Members(s) = Members(sp[i].allowed_processes) \cup {c}
  BY <1>3, MembersAppend
<1>. HIDE DEF s
<1>5. Reallowed(sp, t, i, s)
  BY <1>1, <1>4, SetAllowed
<1>. HIDE DEF t
<1>6. /\ t \in Table
      /\ \A j \in Slots : /\ t[j].identifier = sp[j].identifier /\ t[j].is_locked = sp[j].is_locked
                          /\ Busy(t, j) <=> Busy(sp, j)
                          /\ Members(sp[j].allowed_processes) \subseteq Members(t[j].allowed_processes)
      /\ c \in Members(t[i].allowed_processes)
  BY <1>1, <1>4, <1>5 DEF Reallowed, Busy
<1>7. OneSlot(t)
  BY <1>6 DEF OneSlot
<1>8. \A x, p : Listed(sp, x, p) => Listed(t, x, p)
  BY <1>6 DEF Listed
<1>9. Listed(t, name, c)
  BY <1>1, <1>6 DEF Listed
<1>10. \A x : Unlocked(t, x) => Unlocked(sp, x)
  BY <1>6 DEF Unlocked
<1>11. Opens(sp, t, v, name, c)
  BY <1>6, <1>7, <1>8, <1>9, <1>10 DEF Opens
<1>. QED  BY <1>2, <1>6, <1>11

\* A name that is not, while there is a free slot.
LEMMA OpenNew ==
  ASSUME NEW sp \in Table, OneSlot(sp), NEW v \in {0, 1}, NEW name \in Names, NEW c \in Pids,
         ~Named(sp, name), NEW m \in Nat, Prefix(sp, m), m + 1 \in Slots
  PROVE  LET t == OpenTable(sp, v, name, c)
         IN  Opens(sp, t, v, name, c) /\ Prefix(t, m + 1)
<1>. DEFINE free == {j \in Slots : sp[j].status = "AVAILABLE"}
            k == Smallest(free)
            x == Opened(name, v, c)
            t == [sp EXCEPT ![k] = x]
<1>1. Slot(sp, name) = NOT_FOUND
  BY SlotFacts DEF Named
<1>2. \A j \in Slots : j \in free <=> m < j
  <2>1. \A j \in Slots : j \in Nat /\ sp[j].status \in {"AVAILABLE", "UNAVAILABLE"}
    BY KernelConstants, SlotTypes
  <2>. QED  BY <2>1 DEF Prefix, Busy
<1>3. free \subseteq Nat /\ m + 1 \in free
  <2>1. free \subseteq Nat
    BY KernelConstants
  <2>. HIDE DEF free
  <2>2. m < m + 1
    OBVIOUS
  <2>. QED  BY <1>2, <2>1, <2>2
<1>4. k = m + 1
  <2>1. k \in free /\ k =< m + 1
    <3>. HIDE DEF free
    <3>. QED  BY <1>3, SmallestExists
  <2>2. k \in Nat /\ m < k
    BY <1>2, <1>3, <2>1
  <2>. QED  BY <2>1, <2>2
<1>5. OpenTable(sp, v, name, c) = t
  BY <1>1, <1>3 DEF OpenTable
<1>. HIDE DEF free, k
<1>6. x \in Semaphore
  BY NewSlots
<1>7. /\ x.status = "UNAVAILABLE" /\ x.identifier = name /\ x.allowed_processes = <<c>>
      /\ x.is_locked <=> v > 0
  BY DEF Opened
<1>. HIDE DEF x
<1>8. t \in Table /\ \A j \in Slots : t[j] = IF j = m + 1 THEN x ELSE sp[j]
  BY <1>4, <1>6, SetSlot
<1>. HIDE DEF t
<1>9. ~Busy(sp, m + 1) /\ Busy(t, m + 1) /\ t[m + 1] = x
  BY <1>7, <1>8 DEF Prefix, Busy
<1>10. \A j \in Slots : Busy(sp, j) => j # m + 1 /\ t[j] = sp[j] /\ sp[j].identifier # name
  BY <1>8, <1>9 DEF Named
<1>11. \A j \in Slots : j # m + 1 => t[j] = sp[j]
  BY <1>8
<1>12. OneSlot(t)
  <2>. SUFFICES ASSUME NEW i \in Slots, NEW j \in Slots, Busy(t, i), Busy(t, j),
                       t[i].identifier = t[j].identifier
                PROVE  i = j
    BY DEF OneSlot
  <2>1. \A l \in Slots : Busy(t, l) /\ l # m + 1 => Busy(sp, l) /\ t[l] = sp[l]
    BY <1>11 DEF Busy
  <2>2. CASE i # m + 1 /\ j # m + 1
    BY <2>1, <2>2 DEF OneSlot
  <2>3. CASE i = m + 1 \/ j = m + 1
    BY <1>7, <1>9, <1>10, <2>1, <2>3
  <2>. QED  BY <2>2, <2>3
<1>13. \A y, p : Listed(sp, y, p) => Listed(t, y, p)
  BY <1>10 DEF Listed, Busy
<1>14. Listed(t, name, c)
  <2>1. c \in Members(<<c>>)
    BY DEF Members
  <2>. QED  BY <1>7, <1>9, <2>1 DEF Listed
<1>15. \A y : Unlocked(t, y) => Unlocked(sp, y) \/ (y = name /\ v = 0)
  BY <1>7, <1>9, <1>11 DEF Unlocked, Busy
<1>16. Opens(sp, t, v, name, c)
  <2>1. \A j \in Slots : Busy(sp, j) => Busy(t, j) /\ t[j].identifier = sp[j].identifier
    BY <1>10 DEF Busy
  <2>2. \A j \in Slots : Busy(t, j) => \/ t[j].identifier = name
                                       \/ Busy(sp, j) /\ t[j].identifier = sp[j].identifier
    <3>1. t[m + 1].identifier = name
      BY <1>7, <1>9
    <3>. QED  BY <1>11, <3>1 DEF Busy
  <2>. QED  BY <1>8, <1>12, <1>13, <1>14, <1>15, <2>1, <2>2 DEF Opens
<1>17. Prefix(t, m + 1)
  <2>. SUFFICES ASSUME NEW j \in Slots PROVE Busy(t, j) <=> j =< m + 1
    BY DEF Prefix
  <2>1. j \in Nat
    BY KernelConstants
  <2>2. CASE j = m + 1
    BY <1>9, <2>2
  <2>3. CASE j # m + 1
    BY <1>11, <2>1, <2>3 DEF Prefix, Busy
  <2>. QED  BY <2>2, <2>3
<1>. QED  BY <1>5, <1>16, <1>17

\* A child opens sem_1: there is a slot for it if nobody did before.
LEMMA OpenTabled ==
  ASSUME TableHasRoom, NEW sp, NEW n \in 4 .. (MaxPid + 1), Tabled(sp, n), NEW c \in Pids
  PROVE  LET t == OpenTable(sp, 0, sem_1, c) IN Opens(sp, t, 0, sem_1, c) /\ Tabled(t, n)
<1>. DEFINE t == OpenTable(sp, 0, sem_1, c)
<1>0. /\ sp \in Table /\ OneSlot(sp) /\ sem_1 \in Names
      /\ \A i \in Slots : Busy(sp, i) => sp[i].identifier = sem_1 \/ sp[i].identifier \in SHELL_PID .. (n - 1)
  BY TestSyncAssumption DEF Tabled, Names
<1>1. PICK m \in 0 .. (n - 1) : Prefix(sp, m) /\ (m = n - 1 => Named(sp, sem_1))
  BY DEF Tabled
<1>2. CASE Named(sp, sem_1)
  <2>1. Opens(sp, t, 0, sem_1, c) /\ \A i \in Slots : Busy(t, i) <=> Busy(sp, i)
    BY <1>0, <1>2, OpenAgain
  <2>. HIDE DEF t
  <2>2. Prefix(t, m) /\ Named(t, sem_1)
    BY <1>1, <2>1 DEF Prefix, Opens, Listed, Named
  <2>3. \A i \in Slots : Busy(t, i) => t[i].identifier = sem_1 \/ t[i].identifier \in SHELL_PID .. (n - 1)
    BY <1>0, <2>1 DEF Opens
  <2>4. t \in Table /\ OneSlot(t)
    BY <2>1 DEF Opens
  <2>5. Tabled(t, n)
    BY <2>2, <2>3, <2>4 DEF Tabled
  <2>. QED  BY <2>1, <2>5 DEF t
<1>3. CASE ~Named(sp, sem_1)
  <2>1. m \in Nat /\ m + 1 \in Slots /\ m + 1 \in 0 .. (n - 1)
    BY <1>1, <1>3, KernelAssumption, SchedulerAssumption DEF TableHasRoom, Slots
  <2>2. Opens(sp, t, 0, sem_1, c) /\ Prefix(t, m + 1)
    BY <1>0, <1>1, <1>3, <2>1, OpenNew
  <2>. HIDE DEF t
  <2>3. Named(t, sem_1)
    BY <2>2 DEF Opens, Listed, Named
  <2>4. \A i \in Slots : Busy(t, i) => t[i].identifier = sem_1 \/ t[i].identifier \in SHELL_PID .. (n - 1)
    BY <1>0, <2>2 DEF Opens
  <2>5. t \in Table /\ OneSlot(t)
    BY <2>2 DEF Opens
  <2>6. Tabled(t, n)
    BY <2>1, <2>2, <2>3, <2>4, <2>5 DEF Tabled
  <2>. QED  BY <2>2, <2>6 DEF t
<1>. QED  BY <1>2, <1>3

\* create_process opens the semaphore of the new pid.
LEMMA CreateTabled ==
  ASSUME TableHasRoom, NEW sp, NEW n \in 4 .. MaxPid, Tabled(sp, n), NEW c \in Pids
  PROVE  LET t == OpenTable(sp, 1, n, c) IN Opens(sp, t, 1, n, c) /\ Tabled(t, n + 1)
<1>. DEFINE t == OpenTable(sp, 1, n, c)
<1>0. /\ sp \in Table /\ OneSlot(sp) /\ n \in Names /\ n # sem_1
      /\ \A i \in Slots : Busy(sp, i) => sp[i].identifier = sem_1 \/ sp[i].identifier \in SHELL_PID .. (n - 1)
  BY TestSyncAssumption, KernelAssumption, SchedulerAssumption DEF Tabled, Names, Pids, SHELL_PID
<1>1. PICK m \in 0 .. (n - 1) : Prefix(sp, m) /\ (m = n - 1 => Named(sp, sem_1))
  BY DEF Tabled
<1>2. ~Named(sp, n)
  BY <1>0, SchedulerAssumption DEF Named
<1>3. m \in Nat /\ m + 1 \in Slots /\ m + 1 \in 0 .. n
  BY <1>1, KernelAssumption, SchedulerAssumption DEF TableHasRoom, Slots
<1>4. Opens(sp, t, 1, n, c) /\ Prefix(t, m + 1)
  BY <1>0, <1>1, <1>2, <1>3, OpenNew
<1>. HIDE DEF t
<1>5. Named(sp, sem_1) => Named(t, sem_1)
  BY <1>4 DEF Opens, Named
<1>6. \A i \in Slots : Busy(t, i) => t[i].identifier = sem_1 \/ t[i].identifier \in SHELL_PID .. n
  BY <1>0, <1>4, SchedulerAssumption DEF Opens, SHELL_PID
<1>7. t \in Table /\ OneSlot(t)
  BY <1>4 DEF Opens
<1>8. \E l \in 0 .. n : Prefix(t, l) /\ (l = n => Named(t, sem_1))
  BY <1>1, <1>3, <1>4, <1>5, SchedulerAssumption
<1>9. n = (n + 1) - 1
  BY SchedulerAssumption
<1>10. Tabled(t, n + 1)
  BY <1>6, <1>7, <1>8, <1>9 DEF Tabled
<1>. QED  BY <1>4, <1>10 DEF t

-----------------------------------------------------------------------------
(* What the steps of the kernel do, as far as the test can tell. *)

Base == /\ Safe(Sched) /\ creation_queue = <<>>
        /\ at \in [Pids -> Place]
        /\ Tabled(sem_spaces, pid)

\* Nobody is created, no semaphore but x is unlocked and nobody but d dies; 0 is
\* neither a name nor a pid.
Kept(x, d) ==
  /\ Safe(Sched') /\ creation_queue' = <<>> /\ pid' = pid
  /\ SameNames(sem_spaces, sem_spaces') /\ UnlocksOnly(sem_spaces, sem_spaces', x)
  /\ \A p \in Pids : status[p] = DEAD => status'[p] = DEAD
  /\ \A p \in Pids : status'[p] = DEAD => status[p] = DEAD \/ p = d

\* What the proofs use of Base.
LEMMA BaseFacts ==
  ASSUME Base
  PROVE  /\ Safe(Sched) /\ Sched \in SchedState /\ Sched.creation_queue = <<>> /\ ~fault
         /\ sem_spaces \in Table /\ OneSlot(sem_spaces)
         /\ current_pcb \in Pids /\ current_pcb < pid /\ pid \in 4 .. (MaxPid + 1)
         /\ status[current_pcb] # NONE /\ status \in [Pids -> Statuses]
         /\ \A p \in Pids : status[p] = NONE <=> p >= pid
<1>1. Safe(Sched) /\ Sched.creation_queue = <<>> /\ ~fault
  BY SchedFields DEF Base, Safe
<1>2. Sched \in SchedState /\ HandedOut(Sched) /\ CurrentOut(Sched)
  BY <1>1, QueueTypes DEF Safe, Sound
<1>3. sem_spaces \in Table /\ OneSlot(sem_spaces)
  BY DEF Base, Tabled
<1>4. current_pcb \in Pids /\ pid \in 4 .. (MaxPid + 1) /\ status \in [Pids -> Statuses]
  BY <1>2, SchedFields DEF SchedState
<1>5. current_pcb < pid /\ \A p \in Pids : status[p] = NONE <=> p >= pid
  BY <1>2, SchedFields DEF HandedOut, CurrentOut
<1>6. ~(current_pcb >= pid)
  BY <1>4, <1>5, SchedulerAssumption DEF Pids, SHELL_PID
<1>. QED  BY <1>1, <1>2, <1>3, <1>4, <1>5, <1>6

\* The fields of the scheduler after a step.
LEMMA SchedPrimed ==
  /\ Sched'.status = status' /\ Sched'.current_pcb = current_pcb' /\ Sched'.pid = pid'
  /\ Sched'.creation_queue = creation_queue'
  BY DEF Sched

\* The foreground stays with whoever a step says, since nobody waits to be created.
LEMMA MovedTo ==
  ASSUME Base, NEW f, Moved(f)
  PROVE  foreground_pid' = f
  BY DEF Base, Moved

\* A step of the scheduler, with the names of the table as they were.
LEMMA CalmKept ==
  ASSUME Base, NEW r, Sched' = r, Safe(r), r.pid = Sched.pid, r.creation_queue = <<>>, NEW x, NEW d,
         SameNames(sem_spaces, sem_spaces'), UnlocksOnly(sem_spaces, sem_spaces', x),
         \A p \in Pids : Sched.status[p] = DEAD => r.status[p] = DEAD,
         \A p \in Pids : r.status[p] = DEAD => Sched.status[p] = DEAD \/ p = d
  PROVE  Kept(x, d)
<1>1. Safe(Sched') /\ creation_queue' = <<>> /\ pid' = pid
  BY SchedFields, SchedPrimed
<1>2. /\ \A p \in Pids : status[p] = DEAD => status'[p] = DEAD
      /\ \A p \in Pids : status'[p] = DEAD => status[p] = DEAD \/ p = d
  BY SchedFields, SchedPrimed
<1>. QED  BY <1>1, <1>2 DEF Kept

\* The timer.
LEMMA TimerKept ==
  ASSUME Base, TimerInterrupt, NEW x
  PROVE  Kept(x, x) /\ at' = at /\ foreground_pid' = foreground_pid
<1>. DEFINE r == timer_interrupt(Sched)
<1>1. /\ Sched' = r /\ sem_spaces' = sem_spaces
      /\ at' = at /\ Moved(foreground_pid)
  BY TimerEffect
<1>2. \/ Switched(Sched, r)
      \/ /\ Safe(r) /\ r.status = Sched.status /\ r.pid = Sched.pid
         /\ r.creation_queue = Sched.creation_queue
  BY TimerCalm, BaseFacts
<1>. HIDE DEF r
<1>3. /\ Safe(r) /\ r.pid = Sched.pid /\ r.creation_queue = <<>>
      /\ \A p \in Pids : Sched.status[p] = DEAD => r.status[p] = DEAD
      /\ \A p \in Pids : r.status[p] = DEAD => Sched.status[p] = DEAD \/ p = x
  BY <1>2, BaseFacts DEF Switched, Alike
<1>4. SameNames(sem_spaces, sem_spaces') /\ UnlocksOnly(sem_spaces, sem_spaces', x)
  BY <1>1, BaseFacts, SameNamesSelf
<1>5. Kept(x, x)
  BY <1>1, <1>3, <1>4, CalmKept
<1>. QED  BY <1>1, <1>5, MovedTo

\* sys_yield, and the end of an exit.
LEMMA YieldKept ==
  ASSUME Base, SysYield \/ ExitFinish, NEW x
  PROVE  Kept(x, x) /\ at' = at /\ foreground_pid' = foreground_pid
<1>. DEFINE r == finish_current_tick(Sched)
<1>1. /\ Sched' = r /\ sem_spaces' = sem_spaces
      /\ at' = at /\ Moved(foreground_pid)
  BY YieldEffect
<1>2. Switched(Sched, r)
  BY FinishTickCalm, BaseFacts
<1>. HIDE DEF r
<1>3. /\ Safe(r) /\ r.pid = Sched.pid /\ r.creation_queue = <<>>
      /\ \A p \in Pids : Sched.status[p] = DEAD => r.status[p] = DEAD
      /\ \A p \in Pids : r.status[p] = DEAD => Sched.status[p] = DEAD \/ p = x
  BY <1>2 DEF Switched, Alike
<1>4. SameNames(sem_spaces, sem_spaces') /\ UnlocksOnly(sem_spaces, sem_spaces', x)
  BY <1>1, BaseFacts, SameNamesSelf
<1>5. Kept(x, x)
  BY <1>1, <1>3, <1>4, CalmKept
<1>. QED  BY <1>1, <1>5, MovedTo

\* The shell goes to sleep in front of the keyboard.
LEMMA BlockKept ==
  ASSUME Base, Becomes(block_current(Now)), current_pcb # IDLE_PID, status[current_pcb] # DEAD, NEW x
  PROVE  Kept(x, x) /\ at' = at /\ foreground_pid' = foreground_pid
<1>. DEFINE r == block_current(Sched)
<1>1. Frame(Now, block_current(Now), r)
  BY NowParts, PartsFields, BlockCurrentFrame
<1>2. /\ Sched' = r /\ sem_spaces' = sem_spaces
      /\ at' = at /\ Moved(foreground_pid)
  <2>1. Parts(block_current(Now), r, sem_spaces, foreground_pid, at, holding)
    BY <1>1, NowParts, FrameParts
  <2>. QED  BY <2>1, BecomesParts
<1>3. /\ Safe(r) /\ r.pid = Sched.pid /\ r.creation_queue = <<>>
      /\ \A p \in Pids : r.status[p] = DEAD <=> Sched.status[p] = DEAD
  BY BlockCalm, BaseFacts, SchedFields
<1>. HIDE DEF r
<1>4. SameNames(sem_spaces, sem_spaces') /\ UnlocksOnly(sem_spaces, sem_spaces', x)
  BY <1>2, BaseFacts, SameNamesSelf
<1>5. Kept(x, x)
  BY <1>2, <1>3, <1>4, CalmKept
<1>. QED  BY <1>2, <1>5, MovedTo

\* Nobody comes back from the dead.
LEMMA ReviveDead ==
  ASSUME Base, NEW W
  PROVE  LET r == os_revive_process(Sched, W)
         IN  /\ Safe(r) /\ r.pid = Sched.pid /\ r.creation_queue = <<>>
             /\ \A p \in Pids : Sched.status[p] = DEAD => r.status[p] = DEAD
             /\ \A p \in Pids : r.status[p] = DEAD => Sched.status[p] = DEAD
<1>. DEFINE r == os_revive_process(Sched, W)
<1>1. /\ Safe(r) /\ SameRest(Sched, r) /\ SameLists(Sched, r)
      /\ \A x \in Pids : r.status[x] = IF /\ x \in W /\ get_pcb_entry(Sched, x)
                                          /\ Sched.status[x] \in {BLOCKED, RUNNING}
                                       THEN READY ELSE Sched.status[x]
  BY ReviveCalm, BaseFacts
<1>. HIDE DEF r
<1>2. \A p \in Pids : r.status[p] = DEAD <=> Sched.status[p] = DEAD
  BY <1>1 DEF BLOCKED, RUNNING, READY, DEAD
<1>3. r.pid = Sched.pid /\ r.creation_queue = <<>>
  BY <1>1, BaseFacts DEF SameRest, SameLists
<1>. QED  BY <1>1, <1>2, <1>3 DEF r

\* A key wakes the shell.
LEMMA KeyKept ==
  ASSUME Base, NEW W, Becomes(os_revive_process(Now, W)), NEW x
  PROVE  Kept(x, x) /\ at' = at /\ foreground_pid' = foreground_pid
<1>. DEFINE r == os_revive_process(Sched, W)
<1>1. Frame(Now, os_revive_process(Now, W), r)
  BY NowParts, PartsFields, ReviveFrame
<1>2. /\ Sched' = r /\ sem_spaces' = sem_spaces
      /\ at' = at /\ Moved(foreground_pid)
  <2>1. Parts(os_revive_process(Now, W), r, sem_spaces, foreground_pid, at, holding)
    BY <1>1, NowParts, FrameParts
  <2>. QED  BY <2>1, BecomesParts
<1>3. /\ Safe(r) /\ r.pid = Sched.pid /\ r.creation_queue = <<>>
      /\ \A p \in Pids : Sched.status[p] = DEAD => r.status[p] = DEAD
      /\ \A p \in Pids : r.status[p] = DEAD => Sched.status[p] = DEAD
  BY ReviveDead
<1>. HIDE DEF r
<1>4. SameNames(sem_spaces, sem_spaces') /\ UnlocksOnly(sem_spaces, sem_spaces', x)
  BY <1>2, BaseFacts, SameNamesSelf
<1>5. Kept(x, x)
  BY <1>2, <1>3, <1>4, CalmKept
<1>. QED  BY <1>2, <1>5, MovedTo

\* A post unlocks the semaphore it names.
LEMMA PostKept ==
  ASSUME Base, NEW n, SysSemPost(n)
  PROVE  Kept(n, 0) /\ at' = at /\ foreground_pid' = foreground_pid
<1>. DEFINE r == os_revive_process(Sched, PostWakes(sem_spaces, n))
<1>1. /\ Sched' = r /\ sem_spaces' = PostTable(sem_spaces, n)
      /\ at' = at /\ Moved(foreground_pid)
  BY SemPostEffect, BaseFacts
<1>2. /\ Safe(r) /\ r.pid = Sched.pid /\ r.creation_queue = <<>>
      /\ \A p \in Pids : Sched.status[p] = DEAD => r.status[p] = DEAD
      /\ \A p \in Pids : r.status[p] = DEAD => Sched.status[p] = DEAD
  BY ReviveDead
<1>. HIDE DEF r
<1>3. SameNames(sem_spaces, sem_spaces') /\ UnlocksOnly(sem_spaces, sem_spaces', n)
  BY <1>1, BaseFacts, PostNames
<1>4. Kept(n, 0)
  BY <1>1, <1>2, <1>3, CalmKept
<1>. QED  BY <1>1, <1>4, MovedTo

\* A process waits: it sleeps in enter_region.
LEMMA SleepKept ==
  ASSUME Base, NEW n \in Names, NEW i \in Slots, Sleeps(n, i),
         current_pcb # IDLE_PID, status[current_pcb] # DEAD
  PROVE  /\ Kept(0, 0) /\ foreground_pid' = foreground_pid
         /\ at' = [at EXCEPT ![current_pcb] = Waiting(n, i)]
<1>. DEFINE r == block_current(Sched)
<1>1. /\ Sched' = r /\ sem_spaces' = [sem_spaces EXCEPT ![i].queue = Append(@, current_pcb)]
      /\ at' = [at EXCEPT ![current_pcb] = Waiting(n, i)] /\ Moved(foreground_pid)
  BY DEF Sleeps
<1>2. /\ Safe(r) /\ r.pid = Sched.pid /\ r.creation_queue = <<>>
      /\ \A p \in Pids : r.status[p] = DEAD <=> Sched.status[p] = DEAD
  BY BlockCalm, BaseFacts, SchedFields
<1>. HIDE DEF r
<1>3. SameNames(sem_spaces, sem_spaces') /\ UnlocksOnly(sem_spaces, sem_spaces', 0)
  BY <1>1, BaseFacts, SleepNames
<1>4. Kept(0, 0)
  BY <1>1, <1>2, <1>3, CalmKept
<1>. QED  BY <1>1, <1>4, MovedTo

\* A child gets sem_1.
LEMMA TakeKept ==
  ASSUME Base, NEW i \in Slots, Takes(sem_1, i), Busy(sem_spaces, i), sem_spaces[i].identifier = sem_1
  PROVE  /\ Kept(0, 0) /\ foreground_pid' = foreground_pid
         /\ at' = [at EXCEPT ![current_pcb] = User]
         /\ Unlocked(sem_spaces, sem_1) /\ ~Unlocked(sem_spaces', sem_1)
<1>. DEFINE t == [sem_spaces EXCEPT ![i].is_locked = TRUE]
<1>1. ~Reaps(Sched, sem_1)
  BY KernelConstants, TestSyncAssumption DEF Reaps
<1>2. /\ Sched' = Sched /\ sem_spaces' = t /\ ~sem_spaces[i].is_locked
      /\ at' = [at EXCEPT ![current_pcb] = User] /\ Moved(foreground_pid)
  BY <1>1 DEF Takes, ReapSched, ReapTable, ReapFore
<1>3. SameNames(sem_spaces, t) /\ UnlocksOnly(sem_spaces, t, 0) /\ ~Unlocked(t, sem_1)
  BY BaseFacts, TakeNames
<1>. HIDE DEF t
<1>4. Kept(0, 0)
  <2>1. SameNames(sem_spaces, sem_spaces') /\ UnlocksOnly(sem_spaces, sem_spaces', 0)
    BY <1>2, <1>3
  <2>. QED  BY <1>2, <2>1, BaseFacts, CalmKept
<1>5. Unlocked(sem_spaces, sem_1)
  BY <1>2 DEF Unlocked
<1>. QED  BY <1>2, <1>3, <1>4, <1>5, MovedTo

\* test_sync gets the semaphore of a child, which it kills.
LEMMA ReapKept ==
  ASSUME Base, NEW n \in Clients, NEW i \in Slots, Takes(n, i), Busy(sem_spaces, i),
         sem_spaces[i].identifier = n
  PROVE  /\ Kept(n, n)
         /\ foreground_pid' = foreground_pid \/ (foreground_pid' = SHELL_PID /\ foreground_pid = n)
         /\ at' = [at EXCEPT ![current_pcb] = User] /\ Unlocked(sem_spaces, n)
<1>. DEFINE t == [sem_spaces EXCEPT ![i].is_locked = TRUE]
            r == ReapSched(Sched, t, n)
            u == ReapTable(Sched, t, n)
            f == ReapFore(Sched, foreground_pid, n)
<1>1. /\ Sched' = r /\ sem_spaces' = u /\ ~sem_spaces[i].is_locked
      /\ at' = [at EXCEPT ![current_pcb] = User] /\ Moved(f)
  BY DEF Takes
<1>2. SameNames(sem_spaces, t) /\ UnlocksOnly(sem_spaces, t, n) /\ t \in Table
  BY BaseFacts, TakeNames DEF SameNames
<1>3. f = foreground_pid \/ (f = SHELL_PID /\ foreground_pid = n)
  BY DEF ReapFore
<1>. HIDE DEF t, f
<1>4. SameNames(sem_spaces, u) /\ UnlocksOnly(sem_spaces, u, n)
  <2>1. CASE Reaps(Sched, n)
    <3>1. u = PostTable(t, n)
      BY <2>1 DEF ReapTable
    <3>2. SameNames(t, u) /\ UnlocksOnly(t, u, n)
      BY <1>2, <3>1, PostNames
    <3>. HIDE DEF u
    <3>3. UnlocksOnly(sem_spaces, u, n)
      BY <1>2, <3>2 DEF UnlocksOnly
    <3>. QED  BY <1>2, <3>2, <3>3, SameNamesTrans
  <2>2. CASE ~Reaps(Sched, n)
    BY <1>2, <2>2 DEF ReapTable
  <2>. QED  BY <2>1, <2>2
<1>5. /\ Safe(r) /\ r.pid = Sched.pid /\ r.creation_queue = <<>>
      /\ \A p \in Pids : Sched.status[p] = DEAD => r.status[p] = DEAD
      /\ \A p \in Pids : r.status[p] = DEAD => Sched.status[p] = DEAD \/ p = n
  <2>1. CASE Reaps(Sched, n)
    <3>. DEFINE W == PostWakes(t, n)
                k == kill(Sched, n, W)
    <3>1. r = k
      BY <2>1 DEF ReapSched
    <3>2. n \in Pids /\ n # IDLE_PID /\ n # SHELL_PID /\ get_pcb_entry(Sched, n)
      BY <2>1, KernelConstants DEF Reaps
    <3>. HIDE DEF W
    <3>3. /\ Safe(k) /\ k.pid = Sched.pid
          /\ n = Sched.current_pcb => k.creation_queue = <<>>
          /\ n # Sched.current_pcb => k.creation_queue = Sched.creation_queue
          /\ \A p \in Pids : k.status[p] = DEAD <=> p = n \/ Sched.status[p] = DEAD
      BY <3>2, BaseFacts, KillCalm
    <3>. HIDE DEF k, r
    <3>. QED  BY <3>1, <3>3, BaseFacts
  <2>2. CASE ~Reaps(Sched, n)
    BY <2>2, BaseFacts DEF ReapSched
  <2>. QED  BY <2>1, <2>2
<1>. HIDE DEF r, u
<1>6. Kept(n, n)
  BY <1>1, <1>4, <1>5, CalmKept
<1>7. Unlocked(sem_spaces, n)
  BY <1>1 DEF Unlocked
<1>8. foreground_pid' = f
  BY <1>1, MovedTo
<1>. QED  BY <1>1, <1>3, <1>6, <1>7, <1>8

\* waitpid of a child by the process that created it.
LEMMA WaitpidKept ==
  ASSUME Base, NEW n \in Clients, Becomes(waitpid(Now, n)), Listed(sem_spaces, n, current_pcb)
  PROVE  \/ /\ Kept(0, 0) /\ at' = at /\ foreground_pid' = foreground_pid
            /\ status[n] \in {DEAD, NONE}
         \/ \E i \in Slots : /\ Busy(sem_spaces, i) /\ sem_spaces[i].identifier = n
                             /\ Takes(n, i) \/ Sleeps(n, i)
<1>1. n \in Pids
  BY KernelConstants
<1>2. CASE ~get_pcb_entry(Now, n)
  <2>1. Becomes(Now)
    BY <1>2 DEF waitpid
  <2>2. /\ Sched' = Sched /\ sem_spaces' = sem_spaces /\ at' = at /\ Moved(foreground_pid)
    BY <2>1, NowBecomes
  <2>3. SameNames(sem_spaces, sem_spaces') /\ UnlocksOnly(sem_spaces, sem_spaces', 0)
    BY <2>2, BaseFacts, SameNamesSelf
  <2>4. Kept(0, 0)
    BY <2>2, <2>3, BaseFacts, CalmKept
  <2>5. ~get_pcb_entry(Sched, n)
    BY <1>2, EntryFrame, NowParts, PartsFields
  <2>6. Sched.status[n] \in {DEAD, NONE}
    <3>1. n \notin Members(Sched.creation_queue)
      BY BaseFacts DEF Members
    <3>. QED  BY <1>1, <2>5, <3>1, BaseFacts, EntryFacts DEF Safe
  <2>. QED  BY <2>2, <2>4, <2>6, MovedTo, SchedFields
<1>3. CASE get_pcb_entry(Now, n)
  <2>. DEFINE i == Slot(sem_spaces, n)
  <2>1. Becomes(my_sem_wait(Now, n))
    BY <1>3 DEF waitpid
  <2>2. PICK j \in Slots : /\ Busy(sem_spaces, j) /\ sem_spaces[j].identifier = n
                           /\ current_pcb \in Members(sem_spaces[j].allowed_processes)
    BY DEF Listed
  <2>3. i = j /\ i # NOT_FOUND
    BY <2>2, SlotFacts, BaseFacts DEF OneSlot
  <2>4. Takes(n, i) \/ Sleeps(n, i)
    BY <2>1, <2>2, <2>3, WaitEffect, BaseFacts
  <2>. QED  BY <2>2, <2>3, <2>4
<1>. QED  BY <1>2, <1>3

\* A process is created.
LEMMA CreateFacts ==
  ASSUME Base, TableHasRoom, NEW fore \in BOOLEAN, SysCreate(fore)
  PROVE  /\ Safe(Sched') /\ creation_queue' = <<>> /\ pid' = pid + 1 /\ pid \in Clients
         /\ Opens(sem_spaces, sem_spaces', 1, pid, current_pcb) /\ Tabled(sem_spaces', pid + 1)
         /\ at' = at /\ foreground_pid' = IF fore THEN pid ELSE foreground_pid
         /\ \A p \in Pids : status'[p] = DEAD <=> status[p] = DEAD
<1>. DEFINE r == create_and_insert_process(Sched)
            f == IF fore THEN pid ELSE foreground_pid
<1>1. /\ Sched' = r /\ sem_spaces' = OpenTable(sem_spaces, 1, pid, current_pcb)
      /\ at' = at /\ Moved(f)
  BY CreateEffect
<1>2. pid =< MaxPid
  BY DEF SysCreate
<1>3. /\ Safe(r) /\ r.pid = Sched.pid + 1 /\ SameLists(Sched, r) /\ Sched.pid \in Clients
      /\ Sched.status[Sched.pid] = NONE
      /\ \A x \in Pids : r.status[x] = IF x = Sched.pid THEN READY ELSE Sched.status[x]
  BY <1>2, BaseFacts, SchedFields, CreateCalm
<1>. HIDE DEF r
<1>4. r.creation_queue = <<>> /\ \A x \in Pids : r.status[x] = DEAD <=> Sched.status[x] = DEAD
  BY <1>3, BaseFacts DEF SameLists, READY, DEAD, NONE
<1>5. Opens(sem_spaces, sem_spaces', 1, pid, current_pcb) /\ Tabled(sem_spaces', pid + 1)
  <2>1. pid \in 4 .. MaxPid
    BY <1>2, BaseFacts, SchedulerAssumption
  <2>. QED  BY <1>1, <2>1, BaseFacts, CreateTabled DEF Base
<1>6. foreground_pid' = f
  BY <1>1, MovedTo
<1>. QED  BY <1>1, <1>3, <1>4, <1>5, <1>6, SchedFields, SchedPrimed

\* A child opens sem_1, which succeeds.
LEMMA OpenFacts ==
  ASSUME Base, TableHasRoom, SysSemOpen(sem_1, 0)
  PROVE  /\ Sched' = Sched /\ at' = at /\ foreground_pid' = foreground_pid
         /\ Opens(sem_spaces, sem_spaces', 0, sem_1, current_pcb) /\ Tabled(sem_spaces', pid)
         /\ locate_sem(my_sem_open(Now, 0, sem_1), sem_1) # NOT_FOUND
<1>. DEFINE t == OpenTable(sem_spaces, 0, sem_1, current_pcb)
            k == my_sem_open(Now, 0, sem_1)
<1>1. /\ Sched' = Sched /\ sem_spaces' = t
      /\ at' = at /\ Moved(foreground_pid)
  BY SemOpenEffect
<1>2. Opens(sem_spaces, t, 0, sem_1, current_pcb) /\ Tabled(t, pid)
  BY BaseFacts, OpenTabled DEF Base
<1>3. Parts(k, Sched, OpenTable(sem_spaces, 0, sem_1, Sched.current_pcb), foreground_pid, at, holding)
  BY NowParts, OpenParts
<1>4. k.sem_spaces = t
  BY <1>3, PartsFields, SchedFields
<1>. HIDE DEF t, k
<1>5. locate_sem(k, sem_1) = Slot(t, sem_1)
  BY <1>4 DEF locate_sem, Slot
<1>6. Slot(t, sem_1) # NOT_FOUND
  BY <1>2, SlotFacts DEF Opens, Listed
<1>. QED  BY <1>1, <1>2, <1>5, <1>6, MovedTo DEF k

\* A child waits for sem_1.
LEMMA WaitSemKept ==
  ASSUME Base, SysSemWait(sem_1), Listed(sem_spaces, sem_1, current_pcb)
  PROVE  \E i \in Slots : /\ Busy(sem_spaces, i) /\ sem_spaces[i].identifier = sem_1
                          /\ Takes(sem_1, i) \/ Sleeps(sem_1, i)
<1>. DEFINE i == Slot(sem_spaces, sem_1)
<1>1. PICK j \in Slots : /\ Busy(sem_spaces, j) /\ sem_spaces[j].identifier = sem_1
                         /\ current_pcb \in Members(sem_spaces[j].allowed_processes)
  BY DEF Listed
<1>2. i = j /\ i # NOT_FOUND
  BY <1>1, SlotFacts, BaseFacts DEF OneSlot
<1>3. Takes(sem_1, i) \/ Sleeps(sem_1, i)
  BY <1>1, <1>2, SemWaitEffect, BaseFacts
<1>. QED  BY <1>1, <1>2, <1>3

\* The steps of an exit.  x is where the process is after the step.
Leaves(x) ==
  /\ Kept(current_pcb, current_pcb) /\ at' = [at EXCEPT ![current_pcb] = x]
  /\ x \in Place /\ x.op \notin {"user", "wait"}
  /\ x.op = "wake" => x.slot \in Slots
  /\ x.op \in {"remove", "finish"} => status'[current_pcb] = DEAD
  /\ foreground_pid' = foreground_pid \/ (foreground_pid' = SHELL_PID /\ foreground_pid = current_pcb)

\* A step of an exit is a place in the kernel.
LEMMA GoesPlace ==
  ASSUME NEW op \in {"unlock", "wake", "die", "remove", "finish"}, NEW i \in Slots \cup {0}
  PROVE  Goes(op, i) \in Place /\ Goes(op, i).op = op /\ Goes(op, i).slot = i
  BY DEF Goes, Place

\* An exit unlocks the process's own semaphore, and kills nobody else.
LEMMA ExitKept ==
  ASSUME Base, Exit, current_pcb # IDLE_PID,
         at[current_pcb].op = "wake" => at[current_pcb].slot \in Slots,
         at[current_pcb].op \in {"remove", "finish"} => status[current_pcb] = DEAD
  PROVE  \E x : Leaves(x)
<1>. DEFINE c == current_pcb
<1>0. /\ c \in Pids /\ status[c] # NONE /\ SameNames(sem_spaces, sem_spaces)
      /\ UnlocksOnly(sem_spaces, sem_spaces, c) /\ at \in [Pids -> Place]
      /\ c = Sched.current_pcb /\ status = Sched.status
  BY BaseFacts, SameNamesSelf, SchedFields DEF Base
<1>1. CASE ExitStart
  <2>. DEFINE x == Goes("unlock", 0)
  <2>1. /\ Sched' = Sched /\ sem_spaces' = sem_spaces /\ at' = [at EXCEPT ![c] = x]
        /\ Moved(IF foreground_pid = c THEN SHELL_PID ELSE foreground_pid)
    BY <1>1, ExitStartEffect
  <2>2. x \in Place /\ x.op = "unlock"
    BY GoesPlace
  <2>. HIDE DEF x, c
  <2>3. Kept(c, c)
    BY <1>0, <2>1, BaseFacts, CalmKept
  <2>4. foreground_pid' = foreground_pid \/ (foreground_pid' = SHELL_PID /\ foreground_pid = c)
    BY <2>1, MovedTo
  <2>. QED  BY <2>1, <2>2, <2>3, <2>4 DEF Leaves, c
<1>2. CASE ExitUnlock
  <2>. DEFINE i == Slot(sem_spaces, c)
  <2>1. /\ Sched' = Sched /\ foreground_pid' = foreground_pid
        /\ \/ /\ i = NOT_FOUND /\ sem_spaces' = sem_spaces
              /\ at' = [at EXCEPT ![c] = Goes("die", 0)]
           \/ /\ i # NOT_FOUND /\ sem_spaces' = UnlockTable(sem_spaces, i)
              /\ at' = [at EXCEPT ![c] = Goes("wake", i)]
    BY <1>2, ExitUnlockEffect, MovedTo
  <2>2. i # NOT_FOUND => i \in Slots
    BY SlotFacts
  <2>3. SameNames(sem_spaces, sem_spaces') /\ UnlocksOnly(sem_spaces, sem_spaces', c)
    BY <1>0, <2>1, BaseFacts, UnlockNames
  <2>4. Kept(c, c)
    BY <2>1, <2>3, BaseFacts, CalmKept
  <2>. HIDE DEF i, c
  <2>5. CASE i = NOT_FOUND
    <3>1. Goes("die", 0) \in Place /\ Goes("die", 0).op = "die"
      BY GoesPlace
    <3>. QED  BY <2>1, <2>4, <2>5, <3>1 DEF Leaves, c
  <2>6. CASE i # NOT_FOUND
    <3>1. Goes("wake", i) \in Place /\ Goes("wake", i).op = "wake" /\ Goes("wake", i).slot \in Slots
      BY <2>2, <2>6, GoesPlace
    <3>. QED  BY <2>1, <2>4, <2>6, <3>1 DEF Leaves, c
  <2>. QED  BY <2>5, <2>6
<1>3. CASE ExitWake
  <2>. DEFINE x == Goes("die", 0)
              i == at[c].slot
              r == os_revive_process(Sched, Members(First(sem_spaces[i].queue)))
  <2>1. /\ Sched' = r /\ sem_spaces' = WakeTable(sem_spaces, i) /\ at' = [at EXCEPT ![c] = x]
        /\ foreground_pid' = foreground_pid
    BY <1>3, ExitWakeEffect, MovedTo
  <2>2. x \in Place /\ x.op = "die"
    BY GoesPlace
  <2>3. i \in Slots
    BY <1>3 DEF ExitWake, Exiting
  <2>4. /\ Safe(r) /\ r.pid = Sched.pid /\ r.creation_queue = <<>>
        /\ \A p \in Pids : Sched.status[p] = DEAD => r.status[p] = DEAD
        /\ \A p \in Pids : r.status[p] = DEAD => Sched.status[p] = DEAD
    BY ReviveDead
  <2>. HIDE DEF x, i, r, c
  <2>5. SameNames(sem_spaces, sem_spaces') /\ UnlocksOnly(sem_spaces, sem_spaces', c)
    BY <2>1, <2>3, BaseFacts, WakeNames
  <2>6. Kept(c, c)
    BY <2>1, <2>4, <2>5, CalmKept
  <2>. QED  BY <2>1, <2>2, <2>6 DEF Leaves, c
<1>4. CASE ExitDie
  <2>. DEFINE x == Goes("remove", 0)
              r == [Sched EXCEPT !.status[c] = DEAD]
  <2>1. /\ Sched' = r /\ sem_spaces' = sem_spaces /\ at' = [at EXCEPT ![c] = x]
        /\ foreground_pid' = foreground_pid
    BY <1>4, ExitDieEffect, MovedTo
  <2>2. x \in Place /\ x.op = "remove"
    BY GoesPlace
  <2>3. /\ Safe(r) /\ SameRest(Sched, r) /\ SameLists(Sched, r)
        /\ \A y \in Pids : r.status[y] = IF y = c THEN DEAD ELSE Sched.status[y]
    BY <1>0, BaseFacts, SetStatusCalm
  <2>. HIDE DEF x, r, c
  <2>4. r.pid = Sched.pid /\ r.creation_queue = <<>>
    BY <2>3, BaseFacts DEF SameRest, SameLists
  <2>5. Kept(c, c)
    BY <1>0, <2>1, <2>3, <2>4, CalmKept
  <2>6. status'[c] = DEAD
    BY <1>0, <2>1, <2>3, SchedPrimed
  <2>. QED  BY <2>1, <2>2, <2>5, <2>6 DEF Leaves, c
<1>5. CASE ExitRemove
  <2>. DEFINE x == Goes("finish", 0)
              r == add_process_to_removal_queue(Sched, c)
  <2>1. /\ Sched' = r /\ sem_spaces' = sem_spaces /\ at' = [at EXCEPT ![c] = x]
        /\ foreground_pid' = foreground_pid
    BY <1>5, ExitRemoveEffect, MovedTo
  <2>2. x \in Place /\ x.op = "finish"
    BY GoesPlace
  <2>3. status[c] = DEAD
    BY <1>5 DEF ExitRemove, Exiting
  <2>4. Safe(r) /\ SameRest(Sched, r) /\ r.status = Sched.status /\ r.creation_queue = Sched.creation_queue
    BY <1>0, <2>3, BaseFacts, RemovalCalm
  <2>. HIDE DEF x, r, c
  <2>5. r.pid = Sched.pid /\ r.creation_queue = <<>>
    BY <2>4, BaseFacts DEF SameRest
  <2>6. Kept(c, c)
    BY <1>0, <2>1, <2>4, <2>5, CalmKept
  <2>7. status'[c] = DEAD
    BY <1>0, <2>1, <2>3, <2>4, SchedPrimed
  <2>. QED  BY <2>1, <2>2, <2>6, <2>7 DEF Leaves, c
<1>6. CASE ExitFinish
  <2>1. Kept(c, c) /\ at' = at /\ foreground_pid' = foreground_pid
    BY <1>6, YieldKept
  <2>2. at' = [at EXCEPT ![c] = at[c]] /\ at[c] \in Place
    BY <1>0, <2>1
  <2>3. at[c].op = "finish" /\ status'[c] = DEAD
    BY <1>0, <1>6, <2>1 DEF ExitFinish, Exiting, Kept
  <2>. HIDE DEF c
  <2>. QED  BY <2>1, <2>2, <2>3 DEF Leaves, c
<1>. QED  BY <1>1, <1>2, <1>3, <1>4, <1>5, <1>6 DEF Exit

-----------------------------------------------------------------------------
(* The invariant of the test. *)

InTest == {"decreaser", "increaser", "wait_dec", "wait_inc", "print", "exit"}
InChild == {"open", "loop", "load", "yield", "store", "post", "exit"}
Inside == {"load", "yield", "store", "post"}
Tests == {p \in Clients : Role(p) = 0}
Children == {p \in Clients : Role(p) # 0}

\* Who can be where, and that a pid not handed out is where its program starts.
PcTypes ==
  /\ pc \in [Pids -> {"command", "read"} \cup InTest \cup InChild]
  /\ pc[SHELL_PID] \in {"command", "read"} /\ pc[IDLE_PID] = "open"
  /\ \A p \in Tests : pc[p] \in InTest
  /\ \A p \in Children : pc[p] \in InChild
  /\ \A p \in Pids : p >= pid => pc[p] = Entry(p) /\ rounds[p] = 0
  /\ aux \in [Pids -> Int] /\ rounds \in [Pids -> Nat] /\ global \in Int

\* Where the kernel has p agrees with where its program is: it sleeps only in
\* the calls that wait, and only a program that returned is killed.
Placed(p) ==
  /\ at[p].op = "wait" => /\ at[p].slot \in Slots /\ Busy(sem_spaces, at[p].slot)
                          /\ sem_spaces[at[p].slot].identifier = at[p].name
                          /\ \/ pc[p] = "load" /\ at[p].name = sem_1
                             \/ pc[p] = "wait_inc" /\ at[p].name = p + 1
                             \/ pc[p] = "print" /\ at[p].name = p + 2
  /\ at[p].op \notin {"user", "wait"} => pc[p] = "exit"
  /\ at[p].op = "wake" => at[p].slot \in Slots
  /\ at[p].op \in {"remove", "finish"} => status[p] = DEAD
  /\ status[p] = DEAD => p \in Clients /\ pc[p] = "exit"

Standing == \A p \in Pids : Placed(p)

\* The semaphore of a child is its creator's and locked until the child is done
\* with all its rounds; a child in the loop may wait for sem_1.
Ending(p) ==
  /\ Unlocked(sem_spaces, p) => pc[p] = "exit"
  /\ p < pid => Listed(sem_spaces, p, p - Role(p))
  /\ pc[p] \in {"loop"} \cup Inside => Listed(sem_spaces, sem_1, p)
  /\ pc[p] = "exit" => rounds[p] = iterations

Ends == \A p \in Children : Ending(p)

\* A child between sem_wait and sem_post has sem_1 alone, and what it loaded
\* still is the value of the counter.
Has(p) == pc[p] \in Inside /\ at[p].op = "user"

Mutex == /\ \A p \in Children : Has(p) => ~Unlocked(sem_spaces, sem_1)
         /\ \A p, q \in Children : Has(p) /\ Has(q) => p = q
         /\ \A p \in Children : pc[p] \in {"yield", "store"} => aux[p] = global

\* One test after the other: the one that is not done is in the foreground, has
\* the last pids, and the counter holds what its children stored.
Stored(p) == rounds[p] + IF pc[p] = "post" THEN 1 ELSE 0

CourseOf(t) ==
  /\ t + 2 =< MaxPid
  /\ pc[t] # "exit" => foreground_pid = t
  /\ pc[t] = "decreaser" => pid = t + 1
  /\ pc[t] = "increaser" => pid = t + 2
  /\ pc[t] \in {"wait_dec", "wait_inc", "print"} => pid = t + 3
  /\ pc[t] = "exit" => pid >= t + 3
  /\ pc[t] = "wait_inc" /\ at[t].op = "user" => pc[t + 1] = "exit"
  /\ pc[t] \in {"print", "exit"} => pc[t + 1] = "exit"
  /\ pc[t] = "print" /\ at[t].op = "user" => pc[t + 2] = "exit"
  /\ pc[t] = "exit" => pc[t + 2] = "exit"
  /\ pc[t] \notin {"decreaser", "exit"} => global = Stored(t + 2) - Stored(t + 1)

Course == \A t \in Tests : t < pid => CourseOf(t)

TestInv == Base /\ PcTypes /\ Standing /\ Ends /\ Mutex /\ Course /\ printed \subseteq {0}

-----------------------------------------------------------------------------
(* The pids of a test. *)

\* A test and its two children are three pids in a row.
LEMMA RoleFacts ==
  /\ \A p \in Clients : /\ p \in Nat /\ p >= 4 /\ p =< MaxPid /\ Role(p) \in 0 .. 2
                        /\ p - Role(p) \in Tests
  /\ \A t \in Tests : /\ t \in Nat /\ t >= 4 /\ t =< MaxPid
                      /\ Role(t + 1) = 1 /\ Role(t + 2) = 2 /\ Role(t + 3) = 0
                      /\ t + 1 \in Clients => t + 1 \in Children
                      /\ t + 2 \in Clients => t + 2 \in Children
  /\ Tests \cap Children = {} /\ Clients = Tests \cup Children
<1>1. \A p \in Clients : p \in Nat /\ p >= 4 /\ p =< MaxPid
  BY SchedulerAssumption DEF Clients
<1>2. \A p \in Clients : Role(p) \in 0 .. 2
  BY <1>1 DEF Role
<1>3. \A p \in Clients : p - Role(p) \in Tests
  <2>. SUFFICES ASSUME NEW p \in Clients PROVE p - Role(p) \in Tests
    OBVIOUS
  <2>1. p - Role(p) >= 4 /\ (p - Role(p) - 4) % 3 = 0
    BY <1>1 DEF Role
  <2>2. p - Role(p) \in Clients
    BY <1>1, <1>2, <2>1, SchedulerAssumption DEF Clients
  <2>. QED  BY <2>1, <2>2 DEF Tests, Role
<1>4. \A t \in Tests : Role(t + 1) = 1 /\ Role(t + 2) = 2 /\ Role(t + 3) = 0
  BY <1>1 DEF Tests, Role
<1>5. Tests \cap Children = {} /\ Clients = Tests \cup Children
  BY DEF Tests, Children
<1>. QED  BY <1>1, <1>2, <1>3, <1>4, <1>5 DEF Tests, Children

\* A process is the shell, idle, a test or a child.
LEMMA WhoIs == \A p \in Pids : p \in {SHELL_PID, IDLE_PID} \/ p \in Tests \/ p \in Children
<1>1. \A p \in Pids : p \in {SHELL_PID, IDLE_PID} \/ p \in Clients
  BY SchedulerAssumption DEF Pids, Clients, IDLE_PID, SHELL_PID
<1>. QED  BY <1>1, RoleFacts

\* A child belongs to the test one or two pids before it.
LEMMA ChildOf ==
  ASSUME NEW p \in Children
  PROVE  \E t \in Tests : (p = t + 1 /\ Role(p) = 1) \/ (p = t + 2 /\ Role(p) = 2)
<1>. DEFINE t == p - Role(p)
<1>1. p \in Clients /\ Role(p) # 0
  BY DEF Children
<1>2. t \in Tests /\ Role(p) \in 0 .. 2 /\ p \in Nat
  BY <1>1, RoleFacts
<1>3. (p = t + 1 /\ Role(p) = 1) \/ (p = t + 2 /\ Role(p) = 2)
  BY <1>1, <1>2
<1>. QED  BY <1>2, <1>3

\* Where the programs of a test start.
LEMMA EntryPoints ==
  /\ \A t \in Tests : Entry(t) = "decreaser"
  /\ \A p \in Children : Entry(p) = "open"
<1>1. \A p \in Clients : p # SHELL_PID /\ p >= 4
  BY KernelConstants, RoleFacts
<1>. QED  BY <1>1 DEF Entry, IsTest, Tests, Children

-----------------------------------------------------------------------------
(* How each part of the invariant is kept. *)

\* The process a step of a program belongs to.
LEMMA WhoRuns ==
  ASSUME Base, PcTypes, NEW from, NEW to, Goto(from, to)
  PROVE  /\ current_pcb \in Pids /\ current_pcb # IDLE_PID /\ current_pcb < pid
         /\ at[current_pcb].op = "user" /\ status[current_pcb] # DEAD
         /\ pc[current_pcb] = from /\ pc' = [pc EXCEPT ![current_pcb] = to] /\ Running
         /\ from \in {"command", "read"} => current_pcb = SHELL_PID
         /\ from \in InTest \ {"exit"} => current_pcb \in Tests
         /\ from \in InChild \ {"exit"} => current_pcb \in Children
<1>1. /\ current_pcb # IDLE_PID /\ at[current_pcb].op = "user" /\ status[current_pcb] # DEAD
      /\ pc[current_pcb] = from /\ pc' = [pc EXCEPT ![current_pcb] = to] /\ Running
  BY DEF Goto, Running, InUserCode, RUNNING, READY, DEAD
<1>2. current_pcb \in Pids /\ current_pcb < pid
  BY BaseFacts
<1>3. current_pcb = SHELL_PID \/ current_pcb \in Tests \/ current_pcb \in Children
  BY <1>1, <1>2, WhoIs
<1>. QED  BY <1>1, <1>2, <1>3 DEF PcTypes, InTest, InChild

\* The table lost nothing.
Grows(sp, t) ==
  /\ \A i \in Slots : Busy(sp, i) => Busy(t, i) /\ t[i].identifier = sp[i].identifier
  /\ \A x, p : Listed(sp, x, p) => Listed(t, x, p)

\* What a step that keeps the names keeps of the invariant.
LEMMA KeptFacts ==
  ASSUME Base, NEW x, NEW d, Kept(x, d), at' \in [Pids -> Place]
  PROVE  /\ Base' /\ Grows(sem_spaces, sem_spaces') /\ pid' = pid
         /\ UnlocksOnly(sem_spaces, sem_spaces', x)
         /\ \A p \in Pids : status[p] = DEAD => status'[p] = DEAD
         /\ \A p \in Pids : status'[p] = DEAD => status[p] = DEAD \/ p = d
<1>1. SameNames(sem_spaces, sem_spaces')
  BY DEF Kept
<1>2. Grows(sem_spaces, sem_spaces')
  BY <1>1, SameNamesFacts DEF Grows, SameNames
<1>3. Tabled(sem_spaces', pid)
  BY <1>1, SameNamesTabled DEF Base
<1>. QED  BY <1>2, <1>3 DEF Kept, Base

\* Only c moves, and only d may die, which has returned.
LEMMA StandingStep ==
  ASSUME Standing, Grows(sem_spaces, sem_spaces'), NEW c, NEW d,
         \A p \in Pids : status[p] = DEAD => status'[p] = DEAD,
         \A p \in Pids : status'[p] = DEAD => status[p] = DEAD \/ p = d,
         d \in Pids => d \in Clients /\ pc[d] = "exit",
         \A p \in Pids : p # c => pc'[p] = pc[p] /\ at'[p] = at[p],
         c \in Pids => Placed(c)'
  PROVE  Standing'
<1>. SUFFICES ASSUME NEW p \in Pids, p # c PROVE Placed(p)'
  BY DEF Standing
<1>1. pc'[p] = pc[p] /\ at'[p] = at[p] /\ Placed(p)
  BY DEF Standing
<1>2. at'[p].op = "wait" => /\ at'[p].slot \in Slots /\ Busy(sem_spaces', at'[p].slot)
                            /\ sem_spaces'[at'[p].slot].identifier = at'[p].name
                            /\ \/ pc'[p] = "load" /\ at'[p].name = sem_1
                               \/ pc'[p] = "wait_inc" /\ at'[p].name = p + 1
                               \/ pc'[p] = "print" /\ at'[p].name = p + 2
  BY <1>1 DEF Placed, Grows
<1>3. /\ at'[p].op \notin {"user", "wait"} => pc'[p] = "exit"
      /\ at'[p].op = "wake" => at'[p].slot \in Slots
      /\ at'[p].op \in {"remove", "finish"} => status'[p] = DEAD
  BY <1>1 DEF Placed
<1>4. status'[p] = DEAD => p \in Clients /\ pc'[p] = "exit"
  BY <1>1 DEF Placed
<1>. QED  BY <1>2, <1>3, <1>4 DEF Placed

\* Only the child c moves, and no child that has not returned is unlocked.
LEMMA EndsStep ==
  ASSUME Ends, Grows(sem_spaces, sem_spaces'), NEW c, NEW x, pid' = pid,
         \A p \in Children : Unlocked(sem_spaces', p) => Unlocked(sem_spaces, p) \/ p = x,
         x \in Children => pc'[x] = "exit",
         \A p \in Children : p # c => pc'[p] = pc[p] /\ rounds'[p] = rounds[p],
         c \in Children => Ending(c)'
  PROVE  Ends'
<1>. SUFFICES ASSUME NEW p \in Children, p # c PROVE Ending(p)'
  BY DEF Ends
<1>1. pc'[p] = pc[p] /\ rounds'[p] = rounds[p] /\ Ending(p)
  BY DEF Ends
<1>. QED  BY <1>1 DEF Ending, Grows

\* Nobody enters or leaves the critical section.
LEMMA MutexStep ==
  ASSUME Mutex, NEW x, x # sem_1, UnlocksOnly(sem_spaces, sem_spaces', x), global' = global,
         \A p \in Children : Has(p)' => Has(p),
         \A p \in Children : pc'[p] \in {"yield", "store"} => pc[p] = pc'[p] /\ aux'[p] = aux[p]
  PROVE  Mutex'
<1>1. \A p \in Children : Has(p)' => ~Unlocked(sem_spaces', sem_1)
  BY DEF Mutex, UnlocksOnly
<1>2. \A p, q \in Children : Has(p)' /\ Has(q)' => p = q
  BY DEF Mutex
<1>3. \A p \in Children : pc'[p] \in {"yield", "store"} => aux'[p] = global'
  BY DEF Mutex
<1>. QED  BY <1>1, <1>2, <1>3 DEF Mutex

\* No test moves on, and what was stored is as it was.
LEMMA CourseStep ==
  ASSUME Course, pid' = pid, global' = global, NEW f,
         foreground_pid' = foreground_pid \/ foreground_pid = f,
         f \in Tests => pc[f] = "exit",
         \A t \in Tests : /\ pc'[t] = pc[t]
                          /\ at'[t].op = "user" /\ at[t].op # "user"
                               => /\ pc[t] = "wait_inc" => pc[t + 1] = "exit"
                                  /\ pc[t] = "print" => pc[t + 2] = "exit",
         \A p \in Children : /\ pc[p] = "exit" => pc'[p] = "exit"
                             /\ rounds'[p] = rounds[p] + (IF pc[p] = "post" THEN 1 ELSE 0)
                                                       - (IF pc'[p] = "post" THEN 1 ELSE 0),
         PcTypes, PcTypes'
  PROVE  Course'
<1>. SUFFICES ASSUME NEW t \in Tests, t < pid PROVE CourseOf(t)'
  BY DEF Course
<1>1. CourseOf(t)
  BY DEF Course
<1>2. t + 1 \in Children /\ t + 2 \in Children
  <2>1. t + 2 =< MaxPid /\ t \in Nat /\ t >= 4
    BY <1>1, RoleFacts DEF CourseOf
  <2>2. t + 1 \in Clients /\ t + 2 \in Clients
    BY <2>1, SchedulerAssumption DEF Clients
  <2>. QED  BY <2>2, RoleFacts
<1>3. Stored(t + 1)' = Stored(t + 1) /\ Stored(t + 2)' = Stored(t + 2)
  <2>1. \A p \in Children : rounds[p] \in Nat /\ rounds'[p] \in Nat
    BY KernelConstants DEF PcTypes, Children
  <2>2. \A p \in Children : Stored(p)' = Stored(p)
    BY <2>1 DEF Stored
  <2>. QED  BY <1>2, <2>2
<1>4. pc'[t] # "exit" => foreground_pid' = t
  BY <1>1 DEF CourseOf
<1>5. /\ pc'[t] = "wait_inc" /\ at'[t].op = "user" => pc'[t + 1] = "exit"
      /\ pc'[t] \in {"print", "exit"} => pc'[t + 1] = "exit"
      /\ pc'[t] = "print" /\ at'[t].op = "user" => pc'[t + 2] = "exit"
      /\ pc'[t] = "exit" => pc'[t + 2] = "exit"
  BY <1>1, <1>2 DEF CourseOf
<1>6. pc'[t] \notin {"decreaser", "exit"} => global' = Stored(t + 2)' - Stored(t + 1)'
  BY <1>1, <1>3 DEF CourseOf
<1>. QED  BY <1>1, <1>4, <1>5, <1>6 DEF CourseOf

\* At most one test is not done.
LEMMA OneActive ==
  ASSUME Course, NEW t \in Tests, t < pid, pc[t] # "exit"
  PROVE  /\ foreground_pid = t
         /\ \A u \in Tests : u < pid /\ u # t => pc[u] = "exit"
  BY DEF Course, CourseOf

\* The children of the others are done as well.
LEMMA OthersDone ==
  ASSUME Base, Course, PcTypes, NEW t \in Tests, t < pid, pc[t] # "exit",
         NEW p \in Children, pc[p] \notin {"open", "exit"}
  PROVE  (p = t + 1 /\ Role(p) = 1) \/ (p = t + 2 /\ Role(p) = 2)
<1>1. PICK u \in Tests : (p = u + 1 /\ Role(p) = 1) \/ (p = u + 2 /\ Role(p) = 2)
  BY ChildOf
<1>2. p \in Pids /\ p \in Nat /\ u \in Nat /\ pid \in Nat
  BY KernelConstants, RoleFacts, BaseFacts DEF Children
<1>3. p < pid
  <2>1. p >= pid => pc[p] = "open"
    BY <1>2, EntryPoints DEF PcTypes
  <2>. QED  BY <1>2, <2>1
<1>4. u < pid
  BY <1>1, <1>2, <1>3
<1>5. u # t => pc[u + 1] = "exit" /\ pc[u + 2] = "exit"
  BY <1>4, OneActive DEF Course, CourseOf
<1>. QED  BY <1>1, <1>5

\* A step of a program keeps the types.
LEMMA PcStep ==
  ASSUME Base, PcTypes, NEW to, NEW c \in Pids, pc' = [pc EXCEPT ![c] = to], c < pid, c # IDLE_PID,
         c = SHELL_PID => to \in {"command", "read"},
         c \in Tests => to \in InTest,
         c \in Children => to \in InChild,
         pid' = pid \/ pid' = pid + 1,
         \A p \in Pids : p >= pid => rounds'[p] = rounds[p],
         aux' \in [Pids -> Int], rounds' \in [Pids -> Nat], global' \in Int
  PROVE  PcTypes'
<1>1. \A p \in Pids : pc'[p] = IF p = c THEN to ELSE pc[p]
  BY DEF PcTypes
<1>2. to \in {"command", "read"} \cup InTest \cup InChild
  <2>1. c = SHELL_PID \/ c \in Tests \/ c \in Children
    BY WhoIs
  <2>. QED  BY <2>1
<1>3. pc' \in [Pids -> {"command", "read"} \cup InTest \cup InChild]
  BY <1>2 DEF PcTypes
<1>4. \A p \in Pids : p \in Nat
  BY SchedulerAssumption DEF Pids, SHELL_PID
<1>5. \A p \in Pids : p >= pid' => pc'[p] = Entry(p) /\ rounds'[p] = 0
  <2>0. pid \in Nat
    BY BaseFacts
  <2>1. \A p \in Pids : p >= pid' => p >= pid /\ p # c
    BY <1>4, <2>0
  <2>. QED  BY <1>1, <2>1 DEF PcTypes
<1>6. \A p \in Clients : p \in Pids /\ p # SHELL_PID /\ p # IDLE_PID
  BY KernelConstants
<1>7. /\ \A p \in Tests : pc'[p] \in InTest
      /\ \A p \in Children : pc'[p] \in InChild
  BY <1>1, <1>6 DEF PcTypes, Tests, Children
<1>8. pc'[SHELL_PID] \in {"command", "read"} /\ pc'[IDLE_PID] = "open"
  BY <1>1, SchedulerAssumption DEF PcTypes, Pids, SHELL_PID, IDLE_PID
<1>. QED  BY <1>3, <1>5, <1>7, <1>8 DEF PcTypes

\* A step of a program outside the kernel.
LEMMA StillKept ==
  ASSUME Base, UNCHANGED kvars
  PROVE  Kept(0, 0) /\ at' = at /\ foreground_pid' = foreground_pid
<1>1. /\ Sched' = Sched /\ sem_spaces' = sem_spaces /\ at' = at /\ foreground_pid' = foreground_pid
  BY DEF kvars, svars, Sched
<1>2. SameNames(sem_spaces, sem_spaces') /\ UnlocksOnly(sem_spaces, sem_spaces', 0)
  BY <1>1, BaseFacts, SameNamesSelf
<1>3. Kept(0, 0)
  BY <1>1, <1>2, BaseFacts, CalmKept
<1>. QED  BY <1>1, <1>3

\* 0 is neither a name nor a pid, and sem_1 is not a pid.
LEMMA Nobody ==
  /\ 0 \notin Pids /\ 0 # sem_1 /\ sem_1 \notin Pids
  /\ Tests \subseteq Pids /\ Children \subseteq Pids
  BY KernelConstants, TestSyncAssumption DEF Tests, Children

-----------------------------------------------------------------------------
(* The steps that are not the test's. *)

\* The shell runs user code and is never killed.
LEMMA ShellPlaced ==
  ASSUME TestInv
  PROVE  at[SHELL_PID].op = "user" /\ status[SHELL_PID] # DEAD
<1>1. SHELL_PID \in Pids /\ SHELL_PID \notin Clients
  BY KernelConstants, SchedulerAssumption DEF Pids, SHELL_PID
<1>2. Placed(SHELL_PID) /\ pc[SHELL_PID] \in {"command", "read"}
  BY <1>1 DEF TestInv, Standing, PcTypes
<1>. QED  BY <1>1, <1>2 DEF Placed

\* The timer, the keyboard and the shell.
LEMMA QuietStep ==
  ASSUME TestInv, Kept(0, 0), at' = at, foreground_pid' = foreground_pid, Local, PcTypes',
         \A p \in Pids : p # SHELL_PID => pc'[p] = pc[p]
  PROVE  TestInv'
<1>1. Base /\ PcTypes /\ Standing /\ Ends /\ Mutex /\ Course /\ at \in [Pids -> Place]
  BY DEF TestInv, Base
<1>2. /\ Base' /\ Grows(sem_spaces, sem_spaces') /\ pid' = pid
      /\ UnlocksOnly(sem_spaces, sem_spaces', 0)
      /\ \A p \in Pids : status[p] = DEAD => status'[p] = DEAD
      /\ \A p \in Pids : status'[p] = DEAD => status[p] = DEAD \/ p = 0
  BY <1>1, KeptFacts
<1>3. \A p \in Tests \cup Children : pc'[p] = pc[p] /\ p \in Pids
  BY Nobody, KernelConstants DEF Tests, Children
<1>4. Standing'
  <2>1. Placed(SHELL_PID)'
    <3>1. SHELL_PID \in Pids /\ SHELL_PID # 0
      BY SchedulerAssumption DEF Pids, SHELL_PID
    <3>2. at'[SHELL_PID].op = "user" /\ status'[SHELL_PID] # DEAD
      BY <1>2, <3>1, ShellPlaced
    <3>. QED  BY <3>2 DEF Placed
  <2>. QED  BY <1>1, <1>2, <2>1, Nobody, StandingStep
<1>5. Ends'
  <2>1. \A p \in Children : Unlocked(sem_spaces', p) => Unlocked(sem_spaces, p) \/ p = 0
    BY <1>2 DEF UnlocksOnly
  <2>2. \A p \in Children : p # 0 => pc'[p] = pc[p] /\ rounds'[p] = rounds[p]
    BY <1>3 DEF Local
  <2>3. 0 \notin Children
    BY Nobody
  <2>. QED  BY <1>1, <1>2, <2>1, <2>2, <2>3, EndsStep
<1>6. Mutex'
  <2>1. \A p \in Children : Has(p)' => Has(p)
    BY <1>3 DEF Has
  <2>. QED  BY <1>1, <1>2, <1>3, <2>1, Nobody, MutexStep DEF Local
<1>7. Course'
  <2>1. \A p \in Children : rounds[p] \in Nat /\ rounds'[p] = rounds[p]
    BY <1>1, <1>3 DEF PcTypes, Local
  <2>2. \A p \in Children : rounds'[p] = rounds[p] + (IF pc[p] = "post" THEN 1 ELSE 0)
                                                   - (IF pc'[p] = "post" THEN 1 ELSE 0)
    BY <1>3, <2>1
  <2>3. 0 \notin Tests
    BY Nobody
  <2>. QED  BY <1>1, <1>2, <1>3, <2>2, <2>3, CourseStep DEF Local
<1>. QED  BY <1>2, <1>4, <1>5, <1>6, <1>7 DEF TestInv, Local

\* A program that does not run has its types.
LEMMA PcStays ==
  ASSUME PcTypes, pc' = pc, Local, pid' = pid
  PROVE  PcTypes'
  BY DEF PcTypes, Local

\* A program that returned, through all the steps of its exit.
LEMMA ReturnStep ==
  ASSUME TestInv, Return
  PROVE  TestInv'
<1>. SUFFICES ASSUME NEW c, c = current_pcb PROVE TestInv'
  OBVIOUS
<1>1. Base /\ PcTypes /\ Standing /\ Ends /\ Mutex /\ Course /\ at \in [Pids -> Place]
  BY DEF TestInv, Base
<1>2. c \in Pids /\ pc[c] = "exit" /\ Exit /\ pc' = pc /\ Local
  BY <1>1, BaseFacts DEF Return
<1>3. c \in Clients /\ c # IDLE_PID /\ c # SHELL_PID /\ Placed(c)
  BY <1>1, <1>2, WhoIs, KernelConstants DEF PcTypes, Tests, Children, Standing
<1>4. PICK x : Leaves(x)
  BY <1>1, <1>2, <1>3, ExitKept DEF Placed
<1>5. /\ Kept(c, c) /\ at' = [at EXCEPT ![c] = x] /\ x \in Place /\ x.op \notin {"user", "wait"}
      /\ x.op = "wake" => x.slot \in Slots
      /\ x.op \in {"remove", "finish"} => status'[c] = DEAD
      /\ foreground_pid' = foreground_pid \/ foreground_pid = c
  BY <1>4 DEF Leaves
<1>6. at' \in [Pids -> Place] /\ at'[c] = x /\ \A p \in Pids : p # c => at'[p] = at[p]
  BY <1>1, <1>2, <1>5
<1>7. /\ Base' /\ Grows(sem_spaces, sem_spaces') /\ pid' = pid
      /\ UnlocksOnly(sem_spaces, sem_spaces', c)
      /\ \A p \in Pids : status[p] = DEAD => status'[p] = DEAD
      /\ \A p \in Pids : status'[p] = DEAD => status[p] = DEAD \/ p = c
  BY <1>1, <1>5, <1>6, KeptFacts
<1>8. PcTypes'
  BY <1>1, <1>2, <1>7, PcStays
<1>9. Standing'
  <2>1. Placed(c)'
    BY <1>2, <1>3, <1>5, <1>6 DEF Placed
  <2>. QED  BY <1>1, <1>2, <1>3, <1>6, <1>7, <2>1, StandingStep
<1>10. Ends'
  <2>1. \A p \in Children : Unlocked(sem_spaces', p) => Unlocked(sem_spaces, p) \/ p = c
    BY <1>7 DEF UnlocksOnly
  <2>2. \A p \in Children : p # 0 => pc'[p] = pc[p] /\ rounds'[p] = rounds[p]
    BY <1>2 DEF Local
  <2>3. 0 \notin Children
    BY Nobody
  <2>. QED  BY <1>1, <1>2, <1>7, <2>1, <2>2, <2>3, EndsStep
<1>11. Mutex'
  <2>1. \A p \in Children : Has(p)' => Has(p)
    BY <1>2, <1>5, <1>6, Nobody DEF Has
  <2>2. c # sem_1
    BY <1>2, Nobody
  <2>. QED  BY <1>1, <1>2, <1>7, <2>1, <2>2, MutexStep DEF Local
<1>12. Course'
  <2>1. \A p \in Children : rounds[p] \in Nat /\ rounds'[p] = rounds[p]
    BY <1>1, <1>2, Nobody DEF PcTypes, Local
  <2>2. \A p \in Children : rounds'[p] = rounds[p] + (IF pc[p] = "post" THEN 1 ELSE 0)
                                                   - (IF pc'[p] = "post" THEN 1 ELSE 0)
    BY <1>2, <2>1
  <2>3. \A t \in Tests : ~(at'[t].op = "user" /\ at[t].op # "user")
    BY <1>5, <1>6, Nobody
  <2>. QED  BY <1>1, <1>2, <1>5, <1>7, <1>8, <2>2, <2>3, CourseStep DEF Local
<1>. QED  BY <1>2, <1>7, <1>8, <1>9, <1>10, <1>11, <1>12 DEF TestInv, Local

-----------------------------------------------------------------------------
(* The steps of test_sync. *)

\* A test that is done stays done, with its children.
LEMMA DoneStays ==
  ASSUME NEW t \in Tests, CourseOf(t), pc[t] = "exit", NEW c, c # t, c \notin Children,
         pid \in Nat, pid' = pid \/ pid' = pid + 1, \A p \in Pids : p # c => pc'[p] = pc[p]
  PROVE  CourseOf(t)'
<1>1. pc[t + 1] = "exit" /\ pc[t + 2] = "exit" /\ pid >= t + 3 /\ t + 2 =< MaxPid
  BY DEF CourseOf
<1>2. t \in Pids /\ t \in Nat /\ t >= 4
  BY RoleFacts, Nobody
<1>3. t + 1 \in Clients /\ t + 2 \in Clients
  BY <1>1, <1>2, SchedulerAssumption DEF Clients
<1>4. t + 1 \in Children /\ t + 2 \in Children
  BY <1>3, RoleFacts
<1>5. pc'[t] = "exit" /\ pc'[t + 1] = "exit" /\ pc'[t + 2] = "exit" /\ pid' >= t + 3
  BY <1>1, <1>2, <1>4, Nobody
<1>. QED  BY <1>1, <1>5 DEF CourseOf

\* The one test that is not done moves on; the others stay done.
LEMMA CourseMoves ==
  ASSUME Course, NEW c \in Tests, c < pid, pc[c] # "exit", pid \in Nat, pid' = pid \/ pid' = pid + 1,
         \A t \in Tests : t < pid' => t < pid,
         \A p \in Pids : p # c => pc'[p] = pc[p],
         CourseOf(c)'
  PROVE  Course'
<1>. SUFFICES ASSUME NEW t \in Tests, t < pid', t # c PROVE CourseOf(t)'
  BY DEF Course
<1>1. CourseOf(t) /\ pc[t] = "exit"
  BY OneActive DEF Course
<1>2. c \notin Children
  BY RoleFacts
<1>. QED  BY <1>1, <1>2, DoneStays

\* The test c calls waitpid, tries again, or prints.
LEMMA TestMoves ==
  ASSUME TestInv, NEW c \in Tests, c < pid, pc[c] # "exit", NEW to, pc' = [pc EXCEPT ![c] = to],
         PcTypes', NEW x, Kept(x, x), x = 0 \/ (x \in Children /\ pc[x] = "exit"),
         foreground_pid' = foreground_pid \/ (foreground_pid' = SHELL_PID /\ foreground_pid = x),
         NEW a \in Place, at' = [at EXCEPT ![c] = a],
         aux' = aux, rounds' = rounds, global' = global, printed' \subseteq {0},
         Placed(c)', foreground_pid' = c => CourseOf(c)'
  PROVE  TestInv'
<1>1. Base /\ PcTypes /\ Standing /\ Ends /\ Mutex /\ Course /\ at \in [Pids -> Place]
  BY DEF TestInv, Base
<1>2. c \in Pids /\ c \notin Children /\ \A p \in Pids : p # c => pc'[p] = pc[p] /\ at'[p] = at[p]
  BY <1>1, RoleFacts, Nobody DEF PcTypes
<1>3. at' \in [Pids -> Place]
  BY <1>1
<1>4. /\ Base' /\ Grows(sem_spaces, sem_spaces') /\ pid' = pid
      /\ UnlocksOnly(sem_spaces, sem_spaces', x)
      /\ \A p \in Pids : status[p] = DEAD => status'[p] = DEAD
      /\ \A p \in Pids : status'[p] = DEAD => status[p] = DEAD \/ p = x
  BY <1>1, <1>3, KeptFacts
<1>5. Standing'
  <2>1. x \in Pids => x \in Clients /\ pc[x] = "exit"
    BY Nobody DEF Children
  <2>. QED  BY <1>1, <1>2, <1>4, <2>1, StandingStep
<1>6. Ends'
  <2>1. \A p \in Children : Unlocked(sem_spaces', p) => Unlocked(sem_spaces, p) \/ p = x
    BY <1>4 DEF UnlocksOnly
  <2>2. \A p \in Children : p # 0 => pc'[p] = pc[p] /\ rounds'[p] = rounds[p]
    BY <1>2, Nobody
  <2>3. 0 \notin Children /\ (x \in Children => pc'[x] = "exit")
    BY <1>2, Nobody
  <2>. QED  BY <1>1, <1>4, <2>1, <2>2, <2>3, EndsStep
<1>7. Mutex'
  <2>1. \A p \in Children : pc'[p] = pc[p] /\ at'[p] = at[p]
    BY <1>2, Nobody
  <2>2. \A p \in Children : Has(p)' => Has(p)
    BY <2>1 DEF Has
  <2>3. x # sem_1
    BY Nobody
  <2>. QED  BY <1>1, <1>4, <2>1, <2>2, <2>3, MutexStep
<1>8. Course'
  <2>1. foreground_pid = c /\ x # c
    BY <1>1, <1>2, Nobody, OneActive
  <2>2. CourseOf(c)'
    BY <2>1
  <2>3. pid \in Nat
    BY <1>1, BaseFacts
  <2>. QED  BY <1>1, <1>2, <1>4, <2>2, <2>3, CourseMoves
<1>. QED  BY <1>4, <1>5, <1>6, <1>7, <1>8 DEF TestInv

\* What CourseOf says of a test that waits or prints.
LEMMA CourseWaits ==
  ASSUME TestInv, NEW c \in Tests, c < pid, pc[c] \in {"wait_dec", "wait_inc", "print"}
  PROVE  /\ pid = c + 3 /\ c + 2 =< MaxPid /\ foreground_pid = c
         /\ global = Stored(c + 2) - Stored(c + 1)
         /\ c + 1 \in Children /\ c + 2 \in Children
         /\ c + 1 \in Clients /\ c + 2 \in Clients
         /\ Role(c + 1) = 1 /\ Role(c + 2) = 2 /\ c \in Nat
         /\ Listed(sem_spaces, c + 1, c) /\ Listed(sem_spaces, c + 2, c)
<1>1. CourseOf(c) /\ Ends
  BY DEF TestInv, Course
<1>2. /\ pid = c + 3 /\ c + 2 =< MaxPid /\ foreground_pid = c
      /\ global = Stored(c + 2) - Stored(c + 1)
  BY <1>1 DEF CourseOf
<1>3. c \in Nat /\ c >= 4 /\ Role(c + 1) = 1 /\ Role(c + 2) = 2
  BY RoleFacts
<1>4. c + 1 \in Clients /\ c + 2 \in Clients
  BY <1>2, <1>3, SchedulerAssumption DEF Clients
<1>5. c + 1 \in Children /\ c + 2 \in Children
  BY <1>4, RoleFacts
<1>6. Ending(c + 1) /\ Ending(c + 2)
  BY <1>1, <1>5 DEF Ends
<1>7. c + 1 < pid /\ c + 2 < pid /\ c + 1 - 1 = c /\ c + 2 - 2 = c
  BY <1>2, <1>3
<1>8. Listed(sem_spaces, c + 1, c) /\ Listed(sem_spaces, c + 2, c)
  BY <1>3, <1>6, <1>7 DEF Ending
<1>. QED  BY <1>2, <1>3, <1>4, <1>5, <1>8

\* What is left of CourseOf when the test is at to, and at a in the kernel.
LEMMA CourseThen ==
  ASSUME TestInv, NEW c \in Tests, c < pid, pc[c] \in {"wait_dec", "wait_inc", "print"},
         NEW to \in {"wait_inc", "print", "exit"}, pc' = [pc EXCEPT ![c] = to],
         pid' = pid, global' = global, rounds' = rounds, foreground_pid' = c,
         NEW a \in Place, at' = [at EXCEPT ![c] = a],
         to = "wait_inc" /\ a.op = "user" => pc[c + 1] = "exit",
         to \in {"print", "exit"} => pc[c + 1] = "exit",
         to = "print" /\ a.op = "user" => pc[c + 2] = "exit",
         to = "exit" => pc[c + 2] = "exit"
  PROVE  CourseOf(c)'
<1>1. /\ pid = c + 3 /\ c + 2 =< MaxPid /\ global = Stored(c + 2) - Stored(c + 1)
      /\ c + 1 \in Children /\ c + 2 \in Children /\ c \in Nat
  BY CourseWaits
<1>2. /\ pc'[c] = to /\ at'[c] = a /\ pc'[c + 1] = pc[c + 1] /\ pc'[c + 2] = pc[c + 2]
  BY <1>1, RoleFacts, Nobody DEF TestInv, PcTypes, Base
<1>3. Stored(c + 2)' = Stored(c + 2) /\ Stored(c + 1)' = Stored(c + 1)
  BY <1>2 DEF Stored
<1>4. pid' = c + 3 /\ c + 3 >= c + 3
  BY <1>1
<1>. QED  BY <1>1, <1>2, <1>3, <1>4 DEF CourseOf

\* The places of a process in user code and of one that waits.
LEMMA PlaceFacts ==
  /\ User \in Place /\ User.op = "user"
  /\ \A n \in Names, i \in Slots : /\ Waiting(n, i) \in Place /\ Waiting(n, i).op = "wait"
                                   /\ Waiting(n, i).name = n /\ Waiting(n, i).slot = i
  BY DEF User, Waiting, Place

\* Where a test is when its waitpid of child n returns.
WaitsFor(c, n, to) ==
  \/ n = c + 1 /\ to = "wait_inc" /\ pc[c] \in {"wait_dec", "wait_inc"}
  \/ n = c + 2 /\ to = "print" /\ (pc[c] = "print" \/ (pc[c] = "wait_inc" /\ at[c].op = "user"))

\* The child it waits for is its own and was created.
LEMMA WaitsForFacts ==
  ASSUME TestInv, NEW c \in Tests, c < pid, NEW n, NEW to, WaitsFor(c, n, to)
  PROVE  /\ pc[c] \in {"wait_dec", "wait_inc", "print"} /\ to \in {"wait_inc", "print"}
         /\ n \in Children /\ n \in Clients /\ n \in Pids /\ n \in Names /\ n # c /\ n < pid
         /\ Listed(sem_spaces, n, c)
         /\ to = "print" => pc[c + 1] = "exit"
         /\ (to = "wait_inc" /\ n = c + 1) \/ (to = "print" /\ n = c + 2)
<1>1. pc[c] \in {"wait_dec", "wait_inc", "print"} /\ to \in {"wait_inc", "print"}
  BY DEF WaitsFor
<1>2. /\ c + 1 \in Children /\ c + 2 \in Children /\ c + 1 \in Clients /\ c + 2 \in Clients
      /\ c \in Nat /\ pid = c + 3
      /\ Listed(sem_spaces, c + 1, c) /\ Listed(sem_spaces, c + 2, c)
  BY <1>1, CourseWaits
<1>3. n = c + 1 \/ n = c + 2
  BY DEF WaitsFor
<1>4. n \in Children /\ n \in Clients /\ n # c /\ n < pid /\ Listed(sem_spaces, n, c)
  BY <1>2, <1>3
<1>5. n \in Pids /\ n \in Names
  BY <1>4, KernelConstants DEF Names
<1>6. to = "print" => pc[c + 1] = "exit"
  BY DEF WaitsFor, TestInv, Course, CourseOf
<1>. QED  BY <1>1, <1>4, <1>5, <1>6 DEF WaitsFor

\* The wait returns with the semaphore of the child, or sleeps.
LEMMA TestWaits ==
  ASSUME TestInv, NEW c \in Tests, c = current_pcb, c < pid, status[c] # DEAD,
         NEW n, NEW to, WaitsFor(c, n, to), pc' = [pc EXCEPT ![c] = to], Local,
         NEW i \in Slots, Busy(sem_spaces, i), sem_spaces[i].identifier = n,
         Takes(n, i) \/ Sleeps(n, i)
  PROVE  TestInv'
<1>1. Base /\ PcTypes /\ Standing /\ Ends /\ Course /\ at \in [Pids -> Place]
  BY DEF TestInv, Base
<1>2. /\ pc[c] \in {"wait_dec", "wait_inc", "print"} /\ to \in {"wait_inc", "print"}
      /\ n \in Children /\ n \in Clients /\ n \in Pids /\ n \in Names /\ n # c
      /\ to = "print" => pc[c + 1] = "exit"
      /\ (to = "wait_inc" /\ n = c + 1) \/ (to = "print" /\ n = c + 2)
  BY WaitsForFacts
<1>3. c \in Pids /\ c # IDLE_PID /\ c # SHELL_PID /\ c \notin Children /\ c # 0
  BY KernelConstants, RoleFacts, Nobody DEF Tests
<1>4. pid' = pid => PcTypes'
  <2>1. /\ aux' \in [Pids -> Int] /\ rounds' \in [Pids -> Nat] /\ global' \in Int
        /\ \A p \in Pids : p >= pid => rounds'[p] = rounds[p]
    BY <1>1 DEF PcTypes, Local
  <2>2. to \in InTest
    BY <1>2 DEF InTest
  <2>. QED  BY <1>1, <1>3, <2>1, <2>2, PcStep
<1>5. foreground_pid = c
  BY <1>2, CourseWaits
<1>6. CASE Takes(n, i)
  <2>1. /\ Kept(n, n) /\ at' = [at EXCEPT ![c] = User] /\ Unlocked(sem_spaces, n)
        /\ foreground_pid' = foreground_pid \/ (foreground_pid' = SHELL_PID /\ foreground_pid = n)
    BY <1>1, <1>2, <1>6, ReapKept
  <2>2. pc[n] = "exit"
    BY <1>1, <1>2, <2>1 DEF Ends, Ending
  <2>3. pid' = pid /\ status'[c] # DEAD /\ foreground_pid' = c
    BY <1>2, <1>3, <1>5, <2>1 DEF Kept
  <2>4. Placed(c)'
    <3>1. at'[c].op = "user"
      BY <1>1, <1>3, <2>1, PlaceFacts
    <3>. QED  BY <2>3, <3>1 DEF Placed
  <2>5. CourseOf(c)'
    <3>1. User.op = "user" => pc[n] = "exit"
      BY <2>2
    <3>2. global' = global /\ rounds' = rounds
      BY DEF Local
    <3>3. User \in Place
      BY PlaceFacts
    <3>. QED  BY <1>2, <2>1, <2>2, <2>3, <3>2, <3>3, CourseThen
  <2>6. aux' = aux /\ rounds' = rounds /\ global' = global /\ printed' \subseteq {0}
    BY DEF Local, TestInv
  <2>. QED  BY <1>2, <1>4, <2>1, <2>2, <2>3, <2>4, <2>5, <2>6, PlaceFacts, TestMoves
<1>7. CASE Sleeps(n, i)
  <2>. DEFINE a == Waiting(n, i)
  <2>1. Kept(0, 0) /\ at' = [at EXCEPT ![c] = a] /\ foreground_pid' = foreground_pid
    BY <1>1, <1>2, <1>3, <1>7, SleepKept
  <2>2. a \in Place /\ a.op = "wait" /\ a.name = n /\ a.slot = i
    BY <1>2, PlaceFacts
  <2>. HIDE DEF a
  <2>3. pid' = pid /\ status'[c] # DEAD /\ foreground_pid' = c
    BY <1>3, <1>5, <2>1 DEF Kept
  <2>4. Busy(sem_spaces', i) /\ sem_spaces'[i].identifier = n
    BY <2>1 DEF Kept, SameNames, Busy
  <2>5. at'[c] = a /\ pc'[c] = to
    BY <1>1, <1>3, <2>1 DEF PcTypes
  <2>6. Placed(c)'
    BY <1>2, <2>2, <2>3, <2>4, <2>5 DEF Placed
  <2>7. CourseOf(c)'
    <3>1. global' = global /\ rounds' = rounds
      BY DEF Local
    <3>. QED  BY <1>2, <2>1, <2>2, <2>3, <3>1, CourseThen
  <2>8. aux' = aux /\ rounds' = rounds /\ global' = global /\ printed' \subseteq {0}
    BY DEF Local, TestInv
  <2>. QED  BY <1>2, <1>4, <2>1, <2>2, <2>3, <2>6, <2>7, <2>8, TestMoves
<1>. QED  BY <1>6, <1>7

\* waitpid, from the call on.
LEMMA WaitpidStep ==
  ASSUME TestInv, NEW c \in Tests, c = current_pcb, c < pid, status[c] # DEAD, at[c].op = "user",
         NEW n, NEW to, WaitsFor(c, n, to), pc[c] # "print", pc' = [pc EXCEPT ![c] = to], Local,
         Becomes(waitpid(Now, n))
  PROVE  TestInv'
<1>1. Base /\ PcTypes /\ Standing /\ Ends /\ Course /\ at \in [Pids -> Place]
  BY DEF TestInv, Base
<1>2. /\ pc[c] \in {"wait_dec", "wait_inc", "print"} /\ to \in {"wait_inc", "print"}
      /\ n \in Clients /\ n \in Pids /\ n < pid /\ Listed(sem_spaces, n, c)
      /\ to = "print" => pc[c + 1] = "exit"
      /\ (to = "wait_inc" /\ n = c + 1) \/ (to = "print" /\ n = c + 2)
  BY WaitsForFacts
<1>3. \/ /\ Kept(0, 0) /\ at' = at /\ foreground_pid' = foreground_pid
         /\ status[n] \in {DEAD, NONE}
      \/ \E i \in Slots : /\ Busy(sem_spaces, i) /\ sem_spaces[i].identifier = n
                          /\ Takes(n, i) \/ Sleeps(n, i)
  BY <1>1, <1>2, WaitpidKept
<1>4. CASE \E i \in Slots : /\ Busy(sem_spaces, i) /\ sem_spaces[i].identifier = n
                            /\ Takes(n, i) \/ Sleeps(n, i)
  BY <1>4, TestWaits
<1>5. CASE /\ Kept(0, 0) /\ at' = at /\ foreground_pid' = foreground_pid
           /\ status[n] \in {DEAD, NONE}
  <2>1. pc[n] = "exit"
    <3>0. n \in Nat
      BY <1>2, RoleFacts
    <3>1. n \in Nat /\ pid \in Nat
      BY <1>1, <3>0, BaseFacts
    <3>2. status[n] = DEAD
      BY <1>1, <1>2, <1>5, <3>1, BaseFacts
    <3>. QED  BY <1>1, <1>2, <3>2 DEF Standing, Placed
  <2>2. c \in Pids /\ c # IDLE_PID /\ c # SHELL_PID /\ c \notin Children /\ c # 0
    BY KernelConstants, RoleFacts, Nobody DEF Tests
  <2>3. at' = [at EXCEPT ![c] = at[c]] /\ at[c] \in Place
    BY <1>1, <1>5, <2>2
  <2>4. pid' = pid /\ status'[c] # DEAD /\ foreground_pid' = c
    BY <1>2, <1>5, <2>2, CourseWaits DEF Kept
  <2>5. PcTypes'
    <3>1. /\ aux' \in [Pids -> Int] /\ rounds' \in [Pids -> Nat] /\ global' \in Int
          /\ \A p \in Pids : p >= pid => rounds'[p] = rounds[p]
      BY <1>1 DEF PcTypes, Local
    <3>2. to \in InTest
      BY <1>2 DEF InTest
    <3>. QED  BY <1>1, <2>2, <2>4, <3>1, <3>2, PcStep
  <2>6. Placed(c)'
    BY <1>5, <2>4 DEF Placed
  <2>7. CourseOf(c)'
    <3>1. global' = global /\ rounds' = rounds
      BY DEF Local
    <3>. QED  BY <1>2, <2>1, <2>3, <2>4, <3>1, CourseThen
  <2>8. aux' = aux /\ rounds' = rounds /\ global' = global /\ printed' \subseteq {0}
    BY DEF Local, TestInv
  <2>. QED  BY <1>2, <1>5, <2>3, <2>4, <2>5, <2>6, <2>7, <2>8, TestMoves
<1>. QED  BY <1>3, <1>4, <1>5

\* The two calls of waitpid.
LEMMA WaitStepOfTest ==
  ASSUME TestInv, WaitDecreaser \/ WaitIncreaser
  PROVE  TestInv'
<1>. SUFFICES ASSUME NEW c, c = current_pcb PROVE TestInv'
  OBVIOUS
<1>0. Base /\ PcTypes
  BY DEF TestInv
<1>1. CASE WaitDecreaser
  <2>1. Goto("wait_dec", "wait_inc") /\ Becomes(waitpid(Now, c + 1)) /\ Local
    BY <1>1 DEF WaitDecreaser
  <2>2. "wait_dec" \in InTest \ {"exit"}
    BY DEF InTest
  <2>3. /\ c \in Tests /\ c < pid /\ status[c] # DEAD /\ at[c].op = "user"
        /\ pc[c] = "wait_dec" /\ pc' = [pc EXCEPT ![c] = "wait_inc"]
    BY <1>0, <2>1, <2>2, WhoRuns
  <2>4. WaitsFor(c, c + 1, "wait_inc")
    BY <2>3 DEF WaitsFor
  <2>. QED  BY <2>1, <2>3, <2>4, WaitpidStep
<1>2. CASE WaitIncreaser
  <2>1. Goto("wait_inc", "print") /\ Becomes(waitpid(Now, c + 2)) /\ Local
    BY <1>2 DEF WaitIncreaser
  <2>2. "wait_inc" \in InTest \ {"exit"}
    BY DEF InTest
  <2>3. /\ c \in Tests /\ c < pid /\ status[c] # DEAD /\ at[c].op = "user"
        /\ pc[c] = "wait_inc" /\ pc' = [pc EXCEPT ![c] = "print"]
    BY <1>0, <2>1, <2>2, WhoRuns
  <2>4. WaitsFor(c, c + 2, "print")
    BY <2>3 DEF WaitsFor
  <2>. QED  BY <2>1, <2>3, <2>4, WaitpidStep
<1>. QED  BY <1>1, <1>2

\* Both children are done, with the same number of rounds.
LEMMA PrintStep ==
  ASSUME TestInv, PrintFinal
  PROVE  TestInv'
<1>. SUFFICES ASSUME NEW c, c = current_pcb PROVE TestInv'
  OBVIOUS
<1>0. Base /\ PcTypes /\ Ends /\ Course /\ printed \subseteq {0} /\ at \in [Pids -> Place]
  BY DEF TestInv, Base
<1>1. Goto("print", "exit") /\ printed' = printed \cup {global} /\ UNCHANGED <<kvars, aux, rounds, global>>
  BY DEF PrintFinal
<1>2. "print" \in InTest \ {"exit"} /\ "exit" \in InTest
  BY DEF InTest
<1>3. /\ c \in Tests /\ c < pid /\ status[c] # DEAD /\ at[c].op = "user"
      /\ pc[c] = "print" /\ pc' = [pc EXCEPT ![c] = "exit"]
  BY <1>0, <1>1, <1>2, WhoRuns
<1>4. /\ c + 1 \in Children /\ c + 2 \in Children /\ global = Stored(c + 2) - Stored(c + 1)
      /\ foreground_pid = c
  BY <1>3, CourseWaits
<1>5. pc[c + 1] = "exit" /\ pc[c + 2] = "exit"
  BY <1>0, <1>3 DEF Course, CourseOf
<1>6. rounds[c + 1] = iterations /\ rounds[c + 2] = iterations /\ iterations \in Nat
  BY <1>0, <1>4, <1>5, TestSyncAssumption DEF Ends, Ending
<1>7. Stored(c + 1) = iterations /\ Stored(c + 2) = iterations
  BY <1>5, <1>6 DEF Stored
<1>8. global = 0
  BY <1>4, <1>6, <1>7
<1>9. printed' \subseteq {0}
  BY <1>0, <1>1, <1>8
<1>10. Kept(0, 0) /\ at' = at /\ foreground_pid' = foreground_pid
  BY <1>0, <1>1, StillKept
<1>11. c \in Pids /\ c # IDLE_PID /\ c # SHELL_PID /\ c \notin Children /\ c # 0
  BY <1>3, KernelConstants, RoleFacts, Nobody DEF Tests
<1>12. at' = [at EXCEPT ![c] = at[c]] /\ at[c] \in Place
  BY <1>0, <1>10, <1>11
<1>13. pid' = pid /\ status'[c] # DEAD /\ foreground_pid' = c
  BY <1>3, <1>4, <1>10, <1>11 DEF Kept
<1>14. aux' = aux /\ rounds' = rounds /\ global' = global
  BY <1>1
<1>15. PcTypes'
  <2>1. /\ aux' \in [Pids -> Int] /\ rounds' \in [Pids -> Nat] /\ global' \in Int
        /\ \A p \in Pids : p >= pid => rounds'[p] = rounds[p]
    BY <1>0, <1>14 DEF PcTypes
  <2>. QED  BY <1>0, <1>2, <1>3, <1>11, <1>13, <2>1, PcStep
<1>16. Placed(c)'
  BY <1>3, <1>10, <1>13 DEF Placed
<1>17. CourseOf(c)'
  BY <1>3, <1>5, <1>12, <1>13, <1>14, CourseThen
<1>. QED  BY <1>3, <1>9, <1>10, <1>12, <1>14, <1>15, <1>16, <1>17, TestMoves

-----------------------------------------------------------------------------
(* The steps that create a process. *)

\* What holds again whoever is created, by whoever.
LEMMA CreateStays ==
  ASSUME TestInv, TableHasRoom, NEW fore \in BOOLEAN, SysCreate(fore), NEW c, c = current_pcb, NEW to,
         pc' = [pc EXCEPT ![c] = to], c = SHELL_PID \/ c \in Tests,
         pc[c] # "exit", at[c].op = "user", status[c] # DEAD,
         c = SHELL_PID => to \in {"command", "read"}, c \in Tests => to \in InTest,
         aux' = aux, rounds' = rounds, global' \in Int, pid \in Children => c = pid - Role(pid)
  PROVE  /\ Base' /\ PcTypes' /\ Standing' /\ Ends' /\ at' = at
         /\ pid' = pid + 1 /\ pid \in Clients /\ c < pid /\ pc[pid] = Entry(pid) /\ rounds[pid] = 0
         /\ foreground_pid' = (IF fore THEN pid ELSE foreground_pid)
         /\ global' = global => Mutex'
         /\ \A p \in Children : pc'[p] = pc[p] /\ at'[p] = at[p]
         /\ \A n : Unlocked(sem_spaces', n) => Unlocked(sem_spaces, n)
<1>1. Base /\ PcTypes /\ Standing /\ Ends /\ Mutex /\ Course /\ at \in [Pids -> Place]
  BY DEF TestInv, Base
<1>2. /\ Safe(Sched') /\ creation_queue' = <<>> /\ pid' = pid + 1 /\ pid \in Clients
      /\ Opens(sem_spaces, sem_spaces', 1, pid, c) /\ Tabled(sem_spaces', pid + 1)
      /\ at' = at /\ foreground_pid' = (IF fore THEN pid ELSE foreground_pid)
      /\ \A p \in Pids : status'[p] = DEAD <=> status[p] = DEAD
  BY <1>1, CreateFacts
<1>3. c \in Pids /\ c # IDLE_PID /\ c < pid /\ c \notin Children
  BY <1>1, BaseFacts, KernelConstants, RoleFacts DEF Tests, Children, SHELL_PID, IDLE_PID
<1>4. Base'
  BY <1>1, <1>2 DEF Base
<1>5. PcTypes'
  <2>1. aux' \in [Pids -> Int] /\ rounds' \in [Pids -> Nat]
    BY <1>1 DEF PcTypes
  <2>. QED  BY <1>1, <1>2, <1>3, <2>1, PcStep
<1>6. \A p \in Pids : p # c => pc'[p] = pc[p] /\ at'[p] = at[p]
  BY <1>1, <1>2 DEF PcTypes
<1>7. Grows(sem_spaces, sem_spaces') /\ \A n : Unlocked(sem_spaces', n) => Unlocked(sem_spaces, n)
  BY <1>2 DEF Opens, Grows
<1>8. Standing'
  <2>1. Placed(c)'
    BY <1>2, <1>3 DEF Placed
  <2>. QED  BY <1>1, <1>2, <1>6, <1>7, <2>1, Nobody, StandingStep
<1>9. \A p \in Children : pc'[p] = pc[p] /\ at'[p] = at[p] /\ rounds'[p] = rounds[p]
  BY <1>3, <1>6, Nobody
<1>10. pid \in Pids /\ pid \in Nat /\ pc[pid] = Entry(pid) /\ rounds[pid] = 0
  <2>1. pid \in Pids /\ pid \in Nat
    BY <1>2, KernelConstants, RoleFacts
  <2>. QED  BY <1>1, <2>1 DEF PcTypes
<1>11. Ends'
  <2>. SUFFICES ASSUME NEW p \in Children PROVE Ending(p)'
    BY DEF Ends
  <2>1. Ending(p) /\ pc'[p] = pc[p] /\ rounds'[p] = rounds[p]
    BY <1>1, <1>9 DEF Ends
  <2>2. p < pid' => Listed(sem_spaces', p, p - Role(p))
    <3>1. p \in Nat
      BY RoleFacts DEF Children
    <3>2. CASE p = pid
      BY <1>2, <3>2 DEF Opens
    <3>3. CASE p < pid
      BY <1>7, <2>1, <3>3 DEF Ending, Grows
    <3>. QED  BY <1>2, <1>10, <3>1, <3>2, <3>3
  <2>. QED  BY <1>7, <2>1, <2>2 DEF Ending, Grows
<1>12. global' = global => Mutex'
  <2>1. \A p \in Children : Has(p)' => Has(p)
    BY <1>9 DEF Has
  <2>2. UnlocksOnly(sem_spaces, sem_spaces', 0)
    BY <1>7 DEF UnlocksOnly
  <2>. QED  BY <1>1, <1>9, <2>1, <2>2, Nobody, MutexStep
<1>. QED  BY <1>2, <1>3, <1>4, <1>5, <1>7, <1>8, <1>9, <1>10, <1>11, <1>12

\* test_sync creates its children.
LEMMA DecreaserStep ==
  ASSUME TestInv, TableHasRoom, CreateDecreaser
  PROVE  TestInv'
<1>. SUFFICES ASSUME NEW c, c = current_pcb PROVE TestInv'
  OBVIOUS
<1>0. Base /\ PcTypes /\ Mutex /\ Course /\ printed \subseteq {0} /\ pid \in Nat
  BY BaseFacts DEF TestInv
<1>1. /\ Goto("decreaser", "increaser") /\ SysCreate(FALSE) /\ global' = 0
      /\ aux' = aux /\ rounds' = rounds /\ printed' = printed
  BY DEF CreateDecreaser
<1>2. "decreaser" \in InTest \ {"exit"} /\ "increaser" \in InTest
  BY DEF InTest
<1>3. /\ c \in Tests /\ c < pid /\ status[c] # DEAD /\ at[c].op = "user"
      /\ pc[c] = "decreaser" /\ pc' = [pc EXCEPT ![c] = "increaser"]
  BY <1>0, <1>1, <1>2, WhoRuns
<1>4. pid = c + 1 /\ foreground_pid = c /\ c + 2 =< MaxPid
  BY <1>0, <1>3 DEF Course, CourseOf
<1>5. c \in Nat /\ c >= 4 /\ Role(c + 1) = 1 /\ c + 1 \notin Tests /\ c \notin Children /\ c # SHELL_PID
  BY <1>3, RoleFacts, KernelConstants DEF Tests
<1>6. /\ Base' /\ PcTypes' /\ Standing' /\ Ends' /\ at' = at /\ pid' = pid + 1 /\ pid \in Clients
      /\ foreground_pid' = foreground_pid
      /\ \A p \in Children : pc'[p] = pc[p] /\ at'[p] = at[p]
      /\ \A n : Unlocked(sem_spaces', n) => Unlocked(sem_spaces, n)
  <2>1. pid - Role(pid) = c
    BY <1>4, <1>5
  <2>2. 0 \in Int
    OBVIOUS
  <2>. QED  BY <1>1, <1>2, <1>3, <1>5, <2>1, <2>2, CreateStays
<1>7. c + 1 \in Children /\ c + 2 \in Children /\ c + 1 \in Pids /\ c + 2 \in Pids
  <2>1. c + 1 \in Clients /\ c + 2 \in Clients
    BY <1>4, <1>5, SchedulerAssumption DEF Clients
  <2>. QED  BY <1>3, <2>1, RoleFacts, Nobody
<1>8. /\ pc[c + 1] = "open" /\ pc[c + 2] = "open" /\ rounds[c + 1] = 0 /\ rounds[c + 2] = 0
  <2>1. c + 1 >= pid /\ c + 2 >= pid
    BY <1>4, <1>5
  <2>. QED  BY <1>0, <1>7, <2>1, EntryPoints DEF PcTypes
<1>9. Mutex'
  <2>1. \A p \in Children : Has(p)' => Has(p)
    BY <1>6 DEF Has
  <2>2. \A p \in Children : pc'[p] \notin {"yield", "store"}
    <3>. SUFFICES ASSUME NEW p \in Children, pc[p] \in {"yield", "store"} PROVE FALSE
      BY <1>6
    <3>1. p = c + 1 \/ p = c + 2
      BY <1>0, <1>3, OthersDone
    <3>. QED  BY <1>8, <3>1
  <2>3. \A p \in Children : Has(p)' => ~Unlocked(sem_spaces', sem_1)
    BY <1>0, <1>6, <2>1 DEF Mutex
  <2>4. \A p, q \in Children : Has(p)' /\ Has(q)' => p = q
    BY <1>0, <2>1 DEF Mutex
  <2>. QED  BY <2>2, <2>3, <2>4 DEF Mutex
<1>10. CourseOf(c)'
  <2>1. pc'[c] = "increaser" /\ pc'[c + 1] = "open" /\ pc'[c + 2] = "open"
    BY <1>0, <1>3, <1>6, <1>7, <1>8, Nobody DEF PcTypes
  <2>2. Stored(c + 1)' = 0 /\ Stored(c + 2)' = 0
    BY <1>1, <1>8, <2>1 DEF Stored
  <2>3. pid' = c + 2 /\ global' = 0 - 0 /\ foreground_pid' = c
    BY <1>1, <1>4, <1>5, <1>6
  <2>. QED  BY <1>4, <2>1, <2>2, <2>3 DEF CourseOf
<1>11. Course'
  <2>1. \A t \in Tests : t < pid' => t < pid
    <3>1. \A t \in Tests : t \in Nat
      BY RoleFacts
    <3>. QED  BY <1>0, <1>4, <1>5, <1>6, <3>1
  <2>2. \A p \in Pids : p # c => pc'[p] = pc[p]
    BY <1>0, <1>3 DEF PcTypes
  <2>. QED  BY <1>0, <1>3, <1>6, <1>10, <2>1, <2>2, CourseMoves
<1>. QED  BY <1>0, <1>1, <1>6, <1>9, <1>11 DEF TestInv

\* The test creates the increaser.
LEMMA IncreaserStep ==
  ASSUME TestInv, TableHasRoom, CreateIncreaser
  PROVE  TestInv'
<1>. SUFFICES ASSUME NEW c, c = current_pcb PROVE TestInv'
  OBVIOUS
<1>0. Base /\ PcTypes /\ Course /\ printed \subseteq {0} /\ pid \in Nat /\ global \in Int
  BY BaseFacts DEF TestInv, PcTypes
<1>1. /\ Goto("increaser", "wait_dec") /\ SysCreate(FALSE) /\ global' = global
      /\ aux' = aux /\ rounds' = rounds /\ printed' = printed
  BY DEF CreateIncreaser, Local
<1>2. "increaser" \in InTest \ {"exit"} /\ "wait_dec" \in InTest
  BY DEF InTest
<1>3. /\ c \in Tests /\ c < pid /\ status[c] # DEAD /\ at[c].op = "user"
      /\ pc[c] = "increaser" /\ pc' = [pc EXCEPT ![c] = "wait_dec"]
  BY <1>0, <1>1, <1>2, WhoRuns
<1>4. /\ pid = c + 2 /\ foreground_pid = c /\ c + 2 =< MaxPid
      /\ global = Stored(c + 2) - Stored(c + 1)
  BY <1>0, <1>3 DEF Course, CourseOf
<1>5. c \in Nat /\ c >= 4 /\ Role(c + 2) = 2 /\ c + 2 \notin Tests /\ c \notin Children /\ c # SHELL_PID
  BY <1>3, RoleFacts, KernelConstants DEF Tests
<1>6. /\ Base' /\ PcTypes' /\ Standing' /\ Ends' /\ Mutex' /\ pid' = pid + 1
      /\ foreground_pid' = foreground_pid
      /\ \A p \in Children : pc'[p] = pc[p]
  <2>1. pid - Role(pid) = c
    BY <1>4, <1>5
  <2>. QED  BY <1>0, <1>1, <1>2, <1>3, <1>5, <2>1, CreateStays
<1>7. c + 1 \in Children /\ c + 2 \in Children
  <2>1. c + 1 \in Clients /\ c + 2 \in Clients
    BY <1>4, <1>5, SchedulerAssumption DEF Clients
  <2>. QED  BY <1>3, <2>1, RoleFacts
<1>8. CourseOf(c)'
  <2>1. pc'[c] = "wait_dec" /\ pc'[c + 1] = pc[c + 1] /\ pc'[c + 2] = pc[c + 2]
    BY <1>0, <1>3, <1>6, <1>7, Nobody DEF PcTypes
  <2>2. Stored(c + 1)' = Stored(c + 1) /\ Stored(c + 2)' = Stored(c + 2)
    BY <1>1, <2>1 DEF Stored
  <2>3. pid' = c + 3 /\ foreground_pid' = c
    BY <1>4, <1>5, <1>6
  <2>. QED  BY <1>1, <1>4, <2>1, <2>2, <2>3 DEF CourseOf
<1>9. Course'
  <2>1. \A t \in Tests : t < pid' => t < pid
    <3>1. \A t \in Tests : t \in Nat
      BY RoleFacts
    <3>. QED  BY <1>0, <1>4, <1>5, <1>6, <3>1
  <2>2. \A p \in Pids : p # c => pc'[p] = pc[p]
    BY <1>0, <1>3 DEF PcTypes
  <2>. QED  BY <1>0, <1>3, <1>6, <1>8, <2>1, <2>2, CourseMoves
<1>. QED  BY <1>0, <1>1, <1>6, <1>9 DEF TestInv

\* The shell starts the next test when the one before is done.
LEMMA CommandStep ==
  ASSUME TestInv, TableHasRoom, ShellCommand
  PROVE  TestInv'
<1>. SUFFICES ASSUME NEW c, c = current_pcb PROVE TestInv'
  OBVIOUS
<1>0. Base /\ PcTypes /\ Course /\ printed \subseteq {0} /\ pid \in Nat /\ global \in Int
  BY BaseFacts DEF TestInv, PcTypes
<1>1. /\ Goto("command", "read") /\ SysCreate(TRUE) /\ global' = global
      /\ aux' = aux /\ rounds' = rounds /\ printed' = printed
      /\ foreground_pid = SHELL_PID /\ pid + 2 =< MaxPid
  BY DEF ShellCommand, Local
<1>2. /\ c = SHELL_PID /\ c < pid /\ status[c] # DEAD /\ at[c].op = "user"
      /\ pc[c] = "command" /\ pc' = [pc EXCEPT ![c] = "read"]
  BY <1>0, <1>1, WhoRuns
<1>3. c \notin Tests /\ c \notin Children
  BY <1>2, KernelConstants DEF Tests, Children
<1>4. \A t \in Tests : t < pid => CourseOf(t) /\ pc[t] = "exit"
  BY <1>0, <1>1, <1>2, <1>3 DEF Course, CourseOf
<1>5. pid \notin Children
  <2>. SUFFICES ASSUME pid \in Children PROVE FALSE
    OBVIOUS
  <2>1. PICK t \in Tests : pid = t + 1 \/ pid = t + 2
    BY ChildOf
  <2>2. t \in Nat
    BY RoleFacts
  <2>3. t < pid /\ ~(pid >= t + 3)
    BY <2>1, <2>2
  <2>. QED  BY <1>4, <2>3 DEF CourseOf
<1>6. /\ Base' /\ PcTypes' /\ Standing' /\ Ends' /\ Mutex' /\ pid' = pid + 1 /\ pid \in Clients
      /\ foreground_pid' = pid /\ pc[pid] = Entry(pid)
  BY <1>0, <1>1, <1>2, <1>3, <1>5, CreateStays
<1>7. pid \in Tests /\ pid \in Pids
  BY <1>5, <1>6, RoleFacts, Nobody
<1>8. \A p \in Pids : p # c => pc'[p] = pc[p]
  BY <1>0, <1>2 DEF PcTypes
<1>9. Course'
  <2>. SUFFICES ASSUME NEW t \in Tests, t < pid' PROVE CourseOf(t)'
    BY DEF Course
  <2>1. t \in Nat /\ t # c
    BY <1>3, RoleFacts
  <2>2. CASE t = pid
    <3>1. pc'[t] = "decreaser"
      BY <1>2, <1>6, <1>7, <1>8, <2>1, <2>2, EntryPoints
    <3>. QED  BY <1>1, <1>6, <2>2, <3>1 DEF CourseOf
  <2>3. CASE t < pid
    BY <1>0, <1>3, <1>4, <1>6, <1>8, <2>1, <2>3, DoneStays
  <2>. QED  BY <1>0, <1>6, <2>1, <2>2, <2>3
<1>. QED  BY <1>0, <1>1, <1>6, <1>9 DEF TestInv

-----------------------------------------------------------------------------
(* The steps of the children. *)

\* The child c moves on, and what the children stored is what it was.
LEMMA ChildCourse ==
  ASSUME TestInv, PcTypes', NEW c \in Children, NEW to, pc' = [pc EXCEPT ![c] = to], pc[c] # "exit",
         NEW a, at' = [at EXCEPT ![c] = a], pid' = pid, foreground_pid' = foreground_pid,
         global' = global, \A p \in Pids : p # c => rounds'[p] = rounds[p],
         Stored(c)' = Stored(c)
  PROVE  Course'
<1>1. Base /\ PcTypes /\ Course /\ at \in [Pids -> Place]
  BY DEF TestInv, Base
<1>2. c \in Pids /\ c \notin Tests /\ pc'[c] = to
  BY <1>1, RoleFacts, Nobody DEF PcTypes
<1>3. \A p \in Pids : p # c => pc'[p] = pc[p] /\ at'[p] = at[p]
  BY <1>1 DEF PcTypes
<1>4. \A p \in Children : pc[p] = "exit" => pc'[p] = "exit"
  BY <1>3, Nobody
<1>5. \A p \in Children : rounds'[p] = rounds[p] + (IF pc[p] = "post" THEN 1 ELSE 0)
                                                 - (IF pc'[p] = "post" THEN 1 ELSE 0)
  <2>. SUFFICES ASSUME NEW p \in Children, p # c
                PROVE  rounds'[p] = rounds[p] + (IF pc[p] = "post" THEN 1 ELSE 0)
                                              - (IF pc'[p] = "post" THEN 1 ELSE 0)
    <3>1. rounds[c] \in Nat /\ rounds'[c] \in Nat
      BY <1>1, <1>2 DEF PcTypes
    <3>. QED  BY <3>1 DEF Stored
  <2>1. rounds[p] \in Nat /\ rounds'[p] = rounds[p] /\ pc'[p] = pc[p]
    BY <1>1, <1>3, Nobody DEF PcTypes
  <2>. QED  BY <2>1
<1>6. \A t \in Tests : pc'[t] = pc[t] /\ at'[t] = at[t]
  BY <1>2, <1>3, Nobody
<1>7. 0 \notin Tests
  BY Nobody
<1>. QED  BY <1>1, <1>4, <1>5, <1>6, <1>7, CourseStep

\* The child c moves on from pc[c] to to, and to a in the kernel.
LEMMA ChildMoves ==
  ASSUME TestInv, NEW c \in Children, c < pid, pc[c] # "exit", status[c] # DEAD,
         NEW to \in InChild, pc' = [pc EXCEPT ![c] = to],
         NEW x, x = 0 \/ x = sem_1, Kept(x, 0), foreground_pid' = foreground_pid,
         NEW a \in Place, at' = [at EXCEPT ![c] = a],
         a.op = "user" \/ (a.op = "wait" /\ a.slot \in Slots /\ Busy(sem_spaces, a.slot)
                           /\ sem_spaces[a.slot].identifier = a.name /\ a.name = sem_1 /\ to = "load"),
         aux' \in [Pids -> Int], rounds' \in [Pids -> Nat], global' \in Int,
         \A p \in Pids : p # c => rounds'[p] = rounds[p], printed' = printed,
         to = "exit" => rounds'[c] = iterations,
         to \in {"loop"} \cup Inside => Listed(sem_spaces, sem_1, c),
         Mutex', PcTypes' => Course'
  PROVE  TestInv'
<1>1. Base /\ PcTypes /\ Standing /\ Ends /\ at \in [Pids -> Place] /\ printed \subseteq {0}
  BY DEF TestInv, Base
<1>2. /\ c \in Pids /\ c \in Clients /\ c # IDLE_PID /\ c # SHELL_PID /\ c \notin Tests /\ c # 0 /\ c # sem_1
      /\ c \in Nat
  BY KernelConstants, RoleFacts, Nobody DEF Children
<1>3. at' \in [Pids -> Place] /\ at'[c] = a /\ pc'[c] = to
  BY <1>1, <1>2 DEF PcTypes
<1>4. \A p \in Pids : p # c => pc'[p] = pc[p] /\ at'[p] = at[p]
  BY <1>1 DEF PcTypes
<1>5. /\ Base' /\ Grows(sem_spaces, sem_spaces') /\ pid' = pid
      /\ UnlocksOnly(sem_spaces, sem_spaces', x)
      /\ \A p \in Pids : status[p] = DEAD => status'[p] = DEAD
      /\ \A p \in Pids : status'[p] = DEAD => status[p] = DEAD \/ p = 0
  BY <1>1, <1>3, KeptFacts
<1>6. PcTypes'
  <2>1. \A p \in Pids : p >= pid => rounds'[p] = rounds[p]
    <3>1. pid \in Nat
      BY <1>1, BaseFacts
    <3>2. ~(c >= pid)
      BY <1>2, <3>1
    <3>. QED  BY <3>2
  <2>. QED  BY <1>1, <1>2, <1>5, <2>1, PcStep
<1>7. Standing'
  <2>1. Placed(c)'
    <3>1. status'[c] # DEAD
      BY <1>2, <1>5
    <3>. QED  BY <1>3, <1>5, <3>1 DEF Placed, Grows
  <2>. QED  BY <1>1, <1>4, <1>5, <2>1, Nobody, StandingStep
<1>8. Ends'
  <2>1. \A p \in Children : Unlocked(sem_spaces', p) => Unlocked(sem_spaces, p) \/ p = 0
    BY <1>5, Nobody DEF UnlocksOnly
  <2>2. \A p \in Children : p # c => pc'[p] = pc[p] /\ rounds'[p] = rounds[p]
    BY <1>4, Nobody
  <2>3. Ending(c)'
    <3>1. ~Unlocked(sem_spaces, c) /\ Ending(c)
      BY <1>1 DEF Ends, Ending
    <3>2. ~Unlocked(sem_spaces', c)
      BY <1>2, <2>1, <3>1
    <3>. QED  BY <1>3, <1>5, <3>1, <3>2 DEF Ending, Grows
  <2>4. 0 \notin Children
    BY Nobody
  <2>. QED  BY <1>1, <1>5, <2>1, <2>2, <2>3, <2>4, EndsStep
<1>. QED  BY <1>1, <1>5, <1>6, <1>7, <1>8 DEF TestInv

\* The same without a step into the kernel or out of it.
LEMMA ChildSteps ==
  ASSUME TestInv, NEW c \in Children, c < pid, pc[c] # "exit", status[c] # DEAD, at[c].op = "user",
         NEW to \in InChild, to # "exit", pc' = [pc EXCEPT ![c] = to], Listed(sem_spaces, sem_1, c),
         NEW x, x = 0 \/ x = sem_1, Kept(x, 0), at' = at, foreground_pid' = foreground_pid,
         aux' \in [Pids -> Int], rounds' \in [Pids -> Nat], global' \in Int,
         \A p \in Pids : p # c => rounds'[p] = rounds[p], printed' = printed,
         Mutex', PcTypes' => Course'
  PROVE  TestInv'
<1>. SUFFICES ASSUME NEW a, a = at[c] PROVE TestInv'
  OBVIOUS
<1>1. at \in [Pids -> Place] /\ c \in Pids
  BY Nobody DEF TestInv, Base
<1>2. a \in Place /\ at' = [at EXCEPT ![c] = a] /\ a.op = "user"
  BY <1>1
<1>. QED  BY <1>2, ChildMoves

\* The child c waits for sem_1, for the first time or again.
LEMMA ChildWaits ==
  ASSUME TestInv, NEW c \in Children, c = current_pcb, c < pid, status[c] # DEAD,
         pc[c] \in {"loop", "load"}, pc' = [pc EXCEPT ![c] = "load"], Local,
         NEW i \in Slots, Busy(sem_spaces, i), sem_spaces[i].identifier = sem_1,
         Takes(sem_1, i) \/ Sleeps(sem_1, i)
  PROVE  TestInv'
<1>1. Base /\ PcTypes /\ Ends /\ Mutex /\ Course /\ at \in [Pids -> Place]
  BY DEF TestInv, Base
<1>2. /\ c \in Pids /\ c # IDLE_PID /\ pc'[c] = "load" /\ sem_1 \in Names
      /\ Listed(sem_spaces, sem_1, c)
  BY <1>1, KernelConstants, TestSyncAssumption DEF PcTypes, Children, Ends, Ending, Names, Inside
<1>3. /\ aux' = aux /\ rounds' = rounds /\ global' = global /\ printed' = printed
      /\ aux' \in [Pids -> Int] /\ rounds' \in [Pids -> Nat] /\ global' \in Int
  BY <1>1 DEF Local, PcTypes
<1>4. "load" \in InChild
  BY DEF InChild
<1>5. \A p \in Children : p # c => p \in Pids /\ pc'[p] = pc[p]
  BY <1>1, Nobody DEF PcTypes
<1>6. Stored(c)' = Stored(c)
  BY <1>2, <1>3 DEF Stored
<1>7. CASE Takes(sem_1, i)
  <2>1. /\ Kept(0, 0) /\ foreground_pid' = foreground_pid /\ at' = [at EXCEPT ![c] = User]
        /\ Unlocked(sem_spaces, sem_1) /\ ~Unlocked(sem_spaces', sem_1)
    BY <1>1, <1>7, TakeKept
  <2>2. \A p \in Children : p # c => at'[p] = at[p]
    BY <1>1, <1>5, <2>1
  <2>3. Mutex'
    <3>1. \A p \in Children : ~Has(p)
      BY <1>1, <2>1 DEF Mutex
    <3>2. \A p \in Children : Has(p)' => p = c
      BY <1>5, <2>2, <3>1 DEF Has
    <3>3. \A p \in Children : pc'[p] \in {"yield", "store"} => aux'[p] = global'
      BY <1>1, <1>2, <1>3, <1>5 DEF Mutex
    <3>. QED  BY <2>1, <3>2, <3>3 DEF Mutex
  <2>4. pid' = pid
    BY <2>1 DEF Kept
  <2>5. PcTypes' => Course'
    BY <1>3, <1>6, <2>1, <2>4, ChildCourse
  <2>. QED  BY <1>2, <1>3, <1>4, <2>1, <2>3, <2>5, PlaceFacts, ChildMoves
<1>8. CASE Sleeps(sem_1, i)
  <2>. DEFINE a == Waiting(sem_1, i)
  <2>1. Kept(0, 0) /\ at' = [at EXCEPT ![c] = a] /\ foreground_pid' = foreground_pid
    BY <1>1, <1>2, <1>8, SleepKept
  <2>2. a \in Place /\ a.op = "wait" /\ a.name = sem_1 /\ a.slot = i
    BY <1>2, PlaceFacts
  <2>. HIDE DEF a
  <2>3. pid' = pid /\ UnlocksOnly(sem_spaces, sem_spaces', 0)
    BY <2>1 DEF Kept
  <2>4. Mutex'
    <3>1. \A p \in Children : Has(p)' => Has(p)
      <4>1. at'[c].op = "wait" /\ \A p \in Children : p # c => at'[p] = at[p]
        BY <1>1, <1>2, <1>5, <2>1, <2>2
      <4>. QED  BY <1>5, <4>1 DEF Has
    <3>2. \A p \in Children : pc'[p] \in {"yield", "store"} => pc[p] = pc'[p] /\ aux'[p] = aux[p]
      BY <1>2, <1>3, <1>5
    <3>. QED  BY <1>1, <1>3, <2>3, <3>1, <3>2, Nobody, MutexStep
  <2>5. PcTypes' => Course'
    BY <1>3, <1>6, <2>1, <2>3, ChildCourse
  <2>. QED  BY <1>2, <1>3, <1>4, <2>1, <2>2, <2>4, <2>5, ChildMoves
<1>. QED  BY <1>7, <1>8

\* What a child is like when a step of its program is taken.
LEMMA ChildRuns ==
  ASSUME TestInv, NEW from, NEW to, Goto(from, to), from \in InChild \ {"exit"}, NEW c, c = current_pcb
  PROVE  /\ c \in Children /\ c \in Pids /\ c < pid /\ c # IDLE_PID /\ status[c] # DEAD
         /\ at[c] \in Place /\ at[c].op = "user" /\ at = [at EXCEPT ![c] = at[c]]
         /\ pc[c] = from /\ pc' = [pc EXCEPT ![c] = to] /\ pc'[c] = to
         /\ \A p \in Children : p # c => p \in Pids /\ pc'[p] = pc[p]
         /\ from \in {"loop"} \cup Inside => Listed(sem_spaces, sem_1, c)
         /\ rounds[c] \in Nat /\ aux[c] \in Int /\ global \in Int
         /\ aux \in [Pids -> Int] /\ rounds \in [Pids -> Nat]
<1>1. Base /\ PcTypes /\ Ends /\ at \in [Pids -> Place]
  BY DEF TestInv, Base
<1>2. /\ c \in Pids /\ c # IDLE_PID /\ c < pid /\ at[c].op = "user" /\ status[c] # DEAD
      /\ pc[c] = from /\ pc' = [pc EXCEPT ![c] = to] /\ c \in Children
  BY <1>1, WhoRuns
<1>3. at[c] \in Place /\ at = [at EXCEPT ![c] = at[c]]
  BY <1>1, <1>2
<1>4. /\ pc'[c] = to /\ rounds[c] \in Nat /\ aux[c] \in Int /\ global \in Int
      /\ aux \in [Pids -> Int] /\ rounds \in [Pids -> Nat]
  BY <1>1, <1>2 DEF PcTypes
<1>5. \A p \in Children : p # c => p \in Pids /\ pc'[p] = pc[p]
  BY <1>1, <1>2, Nobody DEF PcTypes
<1>6. from \in {"loop"} \cup Inside => Listed(sem_spaces, sem_1, c)
  BY <1>1, <1>2 DEF Ends, Ending
<1>. QED  BY <1>2, <1>3, <1>4, <1>5, <1>6

\* A child waits for sem_1, which it opened.
LEMMA WaitSemStep ==
  ASSUME TestInv, WaitSem
  PROVE  TestInv'
<1>. SUFFICES ASSUME NEW c, c = current_pcb PROVE TestInv'
  OBVIOUS
<1>1. Goto("loop", "load") /\ SysSemWait(sem_1) /\ Local /\ Base
  BY DEF WaitSem, TestInv
<1>2. "loop" \in InChild \ {"exit"}
  BY DEF InChild
<1>3. /\ c \in Children /\ c < pid /\ status[c] # DEAD /\ pc[c] = "loop"
      /\ pc' = [pc EXCEPT ![c] = "load"] /\ Listed(sem_spaces, sem_1, c)
  BY <1>1, <1>2, ChildRuns
<1>4. PICK i \in Slots : /\ Busy(sem_spaces, i) /\ sem_spaces[i].identifier = sem_1
                         /\ Takes(sem_1, i) \/ Sleeps(sem_1, i)
  BY <1>1, <1>3, WaitSemKept
<1>. QED  BY <1>1, <1>3, <1>4, ChildWaits

\* A child in user code goes from from to to and leaves sem_1 and the counter alone.
LEMMA ChildGoes ==
  ASSUME TestInv, NEW from, NEW to \in InChild, Goto(from, to), from \in InChild \ {"exit"},
         NEW c, c = current_pcb, from \in {"loop"} \cup Inside,
         Kept(0, 0), at' = at, foreground_pid' = foreground_pid,
         NEW v \in Int, aux' = [aux EXCEPT ![c] = v], rounds' = rounds, global' = global, printed' = printed,
         from # "post", to # "post", to = "exit" => rounds[c] = iterations,
         to \in Inside => from \in Inside,
         to \in {"yield", "store"} => v = global
  PROVE  TestInv'
<1>1. /\ c \in Children /\ c \in Pids /\ c < pid /\ status[c] # DEAD
      /\ at[c] \in Place /\ at[c].op = "user" /\ at = [at EXCEPT ![c] = at[c]]
      /\ pc[c] = from /\ pc' = [pc EXCEPT ![c] = to] /\ pc'[c] = to
      /\ \A p \in Children : p # c => p \in Pids /\ pc'[p] = pc[p]
      /\ from \in {"loop"} \cup Inside => Listed(sem_spaces, sem_1, c)
      /\ rounds[c] \in Nat /\ global \in Int
      /\ aux \in [Pids -> Int] /\ rounds \in [Pids -> Nat]
  BY ChildRuns
<1>2. Mutex /\ pid' = pid /\ UnlocksOnly(sem_spaces, sem_spaces', 0)
  BY DEF TestInv, Kept
<1>3. Mutex'
  <2>1. \A p \in Children : Has(p)' => Has(p)
    BY <1>1 DEF Has
  <2>2. \A p \in Children : Has(p)' => ~Unlocked(sem_spaces', sem_1)
    BY <1>2, <2>1, Nobody DEF Mutex, UnlocksOnly
  <2>3. \A p, q \in Children : Has(p)' /\ Has(q)' => p = q
    BY <1>2, <2>1 DEF Mutex
  <2>4. \A p \in Children : pc'[p] \in {"yield", "store"} => aux'[p] = global'
    BY <1>1, <1>2 DEF Mutex
  <2>. QED  BY <2>2, <2>3, <2>4 DEF Mutex
<1>4. Stored(c)' = Stored(c)
  BY <1>1 DEF Stored
<1>5. PcTypes' => Course'
  <2>. SUFFICES ASSUME PcTypes', NEW a, a = at[c] PROVE Course'
    OBVIOUS
  <2>1. /\ c \in Children /\ pc' = [pc EXCEPT ![c] = to] /\ pc[c] # "exit"
        /\ at' = [at EXCEPT ![c] = a] /\ pid' = pid
        /\ \A p \in Pids : p # c => rounds'[p] = rounds[p]
    BY <1>1, <1>2
  <2>. QED  BY <1>4, <2>1, ChildCourse
<1>6. aux' \in [Pids -> Int] /\ rounds' \in [Pids -> Nat] /\ global' \in Int
  BY <1>1
<1>. QED  BY <1>1, <1>3, <1>5, <1>6, ChildMoves

\* A child that did all its rounds leaves the loop.
LEMMA EndLoopStep ==
  ASSUME TestInv, EndLoop
  PROVE  TestInv'
<1>. SUFFICES ASSUME NEW c, c = current_pcb PROVE TestInv'
  OBVIOUS
<1>1. Goto("loop", "exit") /\ rounds[c] = iterations /\ UNCHANGED kvars /\ Local /\ Base
  BY DEF EndLoop, TestInv
<1>2. {"loop", "exit"} \subseteq InChild /\ "exit" \notin Inside
  BY DEF InChild, Inside
<1>3. aux[c] \in Int /\ aux = [aux EXCEPT ![c] = aux[c]]
  BY <1>1, <1>2, ChildRuns
<1>4. Kept(0, 0) /\ at' = at /\ foreground_pid' = foreground_pid
  BY <1>1, StillKept
<1>. QED  BY <1>1, <1>2, <1>3, <1>4, ChildGoes DEF Local

\* The counter is read under sem_1.
LEMMA LoadStep ==
  ASSUME TestInv, Load
  PROVE  TestInv'
<1>. SUFFICES ASSUME NEW c, c = current_pcb PROVE TestInv'
  OBVIOUS
<1>1. /\ Goto("load", "yield") /\ aux' = [aux EXCEPT ![c] = global] /\ Base
      /\ UNCHANGED <<kvars, rounds, global, printed>>
  BY DEF Load, TestInv
<1>2. {"load", "yield"} \subseteq InChild /\ {"load", "yield"} \subseteq Inside
  BY DEF InChild, Inside
<1>3. global \in Int
  BY <1>1, <1>2, ChildRuns
<1>4. Kept(0, 0) /\ at' = at /\ foreground_pid' = foreground_pid
  BY <1>1, StillKept
<1>. QED  BY <1>1, <1>2, <1>3, <1>4, ChildGoes

\* The yield between the load and the store does not give sem_1 away.
LEMMA SlowYieldStep ==
  ASSUME TestInv, SlowYield
  PROVE  TestInv'
<1>. SUFFICES ASSUME NEW c, c = current_pcb PROVE TestInv'
  OBVIOUS
<1>1. Goto("yield", "store") /\ SysYield /\ Local /\ Base /\ Mutex
  BY DEF SlowYield, TestInv
<1>2. {"yield", "store"} \subseteq InChild /\ {"yield", "store"} \subseteq Inside
  BY DEF InChild, Inside
<1>3. aux[c] \in Int /\ aux = [aux EXCEPT ![c] = aux[c]] /\ c \in Children /\ pc[c] = "yield"
  BY <1>1, <1>2, ChildRuns
<1>4. aux[c] = global
  BY <1>1, <1>3 DEF Mutex
<1>5. Kept(0, 0) /\ at' = at /\ foreground_pid' = foreground_pid
  BY <1>1, YieldKept
<1>. QED  BY <1>1, <1>2, <1>3, <1>4, <1>5, ChildGoes DEF Local

\* The store of a child counts for its test: one down for the decreaser, one up
\* for the increaser.
LEMMA StoreCourse ==
  ASSUME TestInv, NEW c \in Children, c < pid, pc[c] = "store", pc' = [pc EXCEPT ![c] = "post"],
         at' = at, pid' = pid, foreground_pid' = foreground_pid, rounds' = rounds,
         global' = global + inc(c)
  PROVE  Course'
<1>. SUFFICES ASSUME NEW t \in Tests, t < pid PROVE CourseOf(t)'
  BY DEF Course
<1>1. Base /\ PcTypes /\ Course /\ CourseOf(t) /\ global \in Int
  BY DEF TestInv, Course, PcTypes
<1>2. c \in Pids /\ c \notin Tests /\ t \in Pids /\ t \in Nat /\ t >= 4
  BY RoleFacts, Nobody
<1>3. t + 1 \in Children /\ t + 2 \in Children
  <2>1. t + 1 \in Clients /\ t + 2 \in Clients
    BY <1>1, <1>2, SchedulerAssumption DEF Clients, CourseOf
  <2>. QED  BY <2>1, RoleFacts
<1>4. \A p \in Pids : pc'[p] = IF p = c THEN "post" ELSE pc[p]
  BY <1>1 DEF PcTypes
<1>5. pc'[t] = pc[t] /\ \A p \in Children : pc[p] = "exit" => pc'[p] = "exit"
  BY <1>2, <1>4, Nobody
<1>6. pc[t] \notin {"decreaser", "exit"} => global' = Stored(t + 2)' - Stored(t + 1)'
  <2>. SUFFICES ASSUME pc[t] \notin {"decreaser", "exit"} PROVE global' = Stored(t + 2)' - Stored(t + 1)'
    OBVIOUS
  <2>1. global = Stored(t + 2) - Stored(t + 1)
    BY <1>1 DEF CourseOf
  <2>2. (c = t + 1 /\ Role(c) = 1) \/ (c = t + 2 /\ Role(c) = 2)
    BY <1>1, OthersDone
  <2>3. \A p \in Children : rounds[p] \in Nat
    BY <1>1, Nobody DEF PcTypes
  <2>4. /\ Stored(c) \in Nat /\ Stored(c)' = Stored(c) + 1
        /\ \A p \in Children : p # c => Stored(p) \in Nat /\ Stored(p)' = Stored(p)
    BY <1>2, <1>4, <2>3, Nobody DEF Stored
  <2>5. CASE c = t + 1 /\ Role(c) = 1
    <3>1. global' = global - 1
      BY <1>1, <2>5 DEF inc
    <3>2. Stored(t + 1)' = Stored(t + 1) + 1 /\ Stored(t + 1) \in Nat
      BY <2>4, <2>5
    <3>3. Stored(t + 2)' = Stored(t + 2) /\ Stored(t + 2) \in Nat
      BY <1>2, <1>3, <2>4, <2>5
    <3>. QED  BY <2>1, <3>1, <3>2, <3>3
  <2>6. CASE c = t + 2 /\ Role(c) = 2
    <3>1. global' = global + 1
      BY <1>1, <2>6 DEF inc
    <3>2. Stored(t + 2)' = Stored(t + 2) + 1 /\ Stored(t + 2) \in Nat
      BY <2>4, <2>6
    <3>3. Stored(t + 1)' = Stored(t + 1) /\ Stored(t + 1) \in Nat
      BY <1>2, <1>3, <2>4, <2>6
    <3>. QED  BY <2>1, <3>1, <3>2, <3>3
  <2>. QED  BY <2>2, <2>5, <2>6
<1>. QED  BY <1>1, <1>3, <1>5, <1>6 DEF CourseOf

\* Nobody else is between its load and its store.
LEMMA StoreStep ==
  ASSUME TestInv, Store
  PROVE  TestInv'
<1>. SUFFICES ASSUME NEW c, c = current_pcb PROVE TestInv'
  OBVIOUS
<1>1. /\ Goto("store", "post") /\ global' = aux[c] + inc(c)
      /\ UNCHANGED <<kvars, aux, rounds, printed>>
  BY DEF Store
<1>2. {"store", "post"} \subseteq InChild /\ {"store", "post", "yield"} \subseteq Inside
  BY DEF InChild, Inside
<1>3. /\ c \in Children /\ c \in Pids /\ c < pid /\ status[c] # DEAD
      /\ at[c] \in Place /\ at[c].op = "user" /\ at = [at EXCEPT ![c] = at[c]]
      /\ pc[c] = "store" /\ pc' = [pc EXCEPT ![c] = "post"] /\ pc'[c] = "post"
      /\ \A p \in Children : p # c => p \in Pids /\ pc'[p] = pc[p]
      /\ Listed(sem_spaces, sem_1, c) /\ global \in Int
      /\ aux \in [Pids -> Int] /\ rounds \in [Pids -> Nat]
  BY <1>1, <1>2, ChildRuns
<1>4. Base /\ Standing /\ Mutex
  BY DEF TestInv
<1>5. Kept(0, 0) /\ at' = at /\ foreground_pid' = foreground_pid
  BY <1>1, <1>4, StillKept
<1>6. pid' = pid /\ UnlocksOnly(sem_spaces, sem_spaces', 0)
  BY <1>5 DEF Kept
<1>7. global' = global + inc(c) /\ global' \in Int
  BY <1>1, <1>3, <1>4 DEF Mutex, inc
<1>8. Mutex'
  <2>1. \A p \in Children : Has(p)' => Has(p)
    BY <1>2, <1>3, <1>5 DEF Has
  <2>2. \A p \in Children : Has(p)' => ~Unlocked(sem_spaces', sem_1)
    BY <1>4, <1>6, <2>1, Nobody DEF Mutex, UnlocksOnly
  <2>3. \A p, q \in Children : Has(p)' /\ Has(q)' => p = q
    BY <1>4, <2>1 DEF Mutex
  <2>4. \A p \in Children : pc'[p] \notin {"yield", "store"}
    <3>. SUFFICES ASSUME NEW p \in Children, p # c, pc[p] \in {"yield", "store"} PROVE FALSE
      BY <1>3
    <3>1. at[p].op = "user"
      BY <1>3, <1>4 DEF Standing, Placed
    <3>2. Has(p) /\ Has(c)
      BY <1>2, <1>3, <3>1 DEF Has
    <3>. QED  BY <1>3, <1>4, <3>2 DEF Mutex
  <2>. QED  BY <2>2, <2>3, <2>4 DEF Mutex
<1>9. Course'
  BY <1>1, <1>3, <1>5, <1>6, <1>7, StoreCourse
<1>10. /\ aux' \in [Pids -> Int] /\ rounds' \in [Pids -> Nat] /\ printed' = printed
       /\ \A p \in Pids : p # c => rounds'[p] = rounds[p]
  BY <1>1, <1>3
<1>11. pc[c] # "exit" /\ "post" # "exit" /\ "post" \in InChild
  BY <1>2, <1>3
<1>. QED  BY <1>3, <1>5, <1>7, <1>8, <1>9, <1>10, <1>11, ChildSteps

\* The child that has sem_1 gives it back, and nobody has it.
LEMMA PostSemStep ==
  ASSUME TestInv, PostSem
  PROVE  TestInv'
<1>. SUFFICES ASSUME NEW c, c = current_pcb PROVE TestInv'
  OBVIOUS
<1>1. /\ Goto("post", "loop") /\ SysSemPost(sem_1) /\ rounds' = [rounds EXCEPT ![c] = @ + 1]
      /\ UNCHANGED <<aux, global, printed>>
  BY DEF PostSem
<1>2. {"post", "loop"} \subseteq InChild /\ "post" \in Inside /\ "loop" \notin Inside
  BY DEF InChild, Inside
<1>3. /\ c \in Children /\ c \in Pids /\ c < pid /\ status[c] # DEAD
      /\ at[c] \in Place /\ at[c].op = "user" /\ at = [at EXCEPT ![c] = at[c]]
      /\ pc[c] = "post" /\ pc' = [pc EXCEPT ![c] = "loop"] /\ pc'[c] = "loop"
      /\ \A p \in Children : p # c => p \in Pids /\ pc'[p] = pc[p]
      /\ Listed(sem_spaces, sem_1, c) /\ global \in Int /\ rounds[c] \in Nat
      /\ aux \in [Pids -> Int] /\ rounds \in [Pids -> Nat]
  BY <1>1, <1>2, ChildRuns
<1>4. Base /\ Mutex
  BY DEF TestInv
<1>5. Kept(sem_1, 0) /\ at' = at /\ foreground_pid' = foreground_pid
  BY <1>1, <1>4, PostKept
<1>6. pid' = pid
  BY <1>5 DEF Kept
<1>7. /\ rounds' \in [Pids -> Nat] /\ rounds'[c] = rounds[c] + 1
      /\ \A p \in Pids : p # c => rounds'[p] = rounds[p]
  BY <1>1, <1>3
<1>8. Mutex'
  <2>1. Has(c)
    BY <1>2, <1>3 DEF Has
  <2>2. \A p \in Children : ~Has(p)'
    BY <1>2, <1>3, <1>4, <1>5, <2>1 DEF Has, Mutex
  <2>3. \A p \in Children : pc'[p] \in {"yield", "store"} => aux'[p] = global'
    BY <1>1, <1>3, <1>4 DEF Mutex
  <2>. QED  BY <2>2, <2>3 DEF Mutex
<1>9. Stored(c)' = Stored(c)
  BY <1>3, <1>7 DEF Stored
<1>10. PcTypes' => Course'
  BY <1>1, <1>3, <1>5, <1>6, <1>7, <1>9, ChildCourse
<1>11. /\ pc[c] # "exit" /\ "loop" # "exit" /\ "loop" \in InChild
       /\ aux' \in [Pids -> Int] /\ global' \in Int /\ printed' = printed
  BY <1>1, <1>2, <1>3
<1>. QED  BY <1>3, <1>5, <1>7, <1>8, <1>10, <1>11, ChildSteps

\* A child opens sem_1, which is new and unlocked or somebody's as it was.
LEMMA OpenSemStep ==
  ASSUME TestInv, TableHasRoom, OpenSem
  PROVE  TestInv'
<1>. SUFFICES ASSUME NEW c, c = current_pcb PROVE TestInv'
  OBVIOUS
<1>0. Base /\ PcTypes /\ Standing /\ Ends /\ Mutex /\ printed \subseteq {0} /\ at \in [Pids -> Place]
  BY DEF TestInv, Base
<1>1. /\ Sched' = Sched /\ at' = at /\ foreground_pid' = foreground_pid
      /\ Opens(sem_spaces, sem_spaces', 0, sem_1, c) /\ Tabled(sem_spaces', pid)
      /\ locate_sem(my_sem_open(Now, 0, sem_1), sem_1) # NOT_FOUND
  BY <1>0, OpenFacts DEF OpenSem
<1>2. Goto("open", "loop") /\ Local
  BY <1>1 DEF OpenSem
<1>3. {"open", "loop"} \subseteq InChild /\ {"open", "loop"} \cap Inside = {}
  BY DEF InChild, Inside
<1>4. /\ c \in Children /\ c \in Pids /\ c < pid /\ c # IDLE_PID /\ status[c] # DEAD
      /\ at[c] \in Place /\ at[c].op = "user" /\ at = [at EXCEPT ![c] = at[c]]
      /\ pc[c] = "open" /\ pc' = [pc EXCEPT ![c] = "loop"] /\ pc'[c] = "loop"
      /\ \A p \in Children : p # c => p \in Pids /\ pc'[p] = pc[p]
      /\ global \in Int /\ aux \in [Pids -> Int] /\ rounds \in [Pids -> Nat]
  BY <1>2, <1>3, ChildRuns
<1>5. aux' = aux /\ rounds' = rounds /\ global' = global /\ printed' = printed
  BY <1>2 DEF Local
<1>6. pid' = pid /\ status' = status /\ creation_queue' = creation_queue
  BY <1>1, SchedFields, SchedPrimed
<1>7. Base'
  BY <1>0, <1>1, <1>6 DEF Base
<1>8. PcTypes'
  <2>1. c # SHELL_PID /\ c \notin Tests
    BY <1>4, KernelConstants, RoleFacts DEF Children
  <2>2. "loop" \in InChild /\ \A p \in Pids : p >= pid => rounds'[p] = rounds[p]
    BY <1>3, <1>5
  <2>. QED  BY <1>0, <1>4, <1>5, <1>6, <2>1, <2>2, PcStep
<1>9. Grows(sem_spaces, sem_spaces')
  BY <1>1 DEF Opens, Grows
<1>10. Standing'
  <2>1. Placed(c)'
    BY <1>1, <1>4, <1>6 DEF Placed
  <2>2. \A p \in Pids : p # c => pc'[p] = pc[p] /\ at'[p] = at[p]
    BY <1>0, <1>1, <1>4 DEF PcTypes
  <2>. QED  BY <1>0, <1>6, <1>9, <2>1, <2>2, Nobody, StandingStep
<1>11. Ends'
  <2>1. \A p \in Children : Unlocked(sem_spaces', p) => Unlocked(sem_spaces, p) \/ p = 0
    BY <1>1, Nobody DEF Opens
  <2>2. Ending(c)'
    <3>1. Ending(c) /\ ~Unlocked(sem_spaces, c) /\ c # 0
      BY <1>0, <1>4, Nobody DEF Ends, Ending
    <3>2. ~Unlocked(sem_spaces', c) /\ Listed(sem_spaces', sem_1, c)
      BY <1>1, <1>4, <2>1, <3>1 DEF Opens
    <3>. QED  BY <1>4, <1>6, <1>9, <3>1, <3>2 DEF Ending, Grows
  <2>3. 0 \notin Children /\ \A p \in Children : p # c => pc'[p] = pc[p] /\ rounds'[p] = rounds[p]
    BY <1>4, <1>5, Nobody
  <2>. QED  BY <1>0, <1>6, <1>9, <2>1, <2>2, <2>3, EndsStep
<1>12. Mutex'
  <2>1. \A p \in Children : Has(p)' => Has(p)
    BY <1>1, <1>3, <1>4 DEF Has
  <2>2. \A p \in Children : Has(p)' => ~Unlocked(sem_spaces', sem_1)
    <3>. SUFFICES ASSUME NEW p \in Children, Has(p) PROVE ~Unlocked(sem_spaces', sem_1)
      BY <2>1
    <3>1. Listed(sem_spaces, sem_1, p) /\ ~Unlocked(sem_spaces, sem_1)
      BY <1>0 DEF Has, Ends, Ending, Mutex
    <3>2. Named(sem_spaces, sem_1)
      BY <3>1 DEF Listed, Named
    <3>. QED  BY <1>1, <3>1, <3>2 DEF Opens
  <2>3. \A p, q \in Children : Has(p)' /\ Has(q)' => p = q
    BY <1>0, <2>1 DEF Mutex
  <2>4. \A p \in Children : pc'[p] \in {"yield", "store"} => aux'[p] = global'
    BY <1>0, <1>4, <1>5 DEF Mutex
  <2>. QED  BY <2>2, <2>3, <2>4 DEF Mutex
<1>13. Course'
  <2>. SUFFICES ASSUME NEW a, a = at[c] PROVE Course'
    OBVIOUS
  <2>1. /\ at' = [at EXCEPT ![c] = a] /\ pc[c] # "exit"
        /\ \A p \in Pids : p # c => rounds'[p] = rounds[p]
    BY <1>1, <1>4, <1>5
  <2>2. Stored(c)' = Stored(c)
    BY <1>4, <1>5 DEF Stored
  <2>. QED  BY <1>1, <1>4, <1>5, <1>6, <1>8, <2>1, <2>2, ChildCourse
<1>. QED  BY <1>0, <1>5, <1>7, <1>8, <1>10, <1>11, <1>12, <1>13 DEF TestInv

-----------------------------------------------------------------------------
(* The steps the processor takes, and the shell in front of the keyboard. *)

\* Back in enter_region, in one of the three calls that wait.
LEMMA RetryOfTest ==
  ASSUME TestInv, Retry, pc' = pc, Local
  PROVE  TestInv'
<1>. SUFFICES ASSUME NEW c, c = current_pcb PROVE TestInv'
  OBVIOUS
<1>1. Base /\ PcTypes /\ Standing
  BY DEF TestInv
<1>2. /\ c \in Pids /\ c < pid /\ Sched \in SchedState /\ at[c].op = "wait"
      /\ pc \in [Pids -> {"command", "read"} \cup InTest \cup InChild]
  BY <1>1, BaseFacts DEF Retry, PcTypes
<1>3. Takes(at[c].name, at[c].slot) \/ Sleeps(at[c].name, at[c].slot)
  BY <1>2, RetryEffect
<1>4. /\ at[c].slot \in Slots /\ Busy(sem_spaces, at[c].slot)
      /\ sem_spaces[at[c].slot].identifier = at[c].name
      /\ \/ pc[c] = "load" /\ at[c].name = sem_1
         \/ pc[c] = "wait_inc" /\ at[c].name = c + 1
         \/ pc[c] = "print" /\ at[c].name = c + 2
  BY <1>1, <1>2 DEF Standing, Placed
<1>5. status[c] # DEAD
  BY <1>1, <1>2, <1>4 DEF Standing, Placed
<1>6. pc' = [pc EXCEPT ![c] = pc[c]]
  BY <1>2
<1>7. pc[c] = "load" => c \in Children
  BY <1>1, <1>2, WhoIs DEF PcTypes, InTest
<1>8. pc[c] \in {"wait_inc", "print"} => c \in Tests
  BY <1>1, <1>2, WhoIs DEF PcTypes, InChild
<1>9. CASE pc[c] = "load" /\ at[c].name = sem_1
  <2>1. pc' = [pc EXCEPT ![c] = "load"] /\ c \in Children
    BY <1>6, <1>7, <1>9
  <2>. QED  BY <1>2, <1>3, <1>4, <1>5, <1>9, <2>1, ChildWaits
<1>10. CASE pc[c] = "wait_inc" /\ at[c].name = c + 1
  <2>1. pc' = [pc EXCEPT ![c] = "wait_inc"] /\ c \in Tests /\ WaitsFor(c, c + 1, "wait_inc")
    BY <1>6, <1>8, <1>10 DEF WaitsFor
  <2>2. PICK i \in Slots : /\ Busy(sem_spaces, i) /\ sem_spaces[i].identifier = c + 1
                           /\ Takes(c + 1, i) \/ Sleeps(c + 1, i)
    BY <1>3, <1>4, <1>10
  <2>. QED  BY <1>2, <1>5, <2>1, <2>2, TestWaits
<1>11. CASE pc[c] = "print" /\ at[c].name = c + 2
  <2>1. pc' = [pc EXCEPT ![c] = "print"] /\ c \in Tests /\ WaitsFor(c, c + 2, "print")
    BY <1>6, <1>8, <1>11 DEF WaitsFor
  <2>2. PICK i \in Slots : /\ Busy(sem_spaces, i) /\ sem_spaces[i].identifier = c + 2
                           /\ Takes(c + 2, i) \/ Sleeps(c + 2, i)
    BY <1>3, <1>4, <1>11
  <2>. QED  BY <1>2, <1>5, <2>1, <2>2, TestWaits
<1>. QED  BY <1>4, <1>9, <1>10, <1>11

\* The timer, or a waiter that is scheduled.
LEMMA InterruptStep ==
  ASSUME TestInv, Interrupt
  PROVE  TestInv'
<1>1. (TimerInterrupt \/ Retry) /\ pc' = pc /\ Local /\ Base /\ PcTypes
  BY DEF Interrupt, TestInv
<1>2. CASE TimerInterrupt
  <2>1. Kept(0, 0) /\ at' = at /\ foreground_pid' = foreground_pid
    BY <1>1, <1>2, TimerKept
  <2>2. PcTypes'
    BY <1>1, <2>1, PcStays DEF Kept
  <2>. QED  BY <1>1, <2>1, <2>2, QuietStep
<1>. QED  BY <1>1, <1>2, RetryOfTest

\* A key wakes the shell.
LEMMA KeyStep ==
  ASSUME TestInv, Key
  PROVE  TestInv'
<1>1. Becomes(os_revive_process(Now, {SHELL_PID})) /\ pc' = pc /\ Local /\ Base /\ PcTypes
  BY DEF Key, TestInv
<1>2. Kept(0, 0) /\ at' = at /\ foreground_pid' = foreground_pid
  BY <1>1, KeyKept
<1>3. PcTypes'
  BY <1>1, <1>2, PcStays DEF Kept
<1>. QED  BY <1>1, <1>2, <1>3, QuietStep

\* The shell sleeps until a key is pressed.
LEMMA ShellReadStep ==
  ASSUME TestInv, ShellRead
  PROVE  TestInv'
<1>. SUFFICES ASSUME NEW c, c = current_pcb PROVE TestInv'
  OBVIOUS
<1>1. Becomes(block_current(Now)) /\ Local /\ Base /\ PcTypes
  BY DEF ShellRead, TestInv
<1>2. PICK from \in {"command", "read"} : Goto(from, "command")
  BY DEF ShellRead
<1>3. /\ c = SHELL_PID /\ c \in Pids /\ c # IDLE_PID /\ c < pid /\ status[c] # DEAD
      /\ pc' = [pc EXCEPT ![c] = "command"]
  BY <1>1, <1>2, WhoRuns
<1>4. Kept(0, 0) /\ at' = at /\ foreground_pid' = foreground_pid
  BY <1>1, <1>3, BlockKept
<1>5. PcTypes'
  <2>1. /\ aux' \in [Pids -> Int] /\ rounds' \in [Pids -> Nat] /\ global' \in Int
        /\ \A p \in Pids : p >= pid => rounds'[p] = rounds[p]
    BY <1>1 DEF PcTypes, Local
  <2>2. c \notin Tests /\ c \notin Children
    BY <1>3, KernelConstants DEF Tests, Children
  <2>3. pid' = pid
    BY <1>4 DEF Kept
  <2>. QED  BY <1>1, <1>3, <2>1, <2>2, <2>3, PcStep
<1>6. \A p \in Pids : p # SHELL_PID => pc'[p] = pc[p]
  BY <1>1, <1>3 DEF PcTypes
<1>. QED  BY <1>1, <1>4, <1>5, <1>6, QuietStep

-----------------------------------------------------------------------------
(* The invariant, and what the test prints. *)

\* The state main leaves to the shell: its semaphore and idle's, and no test yet.
LEMMA TestStarts == TestInit => TestInv
<1>. SUFFICES ASSUME TestInit PROVE TestInv
  OBVIOUS
<1>0. KernelInit
  BY DEF TestInit
<1>1. /\ pc = [p \in Pids |-> Entry(p)] /\ aux = [p \in Pids |-> 0] /\ rounds = [p \in Pids |-> 0]
      /\ global = 0 /\ printed = {}
  BY DEF TestInit
<1>2. SemState(Sched, foreground_pid, sem_spaces, at, holding)
  BY <1>0, SemInit DEF SemInv
<1>3. Safe(Sched) /\ sem_spaces \in Table /\ at \in [Pids -> Place] /\ Guarded(sem_spaces, at, holding)
  BY <1>2, SemStateFacts
<1>4. creation_queue = <<>> /\ pid = 4 /\ current_pcb = SHELL_PID
  BY <1>0 DEF KernelInit, SchedInit, IDLE_PID
<1>5. \A p \in Pids : status[p] # DEAD /\ at[p].op = "user"
  <2>1. status = [p \in Pids |-> IF p = SHELL_PID THEN RUNNING ELSE IF p = IDLE_PID THEN READY ELSE NONE]
    BY <1>0 DEF KernelInit, SchedInit
  <2>2. \A p \in Pids : status[p] # DEAD
    BY <2>1 DEF DEAD, RUNNING, READY, NONE
  <2>3. \A p \in Pids : at[p] = User
    BY <1>0 DEF KernelInit
  <2>. QED  BY <2>2, <2>3, PlaceFacts
<1>6. \A i \in Slots : sem_spaces[i] = IF i = 1 THEN Opened(SHELL_PID, 1, NOBODY)
                                       ELSE IF i = 2 THEN Opened(IDLE_PID, 1, NOBODY) ELSE AVAILABLE
  BY <1>0 DEF KernelInit
<1>7. /\ \A n : /\ Opened(n, 1, NOBODY).identifier = n /\ Opened(n, 1, NOBODY).status = "UNAVAILABLE"
                /\ Opened(n, 1, NOBODY).is_locked
      /\ AVAILABLE.status = "AVAILABLE"
  <2>1. /\ \A n : /\ Opened(n, 1, NOBODY).identifier = n /\ Opened(n, 1, NOBODY).status = "UNAVAILABLE"
        /\ AVAILABLE.status = "AVAILABLE"
    BY DEF Opened, AVAILABLE
  <2>2. \A n : Opened(n, 1, NOBODY).is_locked = (1 > 0)
    BY Zenon DEF Opened
  <2>3. 1 > 0
    OBVIOUS
  <2>4. \A n : Opened(n, 1, NOBODY).is_locked
    BY <2>2, <2>3, Zenon
  <2>. QED  BY <2>1, <2>4
<1>8. /\ \A i \in Slots : Busy(sem_spaces, i) <=> i =< 2
      /\ \A i \in Slots : Busy(sem_spaces, i) => sem_spaces[i].identifier \in {SHELL_PID, IDLE_PID}
      /\ \A i \in Slots : Busy(sem_spaces, i) => sem_spaces[i].is_locked
  <2>1. \A i \in Slots : i \in Nat /\ i # 0
    BY KernelConstants
  <2>2. \A i \in Slots : i =< 2 <=> i \in {1, 2}
    BY <2>1
  <2>. QED  BY <1>6, <1>7, <2>2 DEF Busy
<1>9. Base
  <2>1. OneSlot(sem_spaces)
    BY <1>3 DEF Guarded
  <2>2. \A i \in Slots : Busy(sem_spaces, i) => sem_spaces[i].identifier \in SHELL_PID .. (pid - 1)
    BY <1>4, <1>8 DEF SHELL_PID, IDLE_PID
  <2>3. Prefix(sem_spaces, 2) /\ 2 \in 0 .. (pid - 1) /\ 2 # pid - 1
    BY <1>4, <1>8 DEF Prefix
  <2>4. Tabled(sem_spaces, pid)
    BY <1>3, <2>1, <2>2, <2>3 DEF Tabled
  <2>. QED  BY <1>3, <1>4, <2>4 DEF Base
<1>10. \A p \in Clients : p \in Pids /\ p \in Nat /\ ~(p < pid)
  BY <1>4, RoleFacts, KernelConstants
<1>11. \A p \in Pids : pc[p] = Entry(p) /\ rounds[p] = 0
  BY <1>1
<1>12. \A p \in Children : pc[p] = "open"
  BY <1>10, <1>11, EntryPoints DEF Children
<1>13. \A p \in Tests : pc[p] = "decreaser" /\ ~(p < pid)
  BY <1>10, <1>11, EntryPoints DEF Tests
<1>14. PcTypes
  <2>1. SHELL_PID \in Pids /\ IDLE_PID \in Pids
    BY ConstantFacts
  <2>2. pc[SHELL_PID] = "command" /\ pc[IDLE_PID] = "open"
    BY <1>11, <2>1 DEF Entry, IsTest, SHELL_PID, IDLE_PID
  <2>3. pc \in [Pids -> {"command", "read"} \cup InTest \cup InChild]
    BY <1>1 DEF Entry, InTest, InChild
  <2>4. aux \in [Pids -> Int] /\ rounds \in [Pids -> Nat] /\ global \in Int
    BY <1>1
  <2>. QED  BY <1>11, <1>12, <1>13, <2>2, <2>3, <2>4 DEF PcTypes, InTest, InChild
<1>15. Standing
  BY <1>5 DEF Standing, Placed
<1>16. Ends
  <2>1. \A n : ~Unlocked(sem_spaces, n)
    BY <1>8 DEF Unlocked
  <2>2. \A p \in Children : ~(p < pid)
    BY <1>10 DEF Children
  <2>. QED  BY <1>12, <2>1, <2>2 DEF Ends, Ending, Inside
<1>17. Mutex
  BY <1>12 DEF Mutex, Has, Inside
<1>18. Course
  BY <1>13 DEF Course
<1>. QED  BY <1>1, <1>9, <1>14, <1>15, <1>16, <1>17, <1>18 DEF TestInv

\* Every step of the test, its shell and the processor.
LEMMA TestSteps ==
  ASSUME TableHasRoom
  PROVE  TestInv /\ [TestNext]_tvars => TestInv'
<1>. SUFFICES ASSUME TestInv, [TestNext]_tvars PROVE TestInv'
  OBVIOUS
<1>1. CASE ShellCommand \/ ShellRead \/ Key
  BY <1>1, CommandStep, ShellReadStep, KeyStep
<1>2. CASE CreateDecreaser \/ CreateIncreaser \/ WaitDecreaser \/ WaitIncreaser \/ PrintFinal
  BY <1>2, DecreaserStep, IncreaserStep, WaitStepOfTest, PrintStep
<1>3. CASE OpenSem \/ WaitSem \/ EndLoop \/ Load \/ SlowYield \/ Store \/ PostSem
  BY <1>3, OpenSemStep, WaitSemStep, EndLoopStep, LoadStep, SlowYieldStep, StoreStep, PostSemStep
<1>4. CASE Return \/ Interrupt
  BY <1>4, ReturnStep, InterruptStep
<1>5. CASE UNCHANGED tvars
  <2>1. UNCHANGED kvars /\ pc' = pc /\ Local /\ Base /\ PcTypes
    BY <1>5 DEF tvars, Local, TestInv
  <2>2. Kept(0, 0) /\ at' = at /\ foreground_pid' = foreground_pid
    BY <2>1, StillKept
  <2>3. PcTypes'
    BY <2>1, <2>2, PcStays DEF Kept
  <2>. QED  BY <2>1, <2>2, <2>3, QuietStep
<1>. QED  BY <1>1, <1>2, <1>3, <1>4, <1>5 DEF TestNext

\* The value test_sync prints is the one it expects, "Expected value: 0"
\* (test_sync.c): however often the test runs, whatever its number of rounds and
\* wherever the timer strikes, if the table has a slot for every process and one
\* for the semaphore.  The decreaser and the increaser exclude each other, no
\* store is lost to the yield before it, and waitpid returns when a child is done.
THEOREM ExpectedIsZero ==
  ASSUME TableHasRoom
  PROVE  TestSpec => []ExpectedValueIsZero
<1>1. TestInv => ExpectedValueIsZero
  BY DEF TestInv, ExpectedValueIsZero
<1>. QED  BY <1>1, TestStarts, TestSteps, PTL DEF TestSpec

=============================================================================
