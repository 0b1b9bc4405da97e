-------------------------- MODULE SchedulerProofs --------------------------
(***************************************************************************)
(* Proofs about Scheduler for every number of processes, every quantum and  *)
(* every set of calls: types and who runs first, then the queues, with the  *)
(* invariant that ties queues, priority fields, statuses, the removal and   *)
(* the creation queue together, and what follows from it for the dead, the  *)
(* idle process and the choice of the next process.                         *)
(***************************************************************************)
EXTENDS Scheduler, WellFoundedInduction, TLAPS

-----------------------------------------------------------------------------
(* Circular lists. *)

\* A nonempty set of naturals has a smallest member.
LEMMA SmallestExists ==
  ASSUME NEW S, S \subseteq Nat, S # {}
  PROVE  Smallest(S) \in S /\ \A j \in S : Smallest(S) =< j
<1>. DEFINE R == OpToRel(<, Nat)
<1>1. \A j, i \in Nat : j < i => <<j, i>> \in R
  BY DEF OpToRel
<1>2. IsWellFoundedOn(R, Nat)
  BY NatLessThanWellFounded
<1>. HIDE DEF R
<1>3. \E i \in S : \A j \in S : ~(<<j, i>> \in R)
  BY <1>2, WFMin, Zenon
<1>4. PICK i \in S : \A j \in S : ~(<<j, i>> \in R)
  BY <1>3
<1>5. ASSUME NEW j \in S PROVE i =< j
  <2>1. i \in Nat /\ j \in Nat /\ ~(<<j, i>> \in R)
    BY <1>4, <1>5
  <2>2. ~(j < i)
    BY <1>1, <2>1
  <2>. QED  BY <2>1, <2>2
<1>. QED  BY <1>5 DEF Smallest

\* A nonempty bounded set of naturals has a largest member.
LEMMA LargestExists ==
  ASSUME NEW S, S \subseteq Nat, S # {}, NEW b \in Nat, \A n \in S : n =< b
  PROVE  Largest(S) \in S /\ \A j \in S : j =< Largest(S)
<1>. DEFINE D == {d \in Nat : b - d \in S}
<1>1. PICK n \in S : TRUE
  OBVIOUS
<1>2. b - n \in D
  BY <1>1
<1>3. Smallest(D) \in D /\ \A d \in D : Smallest(D) =< d
  <2>1. D \subseteq Nat /\ D # {}
    BY <1>2
  <2>. HIDE DEF D
  <2>. QED  BY <2>1, SmallestExists
<1>. DEFINE m == b - Smallest(D)
<1>4. m \in S
  BY <1>3
<1>5. ASSUME NEW k \in S PROVE k =< m
  <2>1. b - k \in D
    BY <1>5
  <2>2. Smallest(D) =< b - k /\ Smallest(D) \in Nat
    BY <1>3, <2>1
  <2>. QED  BY <2>2, <1>5
<1>. QED  BY <1>4, <1>5 DEF Largest

\* insert_node adds one member.
LEMMA MembersAppend ==
  ASSUME NEW T, NEW s \in Seq(T), NEW x \in T
  PROVE  Members(Append(s, x)) = Members(s) \cup {x}
<1>1. Len(Append(s, x)) = Len(s) + 1 /\ Len(s) \in Nat
  OBVIOUS
<1>2. \A n \in 1 .. Len(s) : Append(s, x)[n] = s[n]
  OBVIOUS
<1>3. Append(s, x)[Len(s) + 1] = x
  OBVIOUS
<1>. HIDE DEF Members
<1>4. ASSUME NEW y PROVE y \in Members(Append(s, x)) <=> y \in Members(s) \cup {x}
  BY <1>1, <1>2, <1>3 DEF Members
<1>. QED  BY <1>4

\* One round of the loop behind Without.
Keep(q, S, f, n) == IF n = 0 THEN <<>>
                    ELSE IF q[n] \in S THEN f[n - 1] ELSE Append(f[n - 1], q[n])

\* The recursion that defines Without has a solution.
LEMMA KeptExists ==
  ASSUME NEW T, NEW q \in Seq(T), NEW S
  PROVE  \E f : f = [n \in 0 .. Len(q) |-> Keep(q, S, f, n)]
<1>. DEFINE P(m) == \E f \in [0 .. m -> Seq(T)] :
                       \A n \in 0 .. m : f[n] = Keep(q, S, f, n)
            Bad == {m \in 0 .. Len(q) : ~P(m)}
<1>1. Len(q) \in Nat /\ \A n \in 1 .. Len(q) : q[n] \in T
  OBVIOUS
<1>2. Bad = {}
  <2>1. SUFFICES ASSUME Bad # {} PROVE FALSE
    OBVIOUS
  <2>. DEFINE m == Smallest(Bad)
  <2>2. m \in Bad /\ \A j \in Bad : m =< j
    <3>1. Bad \subseteq Nat
      BY <1>1
    <3>. HIDE DEF Bad
    <3>. QED  BY <2>1, <3>1, SmallestExists
  <2>3. m \in 0 .. Len(q) /\ ~P(m)
    BY <2>2
  <2>. HIDE DEF m
  <2>4. m # 0
    <3>. DEFINE z == [n \in 0 .. 0 |-> <<>>]
    <3>1. z \in [0 .. 0 -> Seq(T)] /\ z[0] = <<>>
      OBVIOUS
    <3>2. \A n \in 0 .. 0 : z[n] = Keep(q, S, z, n)
      BY <3>1 DEF Keep
    <3>. HIDE DEF z
    <3>3. P(0)
      BY <3>1, <3>2
    <3>. QED  BY <2>3, <3>3
  <2>5. P(m - 1)
    <3>1. m - 1 \in 0 .. Len(q) /\ ~(m =< m - 1)
      BY <1>1, <2>3, <2>4
    <3>2. m - 1 \notin Bad
      BY <2>2, <3>1
    <3>. QED  BY <3>1, <3>2
  <2>6. PICK f \in [0 .. (m - 1) -> Seq(T)] : \A n \in 0 .. (m - 1) : f[n] = Keep(q, S, f, n)
    BY <2>5
  <2>. DEFINE g == [n \in 0 .. m |-> IF n = m THEN Keep(q, S, f, m) ELSE f[n]]
  <2>7. m \in Nat /\ m >= 1 /\ q[m] \in T /\ f[m - 1] \in Seq(T)
    BY <1>1, <2>3, <2>4, <2>6
  <2>8. Keep(q, S, f, m) \in Seq(T)
    BY <2>7 DEF Keep
  <2>9. g \in [0 .. m -> Seq(T)]
    BY <2>6, <2>7, <2>8
  <2>10. ASSUME NEW n \in 0 .. m PROVE g[n] = Keep(q, S, g, n)
    <3>1. CASE n = m
      <4>1. g[m] = Keep(q, S, f, m) /\ g[m - 1] = f[m - 1]
        BY <2>7
      <4>. QED  BY <2>7, <3>1, <4>1 DEF Keep
    <3>2. CASE n # m
      <4>1. n \in 0 .. (m - 1) /\ g[n] = f[n] /\ (n # 0 => g[n - 1] = f[n - 1])
        BY <2>7, <3>2
      <4>2. f[n] = Keep(q, S, f, n)
        BY <2>6, <4>1
      <4>. HIDE DEF g
      <4>. QED  BY <4>1, <4>2 DEF Keep
    <3>. QED  BY <3>1, <3>2
  <2>11. P(m)
    <3>. HIDE DEF g
    <3>. QED  BY <2>9, <2>10
  <2>. QED  BY <2>3, <2>11
<1>3. P(Len(q))
  <2>1. Len(q) \in 0 .. Len(q)
    BY <1>1
  <2>2. Len(q) \notin Bad
    <3>. HIDE DEF Bad
    <3>. QED  BY <1>2
  <2>. HIDE DEF P
  <2>. QED  BY <2>1, <2>2
<1>4. PICK f \in [0 .. Len(q) -> Seq(T)] : \A n \in 0 .. Len(q) : f[n] = Keep(q, S, f, n)
  BY <1>3
<1>5. f = [n \in 0 .. Len(q) |-> Keep(q, S, f, n)]
  BY <1>4
<1>. QED  BY <1>5

\* Removing nodes from a list leaves a list of the same kind of data, and takes
\* out exactly the data that was to go.
LEMMA WithoutMembers ==
  ASSUME NEW T, NEW q \in Seq(T), NEW S
  PROVE  /\ Without(q, S) \in Seq(T)
         /\ Members(Without(q, S)) = Members(q) \ S
<1>. DEFINE f == CHOOSE f : f = [n \in 0 .. Len(q) |-> Keep(q, S, f, n)]
            Sub(n) == {q[i] : i \in 1 .. n}
            Ok(n) == f[n] \in Seq(T) /\ Members(f[n]) = Sub(n) \ S
            Bad == {n \in 0 .. Len(q) : ~Ok(n)}
<1>1. Len(q) \in Nat /\ \A n \in 1 .. Len(q) : q[n] \in T
  OBVIOUS
<1>2. f = [n \in 0 .. Len(q) |-> Keep(q, S, f, n)]
  BY KeptExists
<1>3. Without(q, S) = f[Len(q)]
  BY DEF Without, Keep
<1>. HIDE DEF f
<1>4. \A n \in 0 .. Len(q) : f[n] = Keep(q, S, f, n)
  BY <1>2
<1>5. Bad = {}
  <2>1. SUFFICES ASSUME Bad # {} PROVE FALSE
    OBVIOUS
  <2>. DEFINE m == Smallest(Bad)
  <2>2. m \in Bad /\ \A j \in Bad : m =< j
    <3>1. Bad \subseteq Nat
      BY <1>1
    <3>. HIDE DEF Bad
    <3>. QED  BY <2>1, <3>1, SmallestExists
  <2>3. m \in 0 .. Len(q) /\ ~Ok(m)
    BY <2>2
  <2>. HIDE DEF m
  <2>4. m # 0
    <3>1. f[0] = <<>>
      BY <1>1, <1>4 DEF Keep
    <3>2. Ok(0)
      BY <3>1 DEF Members
    <3>. QED  BY <2>3, <3>2
  <2>5. m - 1 \in 0 .. Len(q) /\ m \in 1 .. Len(q) /\ ~(m =< m - 1)
    BY <1>1, <2>3, <2>4
  <2>6. Ok(m - 1)
    <3>1. m - 1 \notin Bad
      BY <2>2, <2>5
    <3>. QED  BY <2>5, <3>1
  <2>7. Sub(m) = Sub(m - 1) \cup {q[m]}
    BY <2>5
  <2>8. f[m] = IF q[m] \in S THEN f[m - 1] ELSE Append(f[m - 1], q[m])
    BY <1>4, <2>3, <2>4 DEF Keep
  <2>9. q[m] \in T
    BY <1>1, <2>5
  <2>10. Members(Append(f[m - 1], q[m])) = Members(f[m - 1]) \cup {q[m]}
    BY <2>6, <2>9, MembersAppend
  <2>. HIDE DEF Sub
  <2>11. CASE q[m] \in S
    BY <2>3, <2>6, <2>7, <2>8, <2>11
  <2>12. CASE q[m] \notin S
    BY <2>3, <2>6, <2>7, <2>8, <2>9, <2>10, <2>12
  <2>. QED  BY <2>11, <2>12
<1>6. Ok(Len(q))
  <2>1. Len(q) \in 0 .. Len(q)
    BY <1>1
  <2>2. Len(q) \notin Bad
    <3>. HIDE DEF Bad
    <3>. QED  BY <1>5
  <2>. HIDE DEF Ok
  <2>. QED  BY <2>1, <2>2
<1>. QED  BY <1>3, <1>6 DEF Members

\* Moving current_node keeps a list of the same kind of data.
LEMMA AdvanceType ==
  ASSUME NEW T, NEW q \in Seq(T), NEW n \in 1 .. Len(q)
  PROVE  Advance(q, n) \in Seq(T)
<1>1. SubSeq(q, n + 1, Len(q)) \in Seq(T) /\ SubSeq(q, 1, n) \in Seq(T)
  OBVIOUS
<1>. QED  BY <1>1 DEF Advance

-----------------------------------------------------------------------------
(* The functions of basicScheduler.c keep the scheduler's globals well typed *)
(* and never leave a second process RUNNING.                                 *)

SchedState == [status : [Pids -> Statuses],
               priority : [Pids -> Priorities],
               ticks : [Pids -> 0 .. quantum],
               queue : [Priorities -> Seq(Pids)],
               waiting_for_remove : Seq(Pids),
               creation_queue : Seq(Pids),
               current_pcb : Pids,
               pid : 4 .. (MaxPid + 1),
               fault : BOOLEAN]

OneRuns(k) == \A p \in Pids : k.status[p] = RUNNING => p = k.current_pcb

\* The two together, as a property of the record the operators work on.
Good(k) == k \in SchedState /\ OneRuns(k)

\* What the proofs use of the constants.
LEMMA ConstantFacts ==
  /\ quantum \in Nat /\ quantum > 0 /\ MaxPid \in Nat
  /\ SHELL_PID \in Pids /\ IDLE_PID \in Pids
  /\ Targets \subseteq Pids /\ NiceLevels \subseteq Priorities
  /\ IDLE_PRIORITY \in Priorities /\ LOW_PRIORITY \in Priorities /\ HIGH_PRIORITY \in Priorities
  /\ (LOW_PRIORITY .. HIGH_PRIORITY) \subseteq Priorities
  BY SchedulerAssumption DEF SHELL_PID, IDLE_PID, Pids, Priorities, IDLE_PRIORITY, LOW_PRIORITY,
     HIGH_PRIORITY

\* The statuses, and which of them differ.
LEMMA StatusFacts ==
  /\ BLOCKED \in Statuses /\ READY \in Statuses /\ RUNNING \in Statuses
  /\ DEAD \in Statuses /\ NONE \in Statuses
  /\ READY # RUNNING /\ BLOCKED # RUNNING /\ DEAD # RUNNING /\ DEAD # READY /\ NONE # RUNNING
  BY DEF Statuses, BLOCKED, READY, RUNNING, DEAD, NONE

\* change_process_priority only moves a process between queues.
LEMMA ChangePriorityGood ==
  ASSUME NEW k, Good(k), NEW p \in Pids, NEW prio \in Priorities
  PROVE  /\ Good(change_process_priority(k, p, prio))
         /\ change_process_priority(k, p, prio).status = k.status
         /\ change_process_priority(k, p, prio).current_pcb = k.current_pcb
<1>. DEFINE r == change_process_priority(k, p, prio)
            q1 == [k.queue EXCEPT ![k.priority[p]] = Without(@, {p})]
            q2 == [q1 EXCEPT ![prio] = Append(@, p)]
<1>1. CASE ~get_pcb_entry(k, p)
  BY <1>1 DEF change_process_priority
<1>2. CASE get_pcb_entry(k, p)
  <2>1. k.queue \in [Priorities -> Seq(Pids)] /\ k.priority \in [Pids -> Priorities]
    BY DEF Good, SchedState
  <2>2. Without(k.queue[k.priority[p]], {p}) \in Seq(Pids)
    BY <2>1, WithoutMembers
  <2>3. q1 \in [Priorities -> Seq(Pids)]
    BY <2>1, <2>2
  <2>4. q2 \in [Priorities -> Seq(Pids)]
    <3>. HIDE DEF q1
    <3>1. Append(q1[prio], p) \in Seq(Pids)
      BY <2>3
    <3>. QED  BY <2>3, <3>1
  <2>5. r = [k EXCEPT !.queue = q2, !.priority[p] = prio]
    BY <1>2 DEF change_process_priority
  <2>. HIDE DEF q1, q2, r
  <2>6. r \in SchedState /\ r.status = k.status /\ r.current_pcb = k.current_pcb
    BY <2>1, <2>4, <2>5 DEF Good, SchedState
  <2>. QED  BY <2>6 DEF Good, OneRuns, r
<1>. QED  BY <1>1, <1>2

\* Removing the killed processes touches no status.
LEMMA KillQueueGood ==
  ASSUME NEW k, Good(k)
  PROVE  /\ Good(kill_processes_in_removal_queue(k))
         /\ kill_processes_in_removal_queue(k).status = k.status
         /\ kill_processes_in_removal_queue(k).current_pcb = k.current_pcb
<1>. DEFINE r == kill_processes_in_removal_queue(k)
            killed(i) == {p \in Members(k.waiting_for_remove) : k.priority[p] = i}
            q == [i \in Priorities |-> Without(k.queue[i], killed(i))]
<1>1. ASSUME NEW i \in Priorities PROVE Without(k.queue[i], killed(i)) \in Seq(Pids)
  <2>1. k.queue[i] \in Seq(Pids)
    BY DEF Good, SchedState
  <2>. HIDE DEF killed
  <2>. QED  BY <2>1, WithoutMembers
<1>2. q \in [Priorities -> Seq(Pids)]
  BY <1>1
<1>3. r = [k EXCEPT !.queue = q, !.waiting_for_remove = <<>>]
  BY DEF kill_processes_in_removal_queue
<1>. DEFINE e == <<>>
<1>4. e \in Seq(Pids) /\ r = [k EXCEPT !.queue = q, !.waiting_for_remove = e]
  BY <1>3
<1>. HIDE DEF q, r, e
<1>5. r \in SchedState /\ r.status = k.status /\ r.current_pcb = k.current_pcb
  BY <1>2, <1>4 DEF Good, SchedState
<1>. QED  BY <1>5 DEF Good, OneRuns, r

\* Nor does queueing the created ones.
LEMMA CreateQueueGood ==
  ASSUME NEW k, Good(k)
  PROVE  /\ Good(create_processes_in_creation_queue(k))
         /\ create_processes_in_creation_queue(k).status = k.status
         /\ create_processes_in_creation_queue(k).current_pcb = k.current_pcb
<1>. DEFINE r == create_processes_in_creation_queue(k)
            new == Members(k.creation_queue)
            pr == [p \in Pids |-> IF p \in new THEN HIGH_PRIORITY ELSE k.priority[p]]
            ti == [p \in Pids |-> IF p \in new THEN 0 ELSE k.ticks[p]]
            qh == k.queue[HIGH_PRIORITY] \o k.creation_queue
<1>1. pr \in [Pids -> Priorities]
  BY ConstantFacts DEF Good, SchedState
<1>2. ti \in [Pids -> 0 .. quantum]
  BY ConstantFacts DEF Good, SchedState
<1>. DEFINE q == [k.queue EXCEPT ![HIGH_PRIORITY] = qh]
            e == <<>>
<1>3. q \in [Priorities -> Seq(Pids)] /\ e \in Seq(Pids)
  BY ConstantFacts DEF Good, SchedState
<1>4. r = [k EXCEPT !.priority = pr, !.ticks = ti, !.queue = q, !.creation_queue = e]
  BY DEF create_processes_in_creation_queue, Good, SchedState
<1>. HIDE DEF pr, ti, q, e, r
<1>5. r \in SchedState /\ r.status = k.status /\ r.current_pcb = k.current_pcb
  BY <1>1, <1>2, <1>3, <1>4 DEF Good, SchedState
<1>. QED  BY <1>5 DEF Good, OneRuns, r

\* The current process, stopped: READY with a full quantum.
Stopped(k, c) == [k EXCEPT !.status[c] = READY, !.ticks[c] = 0]

\* A process put back to READY with no ticks.
LEMMA StoppedGood ==
  ASSUME NEW k, Good(k), NEW c \in Pids
  PROVE  /\ Good(Stopped(k, c))
         /\ Stopped(k, c).status = [k.status EXCEPT ![c] = READY]
         /\ Stopped(k, c).current_pcb = k.current_pcb
<1>. DEFINE r == Stopped(k, c)
            st == [k.status EXCEPT ![c] = READY]
            ti == [k.ticks EXCEPT ![c] = 0]
<1>1. st \in [Pids -> Statuses] /\ ti \in [Pids -> 0 .. quantum]
  <2>1. k.status \in [Pids -> Statuses] /\ k.ticks \in [Pids -> 0 .. quantum]
    BY DEF Good, SchedState
  <2>2. 0 \in 0 .. quantum
    BY ConstantFacts
  <2>3. ti \in [Pids -> 0 .. quantum]
    BY <2>1, <2>2
  <2>. QED  BY <2>1, <2>3, StatusFacts
<1>2. \A p \in Pids : st[p] = RUNNING => k.status[p] = RUNNING
  BY StatusFacts DEF Good, SchedState
<1>3. r = [k EXCEPT !.status = st, !.ticks = ti]
  BY DEF Stopped, Good, SchedState
<1>. HIDE DEF st, ti, r
<1>4. r \in SchedState /\ r.status = st /\ r.current_pcb = k.current_pcb
  BY <1>1, <1>3 DEF Good, SchedState
<1>5. OneRuns(r)
  BY <1>2, <1>4 DEF Good, OneRuns
<1>. QED  BY <1>4, <1>5 DEF Good, r, st

\* stop_current_process leaves nobody RUNNING.
LEMMA StopCurrentGood ==
  ASSUME NEW k, Good(k)
  PROVE  /\ Good(stop_current_process(k))
         /\ stop_current_process(k).current_pcb = k.current_pcb
<1>. DEFINE c == k.current_pcb
<1>1. c \in Pids /\ k.priority[c] \in Priorities /\ k.ticks[c] \in 0 .. quantum
  BY DEF Good, SchedState
<1>2. CASE k.ticks[c] >= quantum /\ k.priority[c] > LOW_PRIORITY
  <2>1. k.priority[c] - 1 \in Priorities
    BY <1>1, <1>2 DEF Priorities, LOW_PRIORITY, IDLE_PRIORITY, HIGH_PRIORITY
  <2>. QED  BY <1>1, <1>2, <2>1, ChangePriorityGood DEF stop_current_process
<1>3. CASE k.ticks[c] >= quantum /\ ~(k.priority[c] > LOW_PRIORITY)
  BY <1>3 DEF stop_current_process
<1>4. CASE ~(k.ticks[c] >= quantum)
  <2>1. Good(Stopped(k, c))
    BY <1>1, StoppedGood
  <2>. QED  BY <1>4, <2>1 DEF stop_current_process, Stopped
<1>. QED  BY <1>2, <1>3, <1>4

\* A nonempty set of levels has a smallest and a largest member, and so has the
\* set of positions at one of them.
LEMMA ScanFinds ==
  ASSUME NEW k, k \in SchedState, NEW s, Levels(k, s) # {}
  PROVE  /\ Largest(Levels(k, s)) \in Levels(k, s)
         /\ \A i \in Levels(k, s) : i =< Largest(Levels(k, s))
         /\ Smallest(Levels(k, s)) \in Levels(k, s)
         /\ Levels(k, s) \subseteq Priorities
         /\ \A i \in Levels(k, s) : /\ Smallest(At(k, i, s)) \in At(k, i, s)
                                    /\ Largest(At(k, i, s)) \in At(k, i, s)
<1>1. Levels(k, s) \subseteq Nat /\ Levels(k, s) \subseteq Priorities /\ \A i \in Levels(k, s) : i =< 3
  BY ConstantFacts DEF Levels, LOW_PRIORITY, HIGH_PRIORITY
<1>2. /\ Largest(Levels(k, s)) \in Levels(k, s) /\ Smallest(Levels(k, s)) \in Levels(k, s)
      /\ \A i \in Levels(k, s) : i =< Largest(Levels(k, s))
  <2>. DEFINE L == Levels(k, s)
  <2>1. L \subseteq Nat /\ L # {} /\ \A i \in L : i =< 3
    BY <1>1
  <2>. HIDE DEF L
  <2>2. Smallest(L) \in L
    BY <2>1, SmallestExists
  <2>3. Largest(L) \in L /\ \A i \in L : i =< Largest(L)
    BY <2>1, LargestExists
  <2>. QED  BY <2>2, <2>3 DEF L
<1>3. ASSUME NEW i \in Levels(k, s)
      PROVE  /\ Smallest(At(k, i, s)) \in At(k, i, s)
             /\ Largest(At(k, i, s)) \in At(k, i, s)
  <2>. DEFINE A == At(k, i, s)
  <2>1. k.queue[i] \in Seq(Pids)
    BY <1>1, <1>3 DEF SchedState
  <2>2. /\ A # {} /\ A \subseteq Nat /\ Len(k.queue[i]) \in Nat
        /\ \A n \in A : n =< Len(k.queue[i])
    <3>1. Len(k.queue[i]) \in Nat
      BY <2>1
    <3>2. A # {} /\ A \subseteq 1 .. Len(k.queue[i])
      BY <1>3 DEF Levels, At
    <3>. QED  BY <3>1, <3>2
  <2>. HIDE DEF A
  <2>3. Smallest(A) \in A
    BY <2>2, SmallestExists
  <2>4. Largest(A) \in A
    BY <2>2, LargestExists
  <2>. QED  BY <2>3, <2>4 DEF A
<1>. QED  BY <1>1, <1>2, <1>3

\* Unless there is nothing to run, find_next_process returns a process; when it
\* is one of the scanned queues', it is READY or already RUNNING.
LEMMA FindNextFinds ==
  ASSUME NEW k, Good(k), ~NothingToRun(k)
  PROVE  /\ find_next_process(k) \in Pids
         /\ Levels(k, READY) # {} => /\ NextReady(k).level \in Priorities
                                     /\ NextReady(k).at \in 1 .. Len(k.queue[NextReady(k).level])
                                     /\ k.status[find_next_process(k)] = READY
<1>1. k \in SchedState
  BY DEF Good
<1>2. CASE Levels(k, READY) # {}
  <2>. DEFINE i == Largest(Levels(k, READY))
              n == Smallest(At(k, i, READY))
  <2>1. i \in Levels(k, READY) /\ i \in Priorities /\ n \in At(k, i, READY)
    BY <1>1, <1>2, ScanFinds
  <2>2. NextReady(k).level = i /\ NextReady(k).at = n /\ find_next_process(k) = k.queue[i][n]
    BY <1>2 DEF NextReady, find_next_process
  <2>. HIDE DEF i, n
  <2>3. n \in 1 .. Len(k.queue[i]) /\ k.queue[i][n] \in Pids /\ k.status[k.queue[i][n]] = READY
    BY <2>1 DEF At
  <2>. QED  BY <2>1, <2>2, <2>3
<1>3. CASE Levels(k, READY) = {} /\ Levels(k, RUNNING) # {}
  <2>. DEFINE i == Smallest(Levels(k, RUNNING))
              n == Largest(At(k, i, RUNNING))
  <2>1. i \in Levels(k, RUNNING) /\ n \in At(k, i, RUNNING)
    BY <1>1, <1>3, ScanFinds
  <2>2. find_next_process(k) = k.queue[i][n]
    BY <1>3 DEF KeepRunning, find_next_process
  <2>. HIDE DEF i, n
  <2>. QED  BY <1>3, <2>1, <2>2 DEF At
<1>4. CASE Levels(k, READY) = {} /\ Levels(k, RUNNING) = {}
  <2>1. k.queue[IDLE_PRIORITY] # <<>> /\ k.queue[IDLE_PRIORITY] \in Seq(Pids)
    BY <1>1, <1>4, ConstantFacts DEF NothingToRun, SchedState
  <2>2. Head(k.queue[IDLE_PRIORITY]) \in Pids
    BY <2>1
  <2>. QED  BY <1>4, <2>2 DEF find_next_process
<1>. QED  BY <1>2, <1>3, <1>4

\* Handing over the processor leaves the new process, and only it, RUNNING.
LEMMA DispatchGood ==
  ASSUME NEW k, Good(k), ~NothingToRun(k)
  PROVE  /\ Good(Dispatch(k, find_next_process(k)))
         /\ \A x \in Pids : x # find_next_process(k) /\ k.status[x] # RUNNING
              => Dispatch(k, find_next_process(k)).status[x] = k.status[x]
<1>. DEFINE c == k.current_pcb
            p == find_next_process(k)
            stopped == IF k.status[c] = RUNNING \/ (c = p /\ k.status[c] = READY)
                         THEN Stopped(k, c) ELSE k
            rotated == IF Levels(k, READY) # {}
                         THEN [k.queue EXCEPT ![NextReady(k).level] = Advance(@, NextReady(k).at)]
                         ELSE k.queue
            r == Dispatch(k, p)
<1>1. c \in Pids /\ p \in Pids
  BY FindNextFinds DEF Good, SchedState
<1>2. /\ Good(stopped)
      /\ \A x \in Pids : x # p => stopped.status[x] # RUNNING
      /\ \A x \in Pids : x # p /\ k.status[x] # RUNNING => stopped.status[x] = k.status[x]
  <2>1. CASE k.status[c] = RUNNING \/ (c = p /\ k.status[c] = READY)
    <3>1. /\ stopped = Stopped(k, c)
          /\ Good(stopped)
          /\ stopped.status = [k.status EXCEPT ![c] = READY]
      BY <1>1, <2>1, StoppedGood
    <3>. HIDE DEF stopped, p
    <3>2. \A x \in Pids : stopped.status[x] = IF x = c THEN READY ELSE k.status[x]
      BY <3>1 DEF Good, SchedState
    <3>. QED  BY <2>1, <3>1, <3>2, StatusFacts DEF Good, OneRuns
  <2>2. CASE ~(k.status[c] = RUNNING \/ (c = p /\ k.status[c] = READY))
    <3>1. stopped = k
      BY <2>2
    <3>. HIDE DEF stopped
    <3>. QED  BY <2>2, <3>1 DEF Good, OneRuns
  <2>. QED  BY <2>1, <2>2
<1>3. rotated \in [Priorities -> Seq(Pids)]
  <2>1. k.queue \in [Priorities -> Seq(Pids)]
    BY DEF Good, SchedState
  <2>2. CASE Levels(k, READY) # {}
    <3>. DEFINE i == NextReady(k).level
                n == NextReady(k).at
    <3>1. i \in Priorities /\ n \in 1 .. Len(k.queue[i])
      BY <2>2, FindNextFinds
    <3>2. Advance(k.queue[i], n) \in Seq(Pids)
      BY <2>1, <3>1, AdvanceType
    <3>. HIDE DEF i, n
    <3>3. [k.queue EXCEPT ![i] = Advance(@, n)] \in [Priorities -> Seq(Pids)]
      BY <2>1, <3>1, <3>2
    <3>. QED  BY <2>2, <3>3 DEF i, n
  <2>. QED  BY <2>1, <2>2
<1>4. r = [stopped EXCEPT !.status[p] = RUNNING, !.queue = rotated, !.current_pcb = p]
  BY DEF Dispatch, Stopped
<1>. HIDE DEF stopped, rotated, r, p
<1>. DEFINE st == [stopped.status EXCEPT ![p] = RUNNING]
<1>5. /\ st \in [Pids -> Statuses]
      /\ \A x \in Pids : st[x] = IF x = p THEN RUNNING ELSE stopped.status[x]
  BY <1>1, <1>2, StatusFacts DEF Good, SchedState
<1>6. r = [stopped EXCEPT !.status = st, !.queue = rotated, !.current_pcb = p]
  BY <1>2, <1>4 DEF Good, SchedState
<1>. HIDE DEF st
<1>7. r \in SchedState /\ r.status = st /\ r.current_pcb = p
  BY <1>1, <1>2, <1>3, <1>5, <1>6 DEF Good, SchedState
<1>8. OneRuns(r)
  BY <1>2, <1>5, <1>7 DEF OneRuns
<1>9. \A x \in Pids : x # p /\ k.status[x] # RUNNING => r.status[x] = k.status[x]
  BY <1>2, <1>5, <1>7
<1>. QED  BY <1>7, <1>8, <1>9 DEF Good, r, p

\* A step that changes only statuses, and makes no further process RUNNING.
LEMMA StatusChangeGood ==
  ASSUME NEW k, Good(k), NEW st \in [Pids -> Statuses],
         \A p \in Pids : st[p] = RUNNING => k.status[p] = RUNNING
  PROVE  Good([k EXCEPT !.status = st])
<1>. DEFINE r == [k EXCEPT !.status = st]
<1>1. r \in SchedState /\ r.status = st /\ r.current_pcb = k.current_pcb
  BY DEF Good, SchedState
<1>. HIDE DEF r
<1>2. OneRuns(r)
  BY <1>1 DEF Good, OneRuns
<1>. QED  BY <1>1, <1>2 DEF Good, r

\* The whole context switch.
LEMMA SwitchGood ==
  ASSUME NEW k, Good(k)
  PROVE  Good(switch_context(k))
<1>. DEFINE k1 == stop_current_process(
                    create_processes_in_creation_queue(
                      kill_processes_in_removal_queue(k)))
<1>1. Good(k1)
  BY KillQueueGood, CreateQueueGood, StopCurrentGood
<1>2. switch_context(k) = IF NothingToRun(k1) THEN [k1 EXCEPT !.fault = TRUE]
                          ELSE Dispatch(k1, find_next_process(k1))
  BY DEF switch_context
<1>. HIDE DEF k1
<1>3. CASE NothingToRun(k1)
  <2>. DEFINE r == [k1 EXCEPT !.fault = TRUE]
  <2>1. r \in SchedState /\ r.status = k1.status /\ r.current_pcb = k1.current_pcb
    BY <1>1 DEF Good, SchedState
  <2>. HIDE DEF r
  <2>2. Good(r)
    BY <1>1, <2>1 DEF Good, OneRuns
  <2>. QED  BY <1>2, <1>3, <2>2 DEF r
<1>4. CASE ~NothingToRun(k1)
  BY <1>1, <1>2, <1>4, DispatchGood
<1>. QED  BY <1>3, <1>4

\* Counting a tick, up to the quantum, only changes ticks.
LEMMA TicksGood ==
  ASSUME NEW k, Good(k), NEW t \in 0 .. quantum
  PROVE  Good([k EXCEPT !.ticks[k.current_pcb] = t])
<1>. DEFINE ti == [k.ticks EXCEPT ![k.current_pcb] = t]
            r == [k EXCEPT !.ticks = ti]
<1>1. ti \in [Pids -> 0 .. quantum]
  BY DEF Good, SchedState
<1>2. [k EXCEPT !.ticks[k.current_pcb] = t] = r
  BY DEF Good, SchedState
<1>. HIDE DEF ti
<1>3. r \in SchedState /\ r.status = k.status /\ r.current_pcb = k.current_pcb
  BY <1>1 DEF Good, SchedState
<1>. HIDE DEF r
<1>. QED  BY <1>2, <1>3 DEF Good, OneRuns

\* finish_current_tick.
LEMMA FinishTickGood ==
  ASSUME NEW k, Good(k)
  PROVE  Good(finish_current_tick(k))
<1>1. quantum \in 0 .. quantum
  BY ConstantFacts
<1>2. Good([k EXCEPT !.ticks[k.current_pcb] = quantum])
  BY <1>1, TicksGood
<1>. QED  BY <1>2, SwitchGood DEF finish_current_tick

\* The timer interrupt, with or without a switch.
LEMMA TimerGood ==
  ASSUME NEW k, Good(k)
  PROVE  Good(timer_interrupt(k))
<1>1. CASE k.ticks[k.current_pcb] < quantum
  <2>. DEFINE t == k.ticks[k.current_pcb] + 1
  <2>1. t \in 0 .. quantum
    <3>1. k.ticks[k.current_pcb] \in 0 .. quantum
      BY DEF Good, SchedState
    <3>. QED  BY <1>1, <3>1, ConstantFacts
  <2>2. timer_interrupt(k) = [k EXCEPT !.ticks[k.current_pcb] = t]
    BY <1>1 DEF timer_interrupt
  <2>. HIDE DEF t
  <2>. QED  BY <2>1, <2>2, TicksGood
<1>2. CASE ~(k.ticks[k.current_pcb] < quantum)
  BY <1>2, SwitchGood DEF timer_interrupt
<1>. QED  BY <1>1, <1>2

\* os_revive_process.
LEMMA ReviveGood ==
  ASSUME NEW k, Good(k), NEW W
  PROVE  Good(os_revive_process(k, W))
<1>. DEFINE st == [p \in Pids |-> IF /\ p \in W /\ get_pcb_entry(k, p)
                                     /\ k.status[p] \in {BLOCKED, RUNNING}
                                  THEN READY ELSE k.status[p]]
<1>1. st \in [Pids -> Statuses]
  BY StatusFacts DEF Good, SchedState
<1>2. \A p \in Pids : st[p] = RUNNING => k.status[p] = RUNNING
  BY StatusFacts
<1>. HIDE DEF st
<1>3. Good([k EXCEPT !.status = st])
  BY <1>1, <1>2, StatusChangeGood
<1>. QED  BY <1>3 DEF os_revive_process, st

\* One process gets a status other than RUNNING.
LEMMA SetStatusGood ==
  ASSUME NEW k, Good(k), NEW p \in Pids, NEW s \in Statuses, s # RUNNING
  PROVE  Good([k EXCEPT !.status[p] = s])
<1>. DEFINE st == [k.status EXCEPT ![p] = s]
<1>1. st \in [Pids -> Statuses]
  BY DEF Good, SchedState
<1>2. \A x \in Pids : st[x] = RUNNING => k.status[x] = RUNNING
  BY DEF Good, SchedState
<1>3. [k EXCEPT !.status[p] = s] = [k EXCEPT !.status = st]
  BY DEF Good, SchedState
<1>. HIDE DEF st
<1>. QED  BY <1>1, <1>2, <1>3, StatusChangeGood

\* A process that blocks itself.
LEMMA BlockCurrentGood ==
  ASSUME NEW k, Good(k)
  PROVE  Good(block_current(k))
<1>1. k.current_pcb \in Pids
  BY DEF Good, SchedState
<1>. QED  BY <1>1, SetStatusGood, FinishTickGood, StatusFacts DEF block_current

\* block_process of any process.
LEMMA BlockGood ==
  ASSUME NEW k, Good(k), NEW p \in Pids
  PROVE  Good(block_process(k, p))
<1>. DEFINE b == [k EXCEPT !.status[p] = BLOCKED]
            u == [k EXCEPT !.status[p] = READY]
<1>1. Good(b) /\ Good(u)
  BY SetStatusGood, StatusFacts
<1>. HIDE DEF b, u
<1>2. Good(finish_current_tick(b))
  BY <1>1, FinishTickGood
<1>3. block_process(k, p) \in {k, b, u, finish_current_tick(b)}
  BY DEF block_process, b, u
<1>. QED  BY <1>1, <1>2, <1>3

\* Entering the removal queue.
LEMMA RemovalQueueGood ==
  ASSUME NEW k, Good(k), NEW p \in Pids
  PROVE  Good(add_process_to_removal_queue(k, p))
<1>. DEFINE w == Append(k.waiting_for_remove, p)
            r == [k EXCEPT !.waiting_for_remove = w]
<1>1. w \in Seq(Pids)
  BY DEF Good, SchedState
<1>2. add_process_to_removal_queue(k, p) = r
  BY DEF add_process_to_removal_queue
<1>. HIDE DEF w
<1>3. r \in SchedState /\ r.status = k.status /\ r.current_pcb = k.current_pcb
  BY <1>1 DEF Good, SchedState
<1>. HIDE DEF r
<1>. QED  BY <1>2, <1>3 DEF Good, OneRuns

\* A kill, by another process or by the process itself.
LEMMA KillGood ==
  ASSUME NEW k, Good(k), NEW p \in Pids, NEW W
  PROVE  Good(kill(k, p, W))
<1>. DEFINE dead == [os_revive_process(k, W) EXCEPT !.status[p] = DEAD]
            gone == add_process_to_removal_queue(dead, p)
<1>1. Good(dead)
  BY ReviveGood, SetStatusGood, StatusFacts
<1>. HIDE DEF dead
<1>2. Good(gone)
  BY <1>1, RemovalQueueGood
<1>. HIDE DEF gone
<1>3. Good(finish_current_tick(gone))
  BY <1>2, FinishTickGood
<1>4. kill(k, p, W) \in {k, gone, finish_current_tick(gone)}
  BY DEF kill, gone, dead
<1>. QED  BY <1>2, <1>3, <1>4

\* create_process: the next pid becomes READY.
LEMMA CreateProcessGood ==
  ASSUME NEW k, Good(k), k.pid =< MaxPid
  PROVE  Good(create_process(k)) /\ k.pid \in Pids
<1>. DEFINE st == [k.status EXCEPT ![k.pid] = READY]
            n == k.pid + 1
            r == [k EXCEPT !.status = st, !.pid = n]
<1>1. k.pid \in Pids /\ n \in 4 .. (MaxPid + 1)
  <2>1. k.pid \in 4 .. (MaxPid + 1)
    BY DEF Good, SchedState
  <2>. QED  BY <2>1, SchedulerAssumption DEF Pids, SHELL_PID
<1>2. st \in [Pids -> Statuses] /\ \A x \in Pids : st[x] = RUNNING => k.status[x] = RUNNING
  BY <1>1, StatusFacts DEF Good, SchedState
<1>3. create_process(k) = r
  BY DEF create_process, Good, SchedState
<1>. HIDE DEF st, n
<1>4. r \in SchedState /\ r.status = st /\ r.current_pcb = k.current_pcb
  BY <1>1, <1>2 DEF Good, SchedState
<1>. HIDE DEF r
<1>5. OneRuns(r)
  BY <1>2, <1>4 DEF Good, OneRuns
<1>. QED  BY <1>1, <1>3, <1>4, <1>5 DEF Good

\* create_process and the insertion into a queue.
LEMMA AddNewGood ==
  ASSUME NEW k, Good(k), NEW p \in Pids
  PROVE  Good(add_new_process(k, p))
<1>. DEFINE pr == [k.priority EXCEPT ![p] = HIGH_PRIORITY]
            ti == [k.ticks EXCEPT ![p] = 0]
            q == [k.queue EXCEPT ![HIGH_PRIORITY] = Append(@, p)]
            r == [k EXCEPT !.priority = pr, !.ticks = ti, !.queue = q]
<1>1. pr \in [Pids -> Priorities] /\ ti \in [Pids -> 0 .. quantum]
  <2>1. k.priority \in [Pids -> Priorities] /\ k.ticks \in [Pids -> 0 .. quantum]
    BY DEF Good, SchedState
  <2>2. 0 \in 0 .. quantum /\ HIGH_PRIORITY \in Priorities
    BY ConstantFacts
  <2>. QED  BY <2>1, <2>2
<1>2. q \in [Priorities -> Seq(Pids)]
  <2>1. Append(k.queue[HIGH_PRIORITY], p) \in Seq(Pids)
    BY ConstantFacts DEF Good, SchedState
  <2>. QED  BY <2>1, ConstantFacts DEF Good, SchedState
<1>3. add_new_process(k, p) = r
  BY DEF add_new_process, Good, SchedState
<1>. HIDE DEF pr, ti, q
<1>4. r \in SchedState /\ r.status = k.status /\ r.current_pcb = k.current_pcb
  BY <1>1, <1>2 DEF Good, SchedState
<1>. HIDE DEF r
<1>. QED  BY <1>3, <1>4 DEF Good, OneRuns

\* create_process and the entry in the creation queue.
LEMMA CreateLaterGood ==
  ASSUME NEW k, Good(k), k.pid =< MaxPid
  PROVE  Good(add_process_to_creation_queue(k))
<1>. DEFINE c == create_process(k)
            w == Append(c.creation_queue, k.pid)
            r == [c EXCEPT !.creation_queue = w]
<1>1. Good(c) /\ k.pid \in Pids
  BY CreateProcessGood
<1>. HIDE DEF c
<1>2. w \in Seq(Pids)
  BY <1>1 DEF Good, SchedState
<1>3. add_process_to_creation_queue(k) = r
  BY DEF add_process_to_creation_queue, c
<1>. HIDE DEF w
<1>4. r \in SchedState /\ r.status = c.status /\ r.current_pcb = c.current_pcb
  BY <1>1, <1>2 DEF Good, SchedState
<1>. HIDE DEF r
<1>. QED  BY <1>1, <1>3, <1>4 DEF Good, OneRuns

-----------------------------------------------------------------------------
SchedInv == SchedTypeOK /\ OnlyCurrentRuns

\* The invariant says that the record of the globals is Good.
LEMMA InvIsGood == SchedInv <=> Good(Sched)
  BY DEF SchedInv, Good, Sched, SchedState, OneRuns, SchedTypeOK, OnlyCurrentRuns

\* A step to a Good record establishes the invariant.
LEMMA GoodStep ==
  ASSUME NEW k, Good(k), SchedBecomes(k)
  PROVE  SchedInv'
<1>1. /\ status' \in [Pids -> Statuses] /\ priority' \in [Pids -> Priorities]
      /\ ticks' \in [Pids -> 0 .. quantum] /\ queue' \in [Priorities -> Seq(Pids)]
      /\ waiting_for_remove' \in Seq(Pids) /\ creation_queue' \in Seq(Pids)
      /\ current_pcb' \in Pids /\ pid' \in 4 .. (MaxPid + 1) /\ fault' \in BOOLEAN
  BY DEF Good, SchedState, SchedBecomes
<1>2. \A p \in Pids : status'[p] = RUNNING => p = current_pcb'
  BY DEF Good, OneRuns, SchedBecomes
<1>. QED  BY <1>1, <1>2 DEF SchedInv, SchedTypeOK, OnlyCurrentRuns

\* main leaves a well typed state with the shell RUNNING.
LEMMA InitIsGood == SchedInit => SchedInv
<1>1. SUFFICES ASSUME SchedInit PROVE SchedInv
  OBVIOUS
<1>2. status \in [Pids -> Statuses] /\ \A p \in Pids : status[p] = RUNNING => p = current_pcb
  BY <1>1, StatusFacts DEF SchedInit
<1>3. priority \in [Pids -> Priorities] /\ ticks \in [Pids -> 0 .. quantum]
  BY <1>1, ConstantFacts DEF SchedInit
<1>4. queue \in [Priorities -> Seq(Pids)]
  <2>1. <<SHELL_PID>> \in Seq(Pids) /\ <<IDLE_PID>> \in Seq(Pids) /\ <<>> \in Seq(Pids)
    BY ConstantFacts
  <2>. QED  BY <1>1, <2>1 DEF SchedInit
<1>5. /\ waiting_for_remove \in Seq(Pids) /\ creation_queue \in Seq(Pids)
      /\ current_pcb \in Pids /\ fault \in BOOLEAN
  <2>1. <<>> \in Seq(Pids) /\ SHELL_PID \in Pids
    BY ConstantFacts
  <2>2. /\ waiting_for_remove = <<>> /\ creation_queue = <<>>
        /\ current_pcb = SHELL_PID /\ fault = FALSE
    BY <1>1 DEF SchedInit
  <2>. QED  BY <2>1, <2>2
<1>6. pid \in 4 .. (MaxPid + 1)
  <2>1. pid = 4
    BY <1>1 DEF SchedInit, IDLE_PID
  <2>2. 4 \in 4 .. (MaxPid + 1)
    BY SchedulerAssumption
  <2>. QED  BY <2>1, <2>2
<1>. QED  BY <1>2, <1>3, <1>4, <1>5, <1>6 DEF SchedInv, SchedTypeOK, OnlyCurrentRuns

\* Every reachable state of the scheduler is well typed and has at most one
\* RUNNING process, the current one.
THEOREM SchedulerInvariant == SchedSpec => []SchedInv
<1>1. SchedInit => SchedInv
  BY InitIsGood
<1>2. SchedInv /\ [SchedNext]_svars => SchedInv'
  <2>1. SUFFICES ASSUME SchedInv, [SchedNext]_svars PROVE SchedInv'
    OBVIOUS
  <2>2. Good(Sched) /\ current_pcb \in Pids /\ Sched.pid = pid /\ Sched.current_pcb = current_pcb
    BY <2>1, InvIsGood DEF Good, SchedState, Sched
  <2>. HIDE DEF Sched
  <2>3. CASE Timer
    BY <2>2, <2>3, TimerGood, GoodStep DEF Timer
  <2>4. CASE Yield
    BY <2>2, <2>4, FinishTickGood, GoodStep DEF Yield
  <2>5. CASE BlockCurrent
    BY <2>2, <2>5, BlockCurrentGood, GoodStep DEF BlockCurrent
  <2>6. CASE Create
    <3>1. Good(create_and_insert_process(Sched))
      BY <2>2, <2>6, CreateProcessGood, AddNewGood DEF Create, create_and_insert_process
    <3>. QED  BY <2>6, <3>1, GoodStep DEF Create
  <2>7. CASE CreateLater
    BY <2>2, <2>7, CreateLaterGood, GoodStep DEF CreateLater
  <2>8. CASE MarkDead
    <3>1. Good([Sched EXCEPT !.status[current_pcb] = DEAD])
      BY <2>2, SetStatusGood, StatusFacts
    <3>. QED  BY <2>8, <3>1, GoodStep DEF MarkDead
  <2>9. CASE QueueDead
    BY <2>2, <2>9, RemovalQueueGood, GoodStep DEF QueueDead
  <2>10. CASE YieldDead
    BY <2>2, <2>10, FinishTickGood, GoodStep DEF YieldDead
  <2>11. ASSUME NEW p \in Targets, Block(p) PROVE SchedInv'
    BY <2>2, <2>11, BlockGood, GoodStep, ConstantFacts DEF Block
  <2>12. ASSUME NEW p \in Targets, NEW prio \in NiceLevels, Nice(p, prio) PROVE SchedInv'
    BY <2>2, <2>12, ChangePriorityGood, GoodStep, ConstantFacts DEF Nice
  <2>13. ASSUME NEW W, Wake(W) PROVE SchedInv'
    BY <2>2, <2>13, ReviveGood, GoodStep DEF Wake
  <2>14. ASSUME NEW p \in Targets, NEW W, Kill(p, W) PROVE SchedInv'
    BY <2>2, <2>14, KillGood, GoodStep, ConstantFacts DEF Kill
  <2>15. CASE UNCHANGED svars
    BY <2>1, <2>15 DEF svars, SchedInv, SchedTypeOK, OnlyCurrentRuns
  <2>. QED  BY <2>1, <2>3, <2>4, <2>5, <2>6, <2>7, <2>8, <2>9, <2>10, <2>11, <2>12, <2>13, <2>14, <2>15
            DEF SchedNext, Calls, Nices, Halted
<1>. QED  BY <1>1, <1>2, PTL DEF SchedSpec

\* Type correctness of the scheduler's globals.
THEOREM SchedulerTypeCorrect == SchedSpec => []SchedTypeOK
  BY SchedulerInvariant, PTL DEF SchedInv

\* Whatever the processes call and whenever the timer strikes, only the process
\* the processor executes has status RUNNING.
THEOREM OneProcessRuns == SchedSpec => []OnlyCurrentRuns
  BY SchedulerInvariant, PTL DEF SchedInv

-----------------------------------------------------------------------------
(* Circular lists in which no data occurs twice. *)

Once(s) == \A m, n \in 1 .. Len(s) : s[m] = s[n] => m = n

\* insert_node of data that is not in the list yet.
LEMMA AppendOnce ==
  ASSUME NEW T, NEW s \in Seq(T), NEW x \in T, Once(s), x \notin Members(s)
  PROVE  Once(Append(s, x))
<1>1. Len(Append(s, x)) = Len(s) + 1 /\ Len(s) \in Nat
  OBVIOUS
<1>2. \A n \in 1 .. Len(s) : Append(s, x)[n] = s[n] /\ s[n] # x
  BY DEF Members
<1>3. Append(s, x)[Len(s) + 1] = x
  OBVIOUS
<1>. QED  BY <1>1, <1>2, <1>3 DEF Once

\* A list put behind another.
LEMMA ConcatFacts ==
  ASSUME NEW T, NEW s \in Seq(T), NEW t \in Seq(T)
  PROVE  /\ s \o t \in Seq(T)
         /\ Members(s \o t) = Members(s) \cup Members(t)
         /\ Once(s) /\ Once(t) /\ Members(s) \cap Members(t) = {} => Once(s \o t)
<1>1. s \o t \in Seq(T) /\ Len(s \o t) = Len(s) + Len(t) /\ Len(s) \in Nat /\ Len(t) \in Nat
  OBVIOUS
<1>2. \A n \in 1 .. Len(s) : (s \o t)[n] = s[n]
  OBVIOUS
<1>3. \A n \in 1 .. Len(t) : (s \o t)[Len(s) + n] = t[n]
  OBVIOUS
<1>. DEFINE u == s \o t
<1>. HIDE DEF u
<1>4. ASSUME NEW n \in 1 .. Len(u), n > Len(s)
      PROVE  n - Len(s) \in 1 .. Len(t) /\ u[n] = t[n - Len(s)]
  <2>1. n - Len(s) \in 1 .. Len(t) /\ n = Len(s) + (n - Len(s))
    BY <1>1, <1>4 DEF u
  <2>. QED  BY <1>3, <2>1 DEF u
<1>5. ASSUME NEW y PROVE y \in Members(u) <=> y \in Members(s) \cup Members(t)
  <2>1. ASSUME NEW n \in 1 .. Len(u), y = u[n] PROVE y \in Members(s) \cup Members(t)
    <3>1. CASE n =< Len(s)
      BY <1>1, <1>2, <2>1, <3>1 DEF Members, u
    <3>2. CASE n > Len(s)
      BY <1>4, <2>1, <3>2 DEF Members
    <3>. QED  BY <1>1, <3>1, <3>2
  <2>2. ASSUME NEW n \in 1 .. Len(s), y = s[n] PROVE y \in Members(u)
    BY <1>1, <1>2, <2>2 DEF Members, u
  <2>3. ASSUME NEW n \in 1 .. Len(t), y = t[n] PROVE y \in Members(u)
    <3>1. Len(s) + n \in 1 .. Len(u) /\ u[Len(s) + n] = y
      BY <1>1, <1>3, <2>3 DEF u
    <3>. QED  BY <3>1 DEF Members
  <2>. QED  BY <2>1, <2>2, <2>3 DEF Members
<1>6. ASSUME Once(s), Once(t), Members(s) \cap Members(t) = {} PROVE Once(u)
  <2>1. \A m \in 1 .. Len(s), n \in 1 .. Len(t) : s[m] # t[n]
    BY <1>6 DEF Members
  <2>2. SUFFICES ASSUME NEW m \in 1 .. Len(u), NEW n \in 1 .. Len(u), u[m] = u[n]
                 PROVE  m = n
    BY DEF Once
  <2>3. CASE m =< Len(s) /\ n =< Len(s)
    BY <1>1, <1>2, <1>6, <2>2, <2>3 DEF Once, u
  <2>4. CASE m > Len(s) /\ n > Len(s)
    <3>1. m - Len(s) = n - Len(s)
      BY <1>4, <1>6, <2>2, <2>4 DEF Once
    <3>. QED  BY <1>1, <3>1 DEF u
  <2>5. CASE m =< Len(s) /\ n > Len(s)
    BY <1>1, <1>2, <1>4, <2>1, <2>2, <2>5 DEF u
  <2>6. CASE m > Len(s) /\ n =< Len(s)
    BY <1>1, <1>2, <1>4, <2>1, <2>2, <2>6 DEF u
  <2>. QED  BY <1>1, <2>3, <2>4, <2>5, <2>6
<1>. QED  BY <1>1, <1>5, <1>6 DEF u

\* Moving current_node moves no data in or out.
LEMMA AdvanceFacts ==
  ASSUME NEW T, NEW q \in Seq(T), NEW n \in 1 .. Len(q)
  PROVE  /\ Members(Advance(q, n)) = Members(q)
         /\ Once(q) => Once(Advance(q, n))
<1>. DEFINE s == SubSeq(q, n + 1, Len(q))
            t == SubSeq(q, 1, n)
<1>1. /\ Len(q) \in Nat
      /\ s \in Seq(T) /\ Len(s) = Len(q) - n /\ \A m \in 1 .. Len(s) : s[m] = q[n + m]
      /\ t \in Seq(T) /\ Len(t) = n /\ \A m \in 1 .. Len(t) : t[m] = q[m]
  OBVIOUS
<1>2. Advance(q, n) = s \o t
  BY DEF Advance
<1>. HIDE DEF s, t
<1>2a. /\ \A m \in 1 .. Len(s) : n + m \in 1 .. Len(q)
       /\ \A m \in 1 .. Len(t) : m \in 1 .. Len(q)
  BY <1>1
<1>3. /\ Members(s \o t) = Members(s) \cup Members(t)
      /\ Once(s) /\ Once(t) /\ Members(s) \cap Members(t) = {} => Once(s \o t)
  BY <1>1, ConcatFacts
<1>4. ASSUME NEW y PROVE y \in Members(s) \cup Members(t) <=> y \in Members(q)
  <2>1. ASSUME NEW m \in 1 .. Len(q), y = q[m] PROVE y \in Members(s) \cup Members(t)
    <3>1. CASE m =< n
      BY <1>1, <2>1, <3>1 DEF Members
    <3>2. CASE m > n
      <4>1. m - n \in 1 .. Len(s) /\ s[m - n] = q[m]
        BY <1>1, <3>2
      <4>. QED  BY <2>1, <4>1 DEF Members
    <3>. QED  BY <3>1, <3>2
  <2>2. y \in Members(s) \cup Members(t) => y \in Members(q)
    BY <1>1, <1>2a DEF Members
  <2>. QED  BY <2>1, <2>2 DEF Members
<1>5. ASSUME Once(q) PROVE Once(s) /\ Once(t) /\ Members(s) \cap Members(t) = {}
  <2>1. Once(s)
    <3>1. SUFFICES ASSUME NEW a \in 1 .. Len(s), NEW b \in 1 .. Len(s), s[a] = s[b] PROVE a = b
      BY DEF Once
    <3>2. n + a \in 1 .. Len(q) /\ n + b \in 1 .. Len(q) /\ q[n + a] = q[n + b]
      BY <1>1, <3>1
    <3>3. n + a = n + b
      BY <1>5, <3>2 DEF Once
    <3>. QED  BY <1>1, <3>3
  <2>2. Once(t)
    BY <1>1, <1>2a, <1>5 DEF Once
  <2>3. ASSUME NEW a \in 1 .. Len(s), NEW b \in 1 .. Len(t) PROVE s[a] # t[b]
    <3>1. n + a \in 1 .. Len(q) /\ b \in 1 .. Len(q) /\ n + a # b
      BY <1>1
    <3>. QED  BY <1>1, <1>5, <3>1 DEF Once
  <2>. QED  BY <2>1, <2>2, <2>3 DEF Members
<1>. QED  BY <1>2, <1>3, <1>4, <1>5

\* Removing nodes leaves no data twice, and leaves the current node where it is
\* unless it is removed itself.
LEMMA WithoutFacts ==
  ASSUME NEW T, NEW q \in Seq(T), NEW S, Once(q)
  PROVE  /\ Once(Without(q, S))
         /\ q # <<>> /\ Head(q) \notin S
              => Without(q, S) # <<>> /\ Head(Without(q, S)) = Head(q)
<1>. DEFINE f == CHOOSE f : f = [n \in 0 .. Len(q) |-> Keep(q, S, f, n)]
            Sub(n) == {q[i] : i \in 1 .. n}
            Ok(n) == /\ f[n] \in Seq(T) /\ Members(f[n]) \subseteq Sub(n)
                     /\ Once(f[n])
                     /\ n > 0 /\ q[1] \notin S => f[n] # <<>> /\ f[n][1] = q[1]
            Bad == {n \in 0 .. Len(q) : ~Ok(n)}
<1>1. Len(q) \in Nat /\ \A n \in 1 .. Len(q) : q[n] \in T
  OBVIOUS
<1>2. f = [n \in 0 .. Len(q) |-> Keep(q, S, f, n)]
  BY KeptExists
<1>3. Without(q, S) = f[Len(q)]
  BY DEF Without, Keep
<1>. HIDE DEF f
<1>4. \A n \in 0 .. Len(q) : f[n] = Keep(q, S, f, n)
  BY <1>2
<1>5. Bad = {}
  <2>1. SUFFICES ASSUME Bad # {} PROVE FALSE
    OBVIOUS
  <2>. DEFINE m == Smallest(Bad)
  <2>2. m \in Bad /\ \A j \in Bad : m =< j
    <3>1. Bad \subseteq Nat
      BY <1>1
    <3>. HIDE DEF Bad
    <3>. QED  BY <2>1, <3>1, SmallestExists
  <2>3. m \in 0 .. Len(q) /\ ~Ok(m)
    BY <2>2
  <2>. HIDE DEF m
  <2>4. m # 0
    <3>1. f[0] = <<>>
      BY <1>1, <1>4 DEF Keep
    <3>2. Ok(0)
      BY <3>1 DEF Members, Once
    <3>. QED  BY <2>3, <3>2
  <2>5. m - 1 \in 0 .. Len(q) /\ m \in 1 .. Len(q) /\ ~(m =< m - 1)
    BY <1>1, <2>3, <2>4
  <2>6. Ok(m - 1)
    <3>1. m - 1 \notin Bad
      BY <2>2, <2>5
    <3>. QED  BY <2>5, <3>1
  <2>7. f[m] = IF q[m] \in S THEN f[m - 1] ELSE Append(f[m - 1], q[m])
    BY <1>4, <2>3, <2>4 DEF Keep
  <2>8. q[m] \in T
    BY <1>1, <2>5
  <2>9. Sub(m) = Sub(m - 1) \cup {q[m]}
    BY <2>5
  <2>10. CASE q[m] \in S
    <3>1. f[m] = f[m - 1]
      BY <2>7, <2>10
    <3>2. m > 0 /\ q[1] \notin S => m - 1 > 0
      BY <2>5, <2>10
    <3>. HIDE DEF Sub
    <3>3. Ok(m)
      BY <2>6, <2>9, <3>1, <3>2
    <3>. QED  BY <2>3, <3>3
  <2>11. CASE q[m] \notin S
    <3>. DEFINE g == f[m - 1]
    <3>1. f[m] = Append(g, q[m])
      BY <2>7, <2>11
    <3>2. q[m] \notin Sub(m - 1)
      BY <1>1, <2>5 DEF Once
    <3>. HIDE DEF g
    <3>3. g \in Seq(T) /\ Members(g) \subseteq Sub(m - 1) /\ Once(g)
      BY <2>6 DEF g
    <3>4. f[m] \in Seq(T) /\ Members(f[m]) = Members(g) \cup {q[m]}
      BY <2>8, <3>1, <3>3, MembersAppend
    <3>5. Once(f[m])
      BY <2>8, <3>1, <3>2, <3>3, AppendOnce
    <3>6. q[1] \notin S => f[m] # <<>> /\ f[m][1] = q[1]
      <4>1. CASE m = 1
        <5>1. f[0] = <<>>
          BY <1>1, <1>4 DEF Keep
        <5>2. f[1] = Append(<<>>, q[1])
          BY <3>1, <4>1, <5>1 DEF g
        <5>. QED  BY <4>1, <5>2, <2>8
      <4>2. CASE m # 1
        <5>1. q[1] \notin S => g # <<>> /\ g[1] = q[1]
          BY <2>5, <2>6, <4>2 DEF g
        <5>2. q[1] \notin S => Len(g) >= 1
          BY <3>3, <5>1
        <5>. QED  BY <2>8, <3>1, <3>3, <5>1, <5>2
      <4>. QED  BY <4>1, <4>2
    <3>. HIDE DEF Sub
    <3>7. Ok(m)
      BY <2>9, <3>3, <3>4, <3>5, <3>6
    <3>. QED  BY <2>3, <3>7
  <2>. QED  BY <2>10, <2>11
<1>6. Ok(Len(q))
  <2>1. Len(q) \in 0 .. Len(q)
    BY <1>1
  <2>2. Len(q) \notin Bad
    <3>. HIDE DEF Bad
    <3>. QED  BY <1>5
  <2>. HIDE DEF Ok
  <2>. QED  BY <2>1, <2>2
<1>7. q # <<>> => Len(q) > 0 /\ Head(q) = q[1]
  OBVIOUS
<1>8. Without(q, S) \in Seq(T) /\ (Without(q, S) # <<>> => Head(Without(q, S)) = Without(q, S)[1])
  BY <1>3, <1>6
<1>. QED  BY <1>3, <1>6, <1>7, <1>8

-----------------------------------------------------------------------------
(* The invariant, as a property of the record the operators work on. *)

\* Every process in a queue is in the one its priority names, once, and every
\* process that may still run is in a queue unless it waits to be created.
Queued(k) ==
  /\ \A i \in Priorities : \A p \in Members(k.queue[i]) : k.priority[p] = i /\ p < k.pid
  /\ \A i \in Priorities : Once(k.queue[i])
  /\ \A p \in Pids : k.status[p] \notin {NONE, DEAD} /\ p \notin Members(k.creation_queue)
                       => p \in Members(k.queue[k.priority[p]])

\* A process that waits to be created is in no queue.
Pending(k) ==
  /\ Once(k.creation_queue)
  /\ \A p \in Members(k.creation_queue) : 3 < p /\ p < k.pid /\ ~get_pcb_entry(k, p)

HandedOut(k) == \A p \in Pids : k.status[p] = NONE <=> p >= k.pid

Doomed(k) == \A p \in Members(k.waiting_for_remove) : k.status[p] = DEAD

CurrentOut(k) == k.current_pcb < k.pid /\ k.current_pcb \notin Members(k.creation_queue)

IdleLost(k) == k.status[IDLE_PID] = DEAD \/ k.priority[IDLE_PID] # IDLE_PRIORITY

Sound(k) == /\ Good(k)
            /\ Queued(k) /\ Pending(k) /\ HandedOut(k) /\ Doomed(k) /\ CurrentOut(k)
            /\ k.fault => IdleLost(k)

\* Where the idle process is as long as nobody kills or moves it.
IdleFirst(k) == /\ k.queue[IDLE_PRIORITY] # <<>> /\ Head(k.queue[IDLE_PRIORITY]) = IDLE_PID
                /\ k.status[IDLE_PID] # DEAD

\* The queues hold pids, each at most once.
LEMMA QueueTypes ==
  ASSUME NEW k, Sound(k)
  PROVE  /\ k \in SchedState
         /\ k.queue \in [Priorities -> Seq(Pids)]
         /\ \A i \in Priorities : Members(k.queue[i]) \subseteq Pids /\ Once(k.queue[i])
         /\ k.creation_queue \in Seq(Pids) /\ Members(k.creation_queue) \subseteq Pids
         /\ k.waiting_for_remove \in Seq(Pids) /\ Members(k.waiting_for_remove) \subseteq Pids
         /\ k.current_pcb \in Pids /\ k.pid \in Nat /\ k.pid >= 4 /\ k.pid =< MaxPid + 1
         /\ k.priority \in [Pids -> Priorities] /\ k.status \in [Pids -> Statuses]
<1>1. k \in SchedState
  BY DEF Sound, Good
<1>2. /\ k.queue \in [Priorities -> Seq(Pids)] /\ k.creation_queue \in Seq(Pids)
      /\ k.waiting_for_remove \in Seq(Pids) /\ k.current_pcb \in Pids
      /\ k.pid \in 4 .. (MaxPid + 1)
      /\ k.priority \in [Pids -> Priorities] /\ k.status \in [Pids -> Statuses]
  BY <1>1 DEF SchedState
<1>3. \A s \in Seq(Pids) : Members(s) \subseteq Pids
  BY DEF Members
<1>4. \A i \in Priorities : Once(k.queue[i])
  BY DEF Sound, Queued
<1>5. k.pid \in Nat /\ k.pid >= 4 /\ k.pid =< MaxPid + 1
  BY <1>2, ConstantFacts
<1>. QED  BY <1>1, <1>2, <1>3, <1>4, <1>5

\* A process in a queue is in the one of its priority, and waits for no creation.
LEMMA EntryFacts ==
  ASSUME NEW k, Sound(k), NEW p \in Pids
  PROVE  /\ get_pcb_entry(k, p) <=> p \in Members(k.queue[k.priority[p]])
         /\ get_pcb_entry(k, p) => p \notin Members(k.creation_queue) /\ p < k.pid
         /\ k.status[p] \notin {NONE, DEAD} /\ p \notin Members(k.creation_queue)
              => get_pcb_entry(k, p)
<1>1. k.priority[p] \in Priorities
  BY QueueTypes
<1>. QED  BY <1>1 DEF Sound, Queued, Pending, get_pcb_entry

-----------------------------------------------------------------------------
(* What the functions do to the queues. *)

\* change_process_priority moves the entry together with the field.
LEMMA ChangePrioritySound ==
  ASSUME NEW k, Sound(k), NEW p \in Pids, NEW prio \in Priorities, ~k.fault
  PROVE  LET r == change_process_priority(k, p, prio)
         IN  /\ Sound(r)
             /\ IdleFirst(k) /\ p # IDLE_PID => IdleFirst(r)
             /\ r.status = k.status /\ r.current_pcb = k.current_pcb /\ r.ticks = k.ticks
             /\ r.pid = k.pid /\ r.fault = k.fault /\ r.creation_queue = k.creation_queue
<1>. DEFINE r == change_process_priority(k, p, prio)
            old == k.priority[p]
            q1 == [k.queue EXCEPT ![old] = Without(@, {p})]
            q2 == [q1 EXCEPT ![prio] = Append(@, p)]
            pr == [k.priority EXCEPT ![p] = prio]
<1>1. CASE ~get_pcb_entry(k, p)
  BY <1>1 DEF change_process_priority
<1>2. CASE get_pcb_entry(k, p)
  <2>1. /\ k \in SchedState /\ k.queue \in [Priorities -> Seq(Pids)]
        /\ k.priority \in [Pids -> Priorities] /\ old \in Priorities
        /\ \A i \in Priorities : Members(k.queue[i]) \subseteq Pids /\ Once(k.queue[i])
    BY QueueTypes
  <2>2. /\ p \in Members(k.queue[old]) /\ \A i \in Priorities : i # old => p \notin Members(k.queue[i])
        /\ p \notin Members(k.creation_queue) /\ p < k.pid
    BY <1>2, EntryFacts DEF Sound, Queued
  <2>3. r = [k EXCEPT !.queue = q2, !.priority = pr]
    BY <1>2, <2>1 DEF change_process_priority, SchedState
  <2>4. /\ Without(k.queue[old], {p}) \in Seq(Pids)
        /\ Members(Without(k.queue[old], {p})) = Members(k.queue[old]) \ {p}
        /\ Once(Without(k.queue[old], {p}))
        /\ k.queue[old] # <<>> /\ Head(k.queue[old]) # p
             => Without(k.queue[old], {p}) # <<>> /\ Head(Without(k.queue[old], {p})) = Head(k.queue[old])
    <3>. DEFINE w == k.queue[old]
                S == {p}
    <3>1. w \in Seq(Pids) /\ Once(w)
      BY <2>1
    <3>. HIDE DEF w, S
    <3>2. Without(w, S) \in Seq(Pids) /\ Members(Without(w, S)) = Members(w) \ S
      BY <3>1, WithoutMembers
    <3>3. /\ Once(Without(w, S))
          /\ w # <<>> /\ Head(w) \notin S => Without(w, S) # <<>> /\ Head(Without(w, S)) = Head(w)
      BY <3>1, WithoutFacts
    <3>. QED  BY <3>2, <3>3 DEF w, S
  <2>5. /\ q1 \in [Priorities -> Seq(Pids)]
        /\ \A i \in Priorities : /\ Members(q1[i]) = Members(k.queue[i]) \ {p}
                                 /\ Once(q1[i])
                                 /\ k.queue[i] # <<>> /\ Head(k.queue[i]) # p
                                      => q1[i] # <<>> /\ Head(q1[i]) = Head(k.queue[i])
    <3>1. q1 \in [Priorities -> Seq(Pids)]
      BY <2>1, <2>4
    <3>2. ASSUME NEW i \in Priorities, i # old PROVE q1[i] = k.queue[i]
      BY <2>1, <3>2
    <3>3. q1[old] = Without(k.queue[old], {p})
      BY <2>1
    <3>. HIDE DEF q1
    <3>. QED  BY <2>1, <2>2, <2>4, <3>1, <3>2, <3>3
  <2>. HIDE DEF q1
  <2>6. /\ Append(q1[prio], p) \in Seq(Pids)
        /\ Members(Append(q1[prio], p)) = Members(q1[prio]) \cup {p}
        /\ Once(Append(q1[prio], p))
        /\ q1[prio] # <<>> => Append(q1[prio], p) # <<>> /\ Head(Append(q1[prio], p)) = Head(q1[prio])
    <3>1. q1[prio] \in Seq(Pids) /\ Once(q1[prio]) /\ p \notin Members(q1[prio])
      BY <2>5
    <3>. QED  BY <3>1, MembersAppend, AppendOnce
  <2>7. /\ q2 \in [Priorities -> Seq(Pids)]
        /\ \A i \in Priorities :
             /\ Members(q2[i]) = (Members(k.queue[i]) \ {p}) \cup (IF i = prio THEN {p} ELSE {})
             /\ Once(q2[i])
             /\ k.queue[i] # <<>> /\ Head(k.queue[i]) # p
                  => q2[i] # <<>> /\ Head(q2[i]) = Head(k.queue[i])
    <3>1. q2 \in [Priorities -> Seq(Pids)]
      BY <2>5, <2>6
    <3>2. ASSUME NEW i \in Priorities, i # prio PROVE q2[i] = q1[i]
      BY <2>5, <3>2
    <3>3. q2[prio] = Append(q1[prio], p)
      BY <2>5
    <3>. HIDE DEF q2
    <3>. QED  BY <2>5, <2>6, <3>1, <3>2, <3>3
  <2>8. pr \in [Pids -> Priorities] /\ \A x \in Pids : pr[x] = IF x = p THEN prio ELSE k.priority[x]
    BY <2>1
  <2>. HIDE DEF q2, pr, r, old
  <2>9. /\ r.queue = q2 /\ r.priority = pr /\ r.status = k.status /\ r.ticks = k.ticks
        /\ r.waiting_for_remove = k.waiting_for_remove /\ r.creation_queue = k.creation_queue
        /\ r.current_pcb = k.current_pcb /\ r.pid = k.pid /\ r.fault = k.fault
    BY <2>1, <2>3 DEF SchedState
  <2>10. Good(r)
    BY ChangePriorityGood DEF Sound, r
  <2>11. Queued(r)
    <3>1. ASSUME NEW i \in Priorities, NEW x \in Members(q2[i]) PROVE pr[x] = i /\ x < k.pid
      BY <2>1, <2>2, <2>7, <2>8 DEF Sound, Queued
    <3>2. ASSUME NEW x \in Pids, k.status[x] \notin {NONE, DEAD}, x \notin Members(k.creation_queue)
          PROVE  x \in Members(q2[pr[x]])
      <4>1. CASE x = p
        BY <2>7, <2>8, <4>1
      <4>2. CASE x # p
        <5>1. pr[x] = k.priority[x] /\ k.priority[x] \in Priorities
          BY <2>1, <2>8, <4>2
        <5>2. x \in Members(k.queue[k.priority[x]])
          BY <3>2 DEF Sound, Queued
        <5>. QED  BY <2>7, <4>2, <5>1, <5>2
      <4>. QED  BY <4>1, <4>2
    <3>. QED  BY <2>7, <2>9, <3>1, <3>2 DEF Queued
  <2>12. Pending(r)
    <3>1. \A x \in Members(k.creation_queue) : \A i \in Priorities : x \notin Members(q2[i])
      BY <2>2, <2>7 DEF Sound, Pending, get_pcb_entry
    <3>. QED  BY <2>9, <3>1 DEF Sound, Pending, get_pcb_entry
  <2>13. HandedOut(r) /\ Doomed(r) /\ CurrentOut(r) /\ ~r.fault
    BY <2>9 DEF Sound, HandedOut, Doomed, CurrentOut
  <2>14. IdleFirst(k) /\ p # IDLE_PID => IdleFirst(r)
    BY <2>7, <2>9, ConstantFacts DEF IdleFirst
  <2>. QED  BY <2>9, <2>10, <2>11, <2>12, <2>13, <2>14 DEF Sound, r
<1>. QED  BY <1>1, <1>2

\* Only the dead leave their queues.
LEMMA KillQueueSound ==
  ASSUME NEW k, Sound(k), ~k.fault
  PROVE  LET r == kill_processes_in_removal_queue(k)
         IN  /\ Sound(r)
             /\ IdleFirst(k) => IdleFirst(r)
             /\ r.status = k.status /\ r.current_pcb = k.current_pcb /\ r.ticks = k.ticks
             /\ r.fault = k.fault /\ r.pid = k.pid /\ r.waiting_for_remove = <<>>
<1>. DEFINE r == kill_processes_in_removal_queue(k)
            killed(i) == {p \in Members(k.waiting_for_remove) : k.priority[p] = i}
            q == [i \in Priorities |-> Without(k.queue[i], killed(i))]
            e == <<>>
<1>1. /\ k \in SchedState /\ k.queue \in [Priorities -> Seq(Pids)]
      /\ k.priority \in [Pids -> Priorities]
      /\ \A i \in Priorities : Members(k.queue[i]) \subseteq Pids /\ Once(k.queue[i])
      /\ Members(k.waiting_for_remove) \subseteq Pids
  BY QueueTypes
<1>2. ASSUME NEW i \in Priorities
      PROVE  /\ q[i] \in Seq(Pids) /\ Members(q[i]) = Members(k.queue[i]) \ killed(i) /\ Once(q[i])
             /\ k.queue[i] # <<>> /\ Head(k.queue[i]) \notin killed(i)
                  => q[i] # <<>> /\ Head(q[i]) = Head(k.queue[i])
  <2>. DEFINE w == k.queue[i]
              S == killed(i)
  <2>1. w \in Seq(Pids) /\ Once(w) /\ q[i] = Without(w, S)
    BY <1>1
  <2>. HIDE DEF w, S, q
  <2>2. Without(w, S) \in Seq(Pids) /\ Members(Without(w, S)) = Members(w) \ S
    BY <2>1, WithoutMembers
  <2>3. /\ Once(Without(w, S))
        /\ w # <<>> /\ Head(w) \notin S => Without(w, S) # <<>> /\ Head(Without(w, S)) = Head(w)
    BY <2>1, WithoutFacts
  <2>. QED  BY <2>1, <2>2, <2>3 DEF w, S
<1>3. r = [k EXCEPT !.queue = q, !.waiting_for_remove = e]
  BY DEF kill_processes_in_removal_queue
<1>4. Good(r)
  BY KillQueueGood DEF Sound
<1>5. e = <<>> /\ Members(e) = {}
  BY DEF Members
<1>6. \A i \in Priorities : killed(i) \subseteq Members(k.waiting_for_remove)
  OBVIOUS
<1>. HIDE DEF q, r, e, killed
<1>7. /\ r.queue = q /\ r.priority = k.priority /\ r.status = k.status /\ r.ticks = k.ticks
      /\ r.waiting_for_remove = e /\ r.creation_queue = k.creation_queue
      /\ r.current_pcb = k.current_pcb /\ r.pid = k.pid /\ r.fault = k.fault
  BY <1>1, <1>3 DEF SchedState
<1>8. \A x \in Members(k.waiting_for_remove) : k.status[x] = DEAD
  BY DEF Sound, Doomed
<1>9. Queued(r)
  <2>1. \A i \in Priorities : \A x \in Members(q[i]) : k.priority[x] = i /\ x < k.pid
    BY <1>2 DEF Sound, Queued
  <2>2. ASSUME NEW x \in Pids, k.status[x] \notin {NONE, DEAD}, x \notin Members(k.creation_queue)
        PROVE  x \in Members(q[k.priority[x]])
    <3>1. k.priority[x] \in Priorities /\ x \in Members(k.queue[k.priority[x]])
      BY <1>1, <2>2 DEF Sound, Queued
    <3>2. x \notin Members(k.waiting_for_remove)
      BY <1>8, <2>2
    <3>. QED  BY <1>2, <1>6, <3>1, <3>2
  <2>. QED  BY <1>2, <1>7, <2>1, <2>2 DEF Queued
<1>10. Pending(r)
  <2>1. \A x \in Members(k.creation_queue) : \A i \in Priorities : x \notin Members(q[i])
    BY <1>2 DEF Sound, Pending, get_pcb_entry
  <2>. QED  BY <1>7, <2>1 DEF Sound, Pending, get_pcb_entry
<1>11. HandedOut(r) /\ Doomed(r) /\ CurrentOut(r) /\ ~r.fault
  BY <1>5, <1>7 DEF Sound, HandedOut, Doomed, CurrentOut
<1>12. ASSUME IdleFirst(k) PROVE IdleFirst(r)
  <2>1. IDLE_PID \notin killed(IDLE_PRIORITY)
    BY <1>6, <1>8, <1>12, ConstantFacts DEF IdleFirst
  <2>. QED  BY <1>2, <1>7, <1>12, <2>1, ConstantFacts DEF IdleFirst
<1>. QED  BY <1>4, <1>5, <1>7, <1>9, <1>10, <1>11, <1>12 DEF Sound, r

\* The created processes enter the highest queue, in which they were not.
LEMMA CreateQueueSound ==
  ASSUME NEW k, Sound(k), ~k.fault
  PROVE  LET r == create_processes_in_creation_queue(k)
         IN  /\ Sound(r)
             /\ IdleFirst(k) => IdleFirst(r)
             /\ r.status = k.status /\ r.current_pcb = k.current_pcb
             /\ r.ticks[k.current_pcb] = k.ticks[k.current_pcb]
             /\ r.fault = k.fault /\ r.waiting_for_remove = k.waiting_for_remove
             /\ r.pid = k.pid /\ r.creation_queue = <<>>
<1>. DEFINE r == create_processes_in_creation_queue(k)
            new == Members(k.creation_queue)
            pr == [p \in Pids |-> IF p \in new THEN HIGH_PRIORITY ELSE k.priority[p]]
            ti == [p \in Pids |-> IF p \in new THEN 0 ELSE k.ticks[p]]
            qh == k.queue[HIGH_PRIORITY] \o k.creation_queue
            q == [k.queue EXCEPT ![HIGH_PRIORITY] = qh]
            e == <<>>
<1>1. /\ k \in SchedState /\ k.queue \in [Priorities -> Seq(Pids)]
      /\ k.priority \in [Pids -> Priorities] /\ k.current_pcb \in Pids
      /\ \A i \in Priorities : Members(k.queue[i]) \subseteq Pids /\ Once(k.queue[i])
      /\ k.creation_queue \in Seq(Pids) /\ new \subseteq Pids
  BY QueueTypes
<1>2. r = [k EXCEPT !.priority = pr, !.ticks = ti, !.queue = q, !.creation_queue = e]
  BY <1>1 DEF create_processes_in_creation_queue, SchedState
<1>3. Good(r)
  BY CreateQueueGood DEF Sound
<1>4. e = <<>> /\ Members(e) = {} /\ Once(e)
  BY DEF Members, Once
<1>5. /\ \A x \in Pids : pr[x] = IF x \in new THEN HIGH_PRIORITY ELSE k.priority[x]
      /\ ti[k.current_pcb] = k.ticks[k.current_pcb]
  BY <1>1 DEF Sound, CurrentOut
<1>6. /\ Once(k.creation_queue)
      /\ \A x \in new : x < k.pid /\ \A i \in Priorities : x \notin Members(k.queue[i])
  BY DEF Sound, Pending, get_pcb_entry
<1>7. qh \in Seq(Pids) /\ Members(qh) = Members(k.queue[HIGH_PRIORITY]) \cup new /\ Once(qh)
  BY <1>1, <1>6, ConstantFacts, ConcatFacts
<1>8. \A i \in Priorities : q[i] = IF i = HIGH_PRIORITY THEN qh ELSE k.queue[i]
  BY <1>1
<1>. HIDE DEF q, qh, r, e, pr, ti, new
<1>9. /\ r.queue = q /\ r.priority = pr /\ r.status = k.status /\ r.ticks = ti
      /\ r.waiting_for_remove = k.waiting_for_remove /\ r.creation_queue = e
      /\ r.current_pcb = k.current_pcb /\ r.pid = k.pid /\ r.fault = k.fault
  BY <1>1, <1>2 DEF SchedState
<1>10. Queued(r)
  <2>1. ASSUME NEW i \in Priorities, NEW x \in Members(q[i]) PROVE pr[x] = i /\ x < k.pid /\ Once(q[i])
    <3>1. CASE x \in new
      BY <1>1, <1>5, <1>6, <1>7, <1>8, <2>1, <3>1
    <3>2. CASE x \notin new
      <4>1. x \in Members(k.queue[i])
        BY <1>7, <1>8, <2>1, <3>2
      <4>. QED  BY <1>1, <1>5, <1>7, <1>8, <3>2, <4>1 DEF Sound, Queued
    <3>. QED  BY <3>1, <3>2
  <2>2. \A i \in Priorities : Once(q[i])
    BY <1>1, <1>7, <1>8
  <2>3. ASSUME NEW x \in Pids, k.status[x] \notin {NONE, DEAD}
        PROVE  x \in Members(q[pr[x]])
    <3>1. CASE x \in new
      BY <1>5, <1>7, <1>8, <3>1, ConstantFacts
    <3>2. CASE x \notin new
      <4>1. pr[x] = k.priority[x] /\ k.priority[x] \in Priorities /\ x \in Members(k.queue[k.priority[x]])
        BY <1>1, <1>5, <2>3, <3>2 DEF Sound, Queued, new
      <4>. QED  BY <1>7, <1>8, <4>1
    <3>. QED  BY <3>1, <3>2
  <2>. QED  BY <1>9, <2>1, <2>2, <2>3 DEF Queued
<1>11. Pending(r) /\ CurrentOut(r)
  BY <1>4, <1>9 DEF Sound, Pending, CurrentOut
<1>12. HandedOut(r) /\ Doomed(r) /\ ~r.fault
  BY <1>9 DEF Sound, HandedOut, Doomed
<1>13. IdleFirst(k) => IdleFirst(r)
  <2>1. IDLE_PRIORITY # HIGH_PRIORITY /\ IDLE_PRIORITY \in Priorities
    BY ConstantFacts DEF IDLE_PRIORITY, HIGH_PRIORITY
  <2>. QED  BY <1>8, <1>9, <2>1 DEF IdleFirst
<1>. QED  BY <1>3, <1>4, <1>5, <1>9, <1>10, <1>11, <1>12, <1>13 DEF Sound, r

\* A process whose quantum is used up keeps its status.
LEMMA StopCurrentSound ==
  ASSUME NEW k, Sound(k), ~k.fault, k.ticks[k.current_pcb] >= quantum
  PROVE  LET r == stop_current_process(k)
         IN  /\ Sound(r)
             /\ IdleFirst(k) => IdleFirst(r)
             /\ r.status = k.status /\ r.current_pcb = k.current_pcb
             /\ r.fault = k.fault /\ r.waiting_for_remove = k.waiting_for_remove
             /\ r.pid = k.pid /\ r.creation_queue = k.creation_queue
<1>. DEFINE c == k.current_pcb
<1>1. c \in Pids /\ k.priority[c] \in Priorities /\ k.priority \in [Pids -> Priorities]
  BY QueueTypes
<1>2. CASE k.priority[c] > LOW_PRIORITY
  <2>. DEFINE d == k.priority[c] - 1
              r == change_process_priority(k, c, d)
  <2>1. d \in Priorities
    BY <1>1, <1>2 DEF Priorities, LOW_PRIORITY, IDLE_PRIORITY, HIGH_PRIORITY
  <2>2. stop_current_process(k) = r
    BY <1>2 DEF stop_current_process
  <2>. HIDE DEF d
  <2>3. /\ Sound(r)
        /\ IdleFirst(k) /\ c # IDLE_PID => IdleFirst(r)
        /\ r.status = k.status /\ r.current_pcb = k.current_pcb /\ r.fault = k.fault
        /\ r.pid = k.pid /\ r.creation_queue = k.creation_queue
    BY <1>1, <2>1, ChangePrioritySound
  <2>4. r.waiting_for_remove = k.waiting_for_remove
    BY QueueTypes DEF change_process_priority, SchedState
  <2>5. IdleFirst(k) => c # IDLE_PID
    <3>1. SUFFICES ASSUME IdleFirst(k) PROVE IDLE_PID \in Members(k.queue[IDLE_PRIORITY])
      BY <1>2, ConstantFacts DEF Sound, Queued, LOW_PRIORITY, IDLE_PRIORITY
    <3>2. k.queue[IDLE_PRIORITY] \in Seq(Pids)
      BY ConstantFacts, QueueTypes
    <3>. QED  BY <3>1, <3>2 DEF IdleFirst, Members
  <2>. HIDE DEF r
  <2>. QED  BY <2>2, <2>3, <2>4, <2>5
<1>3. CASE ~(k.priority[c] > LOW_PRIORITY)
  BY <1>3 DEF stop_current_process
<1>. QED  BY <1>2, <1>3

-----------------------------------------------------------------------------
(* The context switch: what it does to the dead and whom it chooses. *)

Buries(k, r) == \A p \in Pids : k.status[p] = DEAD => r.status[p] = DEAD

Avoids(k, r) == r.current_pcb # k.current_pcb => k.status[r.current_pcb] # DEAD

Prefers(k, r) ==
  r.current_pcb # k.current_pcb =>
    \A p \in Pids : r.status[p] = READY /\ get_pcb_entry(r, p)
                      => r.priority[p] =< r.priority[r.current_pcb] \/ p = k.current_pcb

\* The process found is in a queue; it is alive if the head of the idle queue
\* is; and no READY process is in a higher queue, unless it is the current one.
LEMMA FindNextFair ==
  ASSUME NEW k, Sound(k), ~NothingToRun(k)
  PROVE  LET p == find_next_process(k)
         IN  /\ p \in Pids /\ get_pcb_entry(k, p)
             /\ IdleFirst(k) => k.status[p] # DEAD
             /\ p = k.current_pcb \/ \A x \in Pids : k.status[x] = READY /\ get_pcb_entry(k, x)
                                                       => k.priority[x] =< k.priority[p]
<1>. DEFINE p == find_next_process(k)
<1>1. /\ k \in SchedState /\ k.queue \in [Priorities -> Seq(Pids)]
      /\ k.priority \in [Pids -> Priorities]
  BY QueueTypes
<1>2. p \in Pids
  BY FindNextFinds DEF Sound
<1>3. ASSUME NEW x \in Pids, k.status[x] = READY, get_pcb_entry(k, x)
      PROVE  k.priority[x] = IDLE_PRIORITY \/ k.priority[x] \in Levels(k, READY)
  <2>1. x \in Members(k.queue[k.priority[x]]) /\ k.priority[x] \in Priorities
    BY <1>1, <1>3, EntryFacts
  <2>2. PICK n \in 1 .. Len(k.queue[k.priority[x]]) : k.queue[k.priority[x]][n] = x
    BY <2>1 DEF Members
  <2>3. n \in At(k, k.priority[x], READY)
    BY <1>3, <2>2 DEF At
  <2>. QED  BY <2>1, <2>3 DEF Levels, Priorities, IDLE_PRIORITY, LOW_PRIORITY, HIGH_PRIORITY
<1>4. CASE Levels(k, READY) # {}
  <2>. DEFINE i == Largest(Levels(k, READY))
              n == Smallest(At(k, i, READY))
  <2>1. /\ i \in Levels(k, READY) /\ i \in Priorities /\ n \in At(k, i, READY)
        /\ \A j \in Levels(k, READY) : j =< i
    BY <1>1, <1>4, ScanFinds
  <2>2. p = k.queue[i][n]
    BY <1>4 DEF NextReady, find_next_process
  <2>. HIDE DEF i, n, p
  <2>3. p \in Members(k.queue[i]) /\ k.status[p] = READY
    BY <2>1, <2>2 DEF At, Members
  <2>4. k.priority[p] = i
    BY <2>1, <2>3 DEF Sound, Queued
  <2>5. get_pcb_entry(k, p)
    BY <2>1, <2>3 DEF get_pcb_entry
  <2>6. IDLE_PRIORITY =< i
    BY <2>1 DEF Priorities, IDLE_PRIORITY, HIGH_PRIORITY
  <2>. QED  BY <1>2, <1>3, <2>1, <2>3, <2>4, <2>5, <2>6, StatusFacts DEF p
<1>5. CASE Levels(k, READY) = {} /\ Levels(k, RUNNING) # {}
  <2>. DEFINE i == Smallest(Levels(k, RUNNING))
              n == Largest(At(k, i, RUNNING))
  <2>1. i \in Levels(k, RUNNING) /\ i \in Priorities /\ n \in At(k, i, RUNNING)
    BY <1>1, <1>5, ScanFinds
  <2>2. p = k.queue[i][n]
    BY <1>5 DEF KeepRunning, find_next_process
  <2>. HIDE DEF i, n, p
  <2>3. p \in Members(k.queue[i]) /\ k.status[p] = RUNNING
    BY <2>1, <2>2 DEF At, Members
  <2>4. p = k.current_pcb
    BY <1>2, <2>3 DEF Sound, Good, OneRuns
  <2>5. get_pcb_entry(k, p)
    BY <2>1, <2>3 DEF get_pcb_entry
  <2>. QED  BY <1>2, <2>3, <2>4, <2>5, StatusFacts DEF p
<1>6. CASE Levels(k, READY) = {} /\ Levels(k, RUNNING) = {}
  <2>1. k.queue[IDLE_PRIORITY] # <<>> /\ k.queue[IDLE_PRIORITY] \in Seq(Pids)
    BY <1>1, <1>6, ConstantFacts DEF NothingToRun
  <2>2. p = Head(k.queue[IDLE_PRIORITY])
    BY <1>6 DEF find_next_process
  <2>. HIDE DEF p
  <2>3. p \in Members(k.queue[IDLE_PRIORITY])
    BY <2>1, <2>2 DEF Members
  <2>4. get_pcb_entry(k, p) /\ k.priority[p] = IDLE_PRIORITY
    BY <2>3, ConstantFacts DEF get_pcb_entry, Sound, Queued
  <2>5. \A x \in Pids : k.status[x] = READY /\ get_pcb_entry(k, x) => k.priority[x] =< k.priority[p]
    BY <1>3, <1>6, <2>4 DEF IDLE_PRIORITY
  <2>6. IdleFirst(k) => k.status[p] # DEAD
    BY <2>2 DEF IdleFirst
  <2>. QED  BY <1>2, <2>4, <2>5, <2>6 DEF p
<1>. QED  BY <1>4, <1>5, <1>6

\* What handing over the processor changes.
LEMMA DispatchFields ==
  ASSUME NEW k, Sound(k), ~NothingToRun(k)
  PROVE  LET p == find_next_process(k)
             r == Dispatch(k, p)
         IN  /\ Good(r) /\ r.current_pcb = p
             /\ r.priority = k.priority /\ r.pid = k.pid /\ r.fault = k.fault
             /\ r.waiting_for_remove = k.waiting_for_remove /\ r.creation_queue = k.creation_queue
             /\ \A i \in Priorities : Members(r.queue[i]) = Members(k.queue[i]) /\ Once(r.queue[i])
             /\ r.queue[IDLE_PRIORITY] = k.queue[IDLE_PRIORITY]
             /\ \A x \in Pids : r.status[x] = IF x = p THEN RUNNING
                                              ELSE IF x = k.current_pcb /\ k.status[x] = RUNNING
                                                THEN READY ELSE k.status[x]
<1>. DEFINE c == k.current_pcb
            p == find_next_process(k)
            stopped == IF k.status[c] = RUNNING \/ (c = p /\ k.status[c] = READY)
                         THEN Stopped(k, c) ELSE k
            rotated == IF Levels(k, READY) # {}
                         THEN [k.queue EXCEPT ![NextReady(k).level] = Advance(@, NextReady(k).at)]
                         ELSE k.queue
            r == Dispatch(k, p)
<1>1. /\ k \in SchedState /\ k.queue \in [Priorities -> Seq(Pids)] /\ c \in Pids /\ p \in Pids
      /\ \A i \in Priorities : Once(k.queue[i])
  BY QueueTypes, FindNextFair
<1>2. Good(r)
  BY DispatchGood DEF Sound
<1>3. r = [stopped EXCEPT !.status[p] = RUNNING, !.queue = rotated, !.current_pcb = p]
  BY DEF Dispatch, Stopped
<1>4. /\ stopped \in SchedState
      /\ stopped.priority = k.priority /\ stopped.pid = k.pid /\ stopped.fault = k.fault
      /\ stopped.waiting_for_remove = k.waiting_for_remove
      /\ stopped.creation_queue = k.creation_queue
      /\ \A x \in Pids : x # p => stopped.status[x] = IF x = c /\ k.status[x] = RUNNING
                                                        THEN READY ELSE k.status[x]
  <2>1. CASE k.status[c] = RUNNING \/ (c = p /\ k.status[c] = READY)
    <3>. HIDE DEF p
    <3>1. stopped = Stopped(k, c)
      BY <2>1
    <3>2. Good(Stopped(k, c)) /\ Stopped(k, c).status = [k.status EXCEPT ![c] = READY]
      BY <1>1, StoppedGood DEF Sound
    <3>3. /\ Stopped(k, c).priority = k.priority /\ Stopped(k, c).pid = k.pid
          /\ Stopped(k, c).fault = k.fault
          /\ Stopped(k, c).waiting_for_remove = k.waiting_for_remove
          /\ Stopped(k, c).creation_queue = k.creation_queue
      BY <1>1 DEF Stopped, SchedState
    <3>4. \A x \in Pids : Stopped(k, c).status[x] = IF x = c THEN READY ELSE k.status[x]
      BY <1>1, <3>2 DEF SchedState
    <3>. HIDE DEF stopped
    <3>. QED  BY <2>1, <3>1, <3>2, <3>3, <3>4 DEF Good
  <2>2. CASE ~(k.status[c] = RUNNING \/ (c = p /\ k.status[c] = READY))
    <3>1. stopped = k
      BY <2>2
    <3>. HIDE DEF stopped, p
    <3>. QED  BY <1>1, <2>2, <3>1
  <2>. QED  BY <2>1, <2>2
<1>5. /\ \A i \in Priorities : Members(rotated[i]) = Members(k.queue[i]) /\ Once(rotated[i])
      /\ rotated[IDLE_PRIORITY] = k.queue[IDLE_PRIORITY]
  <2>1. CASE Levels(k, READY) # {}
    <3>. DEFINE i == NextReady(k).level
                n == NextReady(k).at
                w == k.queue[i]
    <3>1. i \in Priorities /\ n \in 1 .. Len(w)
      BY <2>1, FindNextFinds DEF Sound
    <3>2. i # IDLE_PRIORITY
      <4>1. i \in Levels(k, READY)
        BY <1>1, <2>1, ScanFinds DEF NextReady
      <4>. QED  BY <4>1 DEF Levels, LOW_PRIORITY, IDLE_PRIORITY, HIGH_PRIORITY
    <3>3. rotated = [k.queue EXCEPT ![i] = Advance(w, n)]
      BY <2>1, <3>1
    <3>4. w \in Seq(Pids) /\ Once(w)
      BY <1>1, <3>1
    <3>. HIDE DEF i, n, rotated
    <3>5. \A j \in Priorities : rotated[j] = IF j = i THEN Advance(w, n) ELSE k.queue[j]
      BY <1>1, <3>3
    <3>6. w = k.queue[i]
      OBVIOUS
    <3>. HIDE DEF w
    <3>7. Members(Advance(w, n)) = Members(w) /\ Once(Advance(w, n))
      BY <3>1, <3>4, AdvanceFacts
    <3>. QED  BY <1>1, <3>2, <3>5, <3>6, <3>7, ConstantFacts
  <2>2. CASE Levels(k, READY) = {}
    BY <1>1, <2>2
  <2>. QED  BY <2>1, <2>2
<1>. HIDE DEF stopped, rotated, r, p
<1>6. /\ r.queue = rotated /\ r.current_pcb = p /\ r.priority = stopped.priority
      /\ r.pid = stopped.pid /\ r.fault = stopped.fault
      /\ r.waiting_for_remove = stopped.waiting_for_remove
      /\ r.creation_queue = stopped.creation_queue
      /\ r.status = [stopped.status EXCEPT ![p] = RUNNING]
  BY <1>3, <1>4 DEF SchedState
<1>7. \A x \in Pids : r.status[x] = IF x = p THEN RUNNING ELSE stopped.status[x]
  BY <1>1, <1>4, <1>6 DEF SchedState
<1>. QED  BY <1>2, <1>4, <1>5, <1>6, <1>7 DEF r, p

\* Giving the processor to the process find_next_process found.
LEMMA DispatchSound ==
  ASSUME NEW k, Sound(k), ~NothingToRun(k), ~k.fault, k.waiting_for_remove = <<>>
  PROVE  LET r == Dispatch(k, find_next_process(k))
         IN  /\ Sound(r) /\ Prefers(k, r)
             /\ IdleFirst(k) => IdleFirst(r) /\ Buries(k, r) /\ Avoids(k, r)
<1>. DEFINE p == find_next_process(k)
            r == Dispatch(k, p)
            c == k.current_pcb
<1>1. /\ p \in Pids /\ get_pcb_entry(k, p)
      /\ IdleFirst(k) => k.status[p] # DEAD
      /\ p = c \/ \A x \in Pids : k.status[x] = READY /\ get_pcb_entry(k, x)
                                    => k.priority[x] =< k.priority[p]
  BY FindNextFair
<1>2. /\ Good(r) /\ r.current_pcb = p
      /\ r.priority = k.priority /\ r.pid = k.pid /\ r.fault = k.fault
      /\ r.waiting_for_remove = k.waiting_for_remove /\ r.creation_queue = k.creation_queue
      /\ \A i \in Priorities : Members(r.queue[i]) = Members(k.queue[i]) /\ Once(r.queue[i])
      /\ r.queue[IDLE_PRIORITY] = k.queue[IDLE_PRIORITY]
      /\ \A x \in Pids : r.status[x] = IF x = p THEN RUNNING
                                       ELSE IF x = c /\ k.status[x] = RUNNING
                                         THEN READY ELSE k.status[x]
  BY DispatchFields
<1>3. /\ p \in Members(k.queue[k.priority[p]]) /\ p \notin Members(k.creation_queue) /\ p < k.pid
      /\ k.priority \in [Pids -> Priorities] /\ k.pid \in Nat
  BY <1>1, EntryFacts, QueueTypes
<1>. HIDE DEF p, r
<1>4. \A x \in Pids : get_pcb_entry(r, x) <=> get_pcb_entry(k, x)
  BY <1>2 DEF get_pcb_entry
<1>5. Queued(r)
  <2>1. ASSUME NEW x \in Pids, r.status[x] \notin {NONE, DEAD}, x \notin Members(k.creation_queue)
        PROVE  x \in Members(r.queue[k.priority[x]])
    <3>1. k.priority[x] \in Priorities
      BY <1>3
    <3>2. CASE x = p
      BY <1>2, <1>3, <3>1, <3>2
    <3>3. CASE x # p
      <4>1. k.status[x] \notin {NONE, DEAD}
        BY <1>2, <2>1, <3>3, StatusFacts DEF RUNNING, NONE, DEAD
      <4>. QED  BY <1>2, <2>1, <3>1, <4>1 DEF Sound, Queued
    <3>. QED  BY <3>2, <3>3
  <2>. QED  BY <1>2, <2>1 DEF Sound, Queued
<1>6. Pending(r) /\ CurrentOut(r) /\ ~r.fault
  BY <1>2, <1>3, <1>4, QueueTypes DEF Sound, Pending, CurrentOut
<1>7. HandedOut(r)
  <2>1. ASSUME NEW x \in Pids PROVE r.status[x] = NONE <=> x >= k.pid
    <3>1. k.status[x] = NONE <=> x >= k.pid
      BY DEF Sound, HandedOut
    <3>2. CASE x = p
      <4>1. ~(x >= k.pid)
        BY <1>3, <3>2, ConstantFacts DEF Pids, SHELL_PID
      <4>. QED  BY <1>2, <3>2, <4>1 DEF RUNNING, NONE
    <3>3. CASE x # p
      BY <1>2, <3>1, <3>3 DEF RUNNING, READY, NONE
    <3>. QED  BY <3>2, <3>3
  <2>. QED  BY <1>2, <2>1 DEF HandedOut
<1>8. Doomed(r)
  BY <1>2 DEF Doomed, Members
<1>9. Prefers(k, r)
  <2>1. SUFFICES ASSUME p # c, NEW x \in Pids, r.status[x] = READY, get_pcb_entry(k, x), x # c
                 PROVE  k.priority[x] =< k.priority[p]
    BY <1>2, <1>4 DEF Prefers
  <2>2. k.status[x] = READY
    BY <1>2, <2>1 DEF RUNNING, READY
  <2>. QED  BY <1>1, <2>1, <2>2
<1>10. ASSUME IdleFirst(k) PROVE IdleFirst(r) /\ Buries(k, r) /\ Avoids(k, r)
  <2>1. Buries(k, r)
    BY <1>1, <1>2, <1>10 DEF Buries, RUNNING, DEAD
  <2>2. Avoids(k, r)
    BY <1>1, <1>2, <1>10 DEF Avoids
  <2>3. IdleFirst(r)
    <3>1. r.status[IDLE_PID] # DEAD
      BY <1>2, <1>10, ConstantFacts DEF IdleFirst, RUNNING, READY, DEAD
    <3>. QED  BY <1>2, <1>10, <3>1 DEF IdleFirst
  <2>. QED  BY <2>1, <2>2, <2>3
<1>. QED  BY <1>2, <1>5, <1>6, <1>7, <1>8, <1>9, <1>10 DEF Sound, r, p

\* Only a lost idle process leaves nobody to run.
LEMMA NothingToRunNeedsLostIdle ==
  ASSUME NEW k, Sound(k), NothingToRun(k)
  PROVE  IdleLost(k)
<1>1. SUFFICES ASSUME k.status[IDLE_PID] # DEAD, k.priority[IDLE_PID] = IDLE_PRIORITY
               PROVE  FALSE
  BY DEF IdleLost
<1>2. k.status[IDLE_PID] # NONE
  <2>1. ~(IDLE_PID >= k.pid)
    BY QueueTypes DEF IDLE_PID
  <2>. QED  BY <2>1, ConstantFacts DEF Sound, HandedOut
<1>3. IDLE_PID \notin Members(k.creation_queue)
  BY DEF Sound, Pending, IDLE_PID
<1>4. IDLE_PID \in Members(k.queue[IDLE_PRIORITY])
  BY <1>1, <1>2, <1>3, ConstantFacts DEF Sound, Queued
<1>. QED  BY <1>4 DEF NothingToRun, Members

\* The state in which switch_context looks for the next process.
LEMMA PreparedSound ==
  ASSUME NEW k, Sound(k), ~k.fault, k.ticks[k.current_pcb] >= quantum
  PROVE  LET d == stop_current_process(create_processes_in_creation_queue(
                    kill_processes_in_removal_queue(k)))
         IN  /\ Sound(d) /\ d.status = k.status /\ d.current_pcb = k.current_pcb
             /\ d.fault = k.fault /\ d.pid = k.pid
             /\ d.waiting_for_remove = <<>> /\ d.creation_queue = <<>>
             /\ IdleFirst(k) => IdleFirst(d)
<1>. DEFINE a == kill_processes_in_removal_queue(k)
            b == create_processes_in_creation_queue(a)
            d == stop_current_process(b)
<1>1. /\ Sound(a) /\ a.status = k.status /\ a.current_pcb = k.current_pcb
      /\ a.ticks = k.ticks /\ a.fault = k.fault /\ a.pid = k.pid /\ a.waiting_for_remove = <<>>
      /\ IdleFirst(k) => IdleFirst(a)
  BY KillQueueSound
<1>. HIDE DEF a
<1>2. /\ Sound(b) /\ b.status = a.status /\ b.current_pcb = a.current_pcb
      /\ b.ticks[a.current_pcb] = a.ticks[a.current_pcb]
      /\ b.fault = a.fault /\ b.waiting_for_remove = a.waiting_for_remove
      /\ b.pid = a.pid /\ b.creation_queue = <<>>
      /\ IdleFirst(a) => IdleFirst(b)
  BY <1>1, CreateQueueSound
<1>. HIDE DEF b
<1>3. /\ Sound(d) /\ d.status = b.status /\ d.current_pcb = b.current_pcb
      /\ d.fault = b.fault /\ d.waiting_for_remove = <<>>
      /\ d.pid = b.pid /\ d.creation_queue = <<>>
      /\ IdleFirst(b) => IdleFirst(d)
  BY <1>1, <1>2, StopCurrentSound
<1>. HIDE DEF d
<1>. QED  BY <1>1, <1>2, <1>3 DEF a, b, d

\* switch_context: removals, creations, the old process and the new one.
LEMMA SwitchSound ==
  ASSUME NEW k, Sound(k), ~k.fault, k.ticks[k.current_pcb] >= quantum
  PROVE  LET r == switch_context(k)
         IN  /\ Sound(r) /\ Prefers(k, r)
             /\ IdleFirst(k) => IdleFirst(r) /\ Buries(k, r) /\ Avoids(k, r)
<1>. DEFINE d == stop_current_process(create_processes_in_creation_queue(
                   kill_processes_in_removal_queue(k)))
            r == switch_context(k)
<1>1. /\ Sound(d) /\ d.status = k.status /\ d.current_pcb = k.current_pcb
      /\ d.fault = k.fault /\ d.waiting_for_remove = <<>>
      /\ IdleFirst(k) => IdleFirst(d)
  BY PreparedSound
<1>2. r = IF NothingToRun(d) THEN [d EXCEPT !.fault = TRUE] ELSE Dispatch(d, find_next_process(d))
  BY DEF switch_context
<1>. HIDE DEF d, r
<1>3. CASE NothingToRun(d)
  <2>1. d \in SchedState /\ r = [d EXCEPT !.fault = TRUE]
    BY <1>1, <1>2, <1>3 DEF Sound, Good
  <2>2. /\ r.status = d.status /\ r.priority = d.priority /\ r.queue = d.queue
        /\ r.waiting_for_remove = d.waiting_for_remove /\ r.creation_queue = d.creation_queue
        /\ r.current_pcb = d.current_pcb /\ r.pid = d.pid
    BY <2>1 DEF SchedState
  <2>3. Good(r)
    <3>1. r \in SchedState
      BY <2>1 DEF SchedState
    <3>. QED  BY <1>1, <2>2, <3>1 DEF Sound, Good, OneRuns
  <2>4. IdleLost(r)
    BY <1>1, <1>3, <2>2, NothingToRunNeedsLostIdle DEF IdleLost
  <2>5. /\ Queued(r) /\ Pending(r) /\ HandedOut(r) /\ Doomed(r) /\ CurrentOut(r)
        /\ IdleFirst(d) => IdleFirst(r)
    BY <1>1, <2>2 DEF Sound, Queued, Pending, HandedOut, Doomed, CurrentOut, get_pcb_entry, IdleFirst
  <2>6. Prefers(k, r) /\ Buries(k, r) /\ Avoids(k, r)
    BY <1>1, <2>2 DEF Prefers, Buries, Avoids
  <2>. QED  BY <1>1, <2>3, <2>4, <2>5, <2>6 DEF Sound, r
<1>4. CASE ~NothingToRun(d)
  <2>1. /\ Sound(r) /\ Prefers(d, r)
        /\ IdleFirst(d) => IdleFirst(r) /\ Buries(d, r) /\ Avoids(d, r)
    BY <1>1, <1>2, <1>4, DispatchSound
  <2>. QED  BY <1>1, <2>1 DEF Prefers, Buries, Avoids, r
<1>. QED  BY <1>3, <1>4

-----------------------------------------------------------------------------
(* The remaining functions. *)

\* A step that changes only statuses and ticks, hands out no pid and brings
\* nobody back from the dead.
LEMMA StatusTicksSound ==
  ASSUME NEW k, Sound(k), ~k.fault, NEW r, Good(r),
         /\ r.priority = k.priority /\ r.queue = k.queue /\ r.creation_queue = k.creation_queue
         /\ r.waiting_for_remove = k.waiting_for_remove /\ r.current_pcb = k.current_pcb
         /\ r.pid = k.pid /\ r.fault = k.fault,
         \A p \in Pids : r.status[p] = NONE <=> k.status[p] = NONE,
         Buries(k, r)
  PROVE  /\ Sound(r) /\ Prefers(k, r) /\ Avoids(k, r)
         /\ IdleFirst(k) /\ r.status[IDLE_PID] # DEAD => IdleFirst(r)
<1>1. Queued(r) /\ Pending(r) /\ HandedOut(r) /\ CurrentOut(r) /\ ~r.fault
  BY DEF Sound, Queued, Pending, HandedOut, CurrentOut, get_pcb_entry, Buries
<1>2. Doomed(r)
  BY QueueTypes DEF Sound, Doomed, Buries
<1>3. Prefers(k, r) /\ Avoids(k, r)
  BY DEF Prefers, Avoids
<1>. QED  BY <1>1, <1>2, <1>3 DEF Sound, IdleFirst

Lawful(k, r) == Sound(r) /\ Prefers(k, r)
Gentle(k, r) == IdleFirst(r) /\ Buries(k, r) /\ Avoids(k, r)

\* A change of statuses, then a context switch.
LEMMA ThenSwitch ==
  ASSUME NEW k, NEW b, NEW r, b.current_pcb = k.current_pcb, Buries(k, b), Lawful(b, r),
         r.current_pcb \in Pids
  PROVE  Lawful(k, r) /\ (Gentle(b, r) => Gentle(k, r))
  BY DEF Lawful, Gentle, Buries, Avoids, Prefers

\* Counting a tick touches no queue.
LEMMA TicksSound ==
  ASSUME NEW k, Sound(k), ~k.fault, NEW t \in 0 .. quantum
  PROVE  LET r == [k EXCEPT !.ticks[k.current_pcb] = t]
         IN  /\ Lawful(k, r) /\ ~r.fault /\ r.current_pcb = k.current_pcb /\ Buries(k, r)
             /\ r.ticks[r.current_pcb] = t
             /\ IdleFirst(k) => Gentle(k, r)
<1>. DEFINE r == [k EXCEPT !.ticks[k.current_pcb] = t]
<1>1. Good(r)
  BY TicksGood DEF Sound
<1>2. k \in SchedState /\ k.current_pcb \in Pids
  BY QueueTypes
<1>3. /\ r.status = k.status /\ r.priority = k.priority /\ r.queue = k.queue
      /\ r.creation_queue = k.creation_queue /\ r.waiting_for_remove = k.waiting_for_remove
      /\ r.current_pcb = k.current_pcb /\ r.pid = k.pid /\ r.fault = k.fault
      /\ r.ticks[k.current_pcb] = t
  BY <1>2 DEF SchedState
<1>. HIDE DEF r
<1>4. Buries(k, r)
  BY <1>3 DEF Buries
<1>5. /\ Sound(r) /\ Prefers(k, r) /\ Avoids(k, r)
      /\ IdleFirst(k) => IdleFirst(r)
  BY <1>1, <1>3, <1>4, StatusTicksSound DEF IdleFirst
<1>. QED  BY <1>3, <1>4, <1>5 DEF Lawful, Gentle, r

\* finish_current_tick.
LEMMA FinishTickSound ==
  ASSUME NEW k, Sound(k), ~k.fault
  PROVE  LET r == finish_current_tick(k)
         IN  Lawful(k, r) /\ r.current_pcb \in Pids /\ (IdleFirst(k) => Gentle(k, r))
<1>. DEFINE b == [k EXCEPT !.ticks[k.current_pcb] = quantum]
            r == switch_context(b)
<1>1. quantum \in 0 .. quantum
  BY ConstantFacts
<1>2. /\ Lawful(k, b) /\ ~b.fault /\ b.current_pcb = k.current_pcb /\ Buries(k, b)
      /\ b.ticks[b.current_pcb] = quantum /\ (IdleFirst(k) => Gentle(k, b))
  BY <1>1, TicksSound
<1>3. finish_current_tick(k) = r
  BY DEF finish_current_tick
<1>. HIDE DEF b
<1>4. b.ticks[b.current_pcb] >= quantum
  BY <1>2, ConstantFacts
<1>5. Lawful(b, r) /\ (IdleFirst(b) => Gentle(b, r))
  BY <1>2, <1>4, SwitchSound DEF Lawful, Gentle
<1>. HIDE DEF r
<1>6. r.current_pcb \in Pids
  BY <1>5, QueueTypes DEF Lawful
<1>7. Lawful(k, r) /\ (Gentle(b, r) => Gentle(k, r))
  BY <1>2, <1>5, <1>6, ThenSwitch
<1>. QED  BY <1>2, <1>3, <1>5, <1>6, <1>7 DEF Gentle

\* The timer interrupt.
LEMMA TimerSound ==
  ASSUME NEW k, Sound(k), ~k.fault
  PROVE  LET r == timer_interrupt(k)
         IN  Lawful(k, r) /\ (IdleFirst(k) => Gentle(k, r))
<1>1. k.ticks[k.current_pcb] \in 0 .. quantum /\ quantum \in Nat
  BY QueueTypes, ConstantFacts DEF SchedState
<1>2. CASE k.ticks[k.current_pcb] < quantum
  <2>. DEFINE t == k.ticks[k.current_pcb] + 1
  <2>1. t \in 0 .. quantum
    BY <1>1, <1>2
  <2>2. timer_interrupt(k) = [k EXCEPT !.ticks[k.current_pcb] = t]
    BY <1>2 DEF timer_interrupt
  <2>. HIDE DEF t
  <2>. QED  BY <2>1, <2>2, TicksSound
<1>3. CASE ~(k.ticks[k.current_pcb] < quantum)
  <2>1. k.ticks[k.current_pcb] >= quantum
    BY <1>1, <1>3
  <2>. QED  BY <1>3, <2>1, SwitchSound DEF timer_interrupt, Lawful, Gentle
<1>. QED  BY <1>2, <1>3

\* os_revive_process.
LEMMA ReviveSound ==
  ASSUME NEW k, Sound(k), ~k.fault, NEW W
  PROVE  LET r == os_revive_process(k, W)
         IN  /\ Lawful(k, r) /\ ~r.fault /\ r.current_pcb = k.current_pcb /\ Buries(k, r)
             /\ r.queue = k.queue
             /\ IdleFirst(k) => Gentle(k, r)
<1>. DEFINE r == os_revive_process(k, W)
            st == [p \in Pids |-> IF /\ p \in W /\ get_pcb_entry(k, p)
                                     /\ k.status[p] \in {BLOCKED, RUNNING}
                                  THEN READY ELSE k.status[p]]
<1>1. Good(r)
  BY ReviveGood DEF Sound
<1>2. k \in SchedState /\ r = [k EXCEPT !.status = st]
  BY QueueTypes DEF os_revive_process
<1>3. \A p \in Pids : /\ st[p] = NONE <=> k.status[p] = NONE
                      /\ st[p] = DEAD <=> k.status[p] = DEAD
  BY DEF NONE, READY, BLOCKED, RUNNING, DEAD
<1>. HIDE DEF r, st
<1>4. /\ r.status = st /\ r.priority = k.priority /\ r.queue = k.queue
      /\ r.creation_queue = k.creation_queue /\ r.waiting_for_remove = k.waiting_for_remove
      /\ r.current_pcb = k.current_pcb /\ r.pid = k.pid /\ r.fault = k.fault
  BY <1>2 DEF SchedState
<1>5. Buries(k, r) /\ (IdleFirst(k) => r.status[IDLE_PID] # DEAD)
  BY <1>3, <1>4, ConstantFacts DEF Buries, IdleFirst
<1>6. \A p \in Pids : r.status[p] = NONE <=> k.status[p] = NONE
  BY <1>3, <1>4
<1>7. /\ Sound(r) /\ Prefers(k, r) /\ Avoids(k, r)
      /\ IdleFirst(k) => IdleFirst(r)
  BY <1>1, <1>4, <1>5, <1>6, StatusTicksSound
<1>. QED  BY <1>4, <1>5, <1>7 DEF Lawful, Gentle, r

\* One process that has been handed out, and is not DEAD unless it stays so,
\* gets a status other than RUNNING and NONE.
LEMMA SetStatusSound ==
  ASSUME NEW k, Sound(k), ~k.fault, NEW p \in Pids, NEW s \in Statuses \ {RUNNING, NONE},
         k.status[p] # NONE, k.status[p] # DEAD \/ s = DEAD
  PROVE  LET r == [k EXCEPT !.status[p] = s]
         IN  /\ Lawful(k, r) /\ ~r.fault /\ r.current_pcb = k.current_pcb /\ Buries(k, r)
             /\ r.queue = k.queue /\ r.status[p] = s /\ r.status \in [Pids -> Statuses]
             /\ IdleFirst(k) /\ (p # IDLE_PID \/ s # DEAD) => Gentle(k, r)
<1>. DEFINE r == [k EXCEPT !.status[p] = s]
<1>1. Good(r)
  BY SetStatusGood DEF Sound
<1>2. k \in SchedState /\ k.status \in [Pids -> Statuses]
  BY QueueTypes
<1>3. /\ r.status = [k.status EXCEPT ![p] = s] /\ r.priority = k.priority /\ r.queue = k.queue
      /\ r.creation_queue = k.creation_queue /\ r.waiting_for_remove = k.waiting_for_remove
      /\ r.current_pcb = k.current_pcb /\ r.pid = k.pid /\ r.fault = k.fault
  BY <1>2 DEF SchedState
<1>. HIDE DEF r
<1>4. \A x \in Pids : r.status[x] = IF x = p THEN s ELSE k.status[x]
  BY <1>2, <1>3
<1>5. \A x \in Pids : r.status[x] = NONE <=> k.status[x] = NONE
  BY <1>4
<1>6. Buries(k, r) /\ (IdleFirst(k) /\ (p # IDLE_PID \/ s # DEAD) => r.status[IDLE_PID] # DEAD)
  BY <1>4, ConstantFacts DEF Buries, IdleFirst
<1>7. /\ Sound(r) /\ Prefers(k, r) /\ Avoids(k, r)
      /\ IdleFirst(k) /\ r.status[IDLE_PID] # DEAD => IdleFirst(r)
  BY <1>1, <1>3, <1>5, <1>6, StatusTicksSound
<1>8. r.status \in [Pids -> Statuses]
  BY <1>1 DEF Good, SchedState
<1>. QED  BY <1>3, <1>4, <1>6, <1>7, <1>8 DEF Lawful, Gentle, r

\* A process in a queue, and the current process, have been handed out.
LEMMA QueuedIsHandedOut ==
  ASSUME NEW k, Sound(k), NEW p \in Pids, get_pcb_entry(k, p) \/ p = k.current_pcb
  PROVE  k.status[p] # NONE
<1>1. p < k.pid /\ k.pid \in Nat
  BY EntryFacts, QueueTypes DEF Sound, CurrentOut
<1>2. ~(p >= k.pid)
  BY <1>1, ConstantFacts DEF Pids, SHELL_PID
<1>. QED  BY <1>2 DEF Sound, HandedOut

\* A process that blocks itself.
LEMMA BlockCurrentSound ==
  ASSUME NEW k, Sound(k), ~k.fault, k.status[k.current_pcb] # DEAD
  PROVE  LET r == block_current(k)
         IN  Lawful(k, r) /\ (IdleFirst(k) => Gentle(k, r))
<1>. DEFINE b == [k EXCEPT !.status[k.current_pcb] = BLOCKED]
            r == finish_current_tick(b)
<1>1. k.current_pcb \in Pids /\ k.status[k.current_pcb] # NONE
  BY QueueTypes, QueuedIsHandedOut
<1>2. /\ Lawful(k, b) /\ ~b.fault /\ b.current_pcb = k.current_pcb /\ Buries(k, b)
      /\ IdleFirst(k) => Gentle(k, b)
  BY <1>1, SetStatusSound, StatusFacts DEF BLOCKED, DEAD, NONE
<1>. HIDE DEF b
<1>3. Lawful(b, r) /\ r.current_pcb \in Pids /\ (IdleFirst(b) => Gentle(b, r))
  BY <1>2, FinishTickSound DEF Lawful
<1>. HIDE DEF r
<1>4. Lawful(k, r) /\ (Gentle(b, r) => Gentle(k, r))
  BY <1>2, <1>3, ThenSwitch
<1>. QED  BY <1>2, <1>3, <1>4 DEF block_current, b, r, Gentle

\* block_process of any process.
LEMMA BlockSound ==
  ASSUME NEW k, Sound(k), ~k.fault, NEW p \in Pids
  PROVE  LET r == block_process(k, p)
         IN  Lawful(k, r) /\ (IdleFirst(k) => Gentle(k, r))
<1>. DEFINE b == [k EXCEPT !.status[p] = BLOCKED]
            u == [k EXCEPT !.status[p] = READY]
            f == finish_current_tick(b)
<1>1. Lawful(k, k) /\ (IdleFirst(k) => Gentle(k, k))
  BY DEF Lawful, Gentle, Prefers, Buries, Avoids
<1>2. CASE get_pcb_entry(k, p) /\ k.status[p] \in {READY, RUNNING, BLOCKED}
  <2>1. k.status[p] # NONE /\ k.status[p] # DEAD
    BY <1>2 DEF READY, RUNNING, BLOCKED, NONE, DEAD
  <2>2. /\ Lawful(k, b) /\ ~b.fault /\ b.current_pcb = k.current_pcb /\ Buries(k, b)
        /\ IdleFirst(k) => Gentle(k, b)
    BY <2>1, SetStatusSound, StatusFacts DEF BLOCKED, DEAD, NONE
  <2>3. Lawful(k, u) /\ (IdleFirst(k) => Gentle(k, u))
    BY <2>1, SetStatusSound, StatusFacts DEF READY, DEAD, NONE
  <2>. HIDE DEF b, u
  <2>4. Lawful(b, f) /\ f.current_pcb \in Pids /\ (IdleFirst(b) => Gentle(b, f))
    BY <2>2, FinishTickSound DEF Lawful
  <2>. HIDE DEF f
  <2>5. Lawful(k, f) /\ (Gentle(b, f) => Gentle(k, f))
    BY <2>2, <2>4, ThenSwitch
  <2>6. block_process(k, p) \in {k, b, u, f}
    BY DEF block_process, b, u, f
  <2>7. \A r \in {k, b, u, f} : Lawful(k, r) /\ (IdleFirst(k) => Gentle(k, r))
    BY <1>1, <2>2, <2>3, <2>4, <2>5 DEF Gentle
  <2>. QED  BY <2>6, <2>7
<1>3. CASE ~(get_pcb_entry(k, p) /\ k.status[p] \in {READY, RUNNING, BLOCKED})
  <2>1. block_process(k, p) = k
    BY <1>3 DEF block_process
  <2>. QED  BY <1>1, <2>1
<1>. QED  BY <1>2, <1>3

\* A DEAD process is queued for removal.
LEMMA RemovalQueueSound ==
  ASSUME NEW k, Sound(k), ~k.fault, NEW p \in Pids, k.status[p] = DEAD
  PROVE  LET r == add_process_to_removal_queue(k, p)
         IN  /\ Lawful(k, r) /\ ~r.fault /\ r.current_pcb = k.current_pcb /\ Buries(k, r)
             /\ IdleFirst(k) => Gentle(k, r)
<1>. DEFINE r == add_process_to_removal_queue(k, p)
            w == Append(k.waiting_for_remove, p)
<1>1. Good(r)
  BY RemovalQueueGood DEF Sound
<1>2. k \in SchedState /\ k.waiting_for_remove \in Seq(Pids)
  BY QueueTypes
<1>3. r = [k EXCEPT !.waiting_for_remove = w]
  BY DEF add_process_to_removal_queue
<1>4. Members(w) = Members(k.waiting_for_remove) \cup {p}
  BY <1>2, MembersAppend
<1>. HIDE DEF r, w
<1>5. /\ r.status = k.status /\ r.priority = k.priority /\ r.queue = k.queue
      /\ r.creation_queue = k.creation_queue /\ r.waiting_for_remove = w
      /\ r.current_pcb = k.current_pcb /\ r.pid = k.pid /\ r.fault = k.fault
  BY <1>2, <1>3 DEF SchedState
<1>6. Doomed(r)
  BY <1>4, <1>5 DEF Sound, Doomed
<1>7. /\ Queued(r) /\ Pending(r) /\ HandedOut(r) /\ CurrentOut(r) /\ ~r.fault
      /\ IdleFirst(k) => IdleFirst(r)
  BY <1>5 DEF Sound, Queued, Pending, HandedOut, CurrentOut, get_pcb_entry, IdleFirst
<1>8. Prefers(k, r) /\ Buries(k, r) /\ Avoids(k, r)
  BY <1>5 DEF Prefers, Buries, Avoids
<1>. QED  BY <1>1, <1>5, <1>6, <1>7, <1>8 DEF Sound, Lawful, Gentle, r

\* A kill, by another process or by the process itself.
LEMMA KillSound ==
  ASSUME NEW k, Sound(k), ~k.fault, NEW p \in Pids, NEW W
  PROVE  LET r == kill(k, p, W)
         IN  Lawful(k, r) /\ (IdleFirst(k) /\ p # IDLE_PID => Gentle(k, r))
<1>. DEFINE a == os_revive_process(k, W)
            dead == [a EXCEPT !.status[p] = DEAD]
            gone == add_process_to_removal_queue(dead, p)
            f == finish_current_tick(gone)
            Fine(r) == Lawful(k, r) /\ (IdleFirst(k) /\ p # IDLE_PID => Gentle(k, r))
<1>1. Fine(k)
  BY DEF Lawful, Gentle, Prefers, Buries, Avoids
<1>2. CASE get_pcb_entry(k, p)
  <2>1. /\ Lawful(k, a) /\ ~a.fault /\ a.current_pcb = k.current_pcb /\ Buries(k, a)
        /\ a.queue = k.queue /\ (IdleFirst(k) => Gentle(k, a))
    BY ReviveSound
  <2>. HIDE DEF a
  <2>2. a.status[p] # NONE
    <3>1. get_pcb_entry(a, p)
      BY <1>2, <2>1 DEF get_pcb_entry
    <3>. QED  BY <2>1, <3>1, QueuedIsHandedOut DEF Lawful
  <2>3. /\ Lawful(a, dead) /\ ~dead.fault /\ dead.current_pcb = a.current_pcb /\ Buries(a, dead)
        /\ dead.status[p] = DEAD
        /\ IdleFirst(a) /\ p # IDLE_PID => Gentle(a, dead)
    BY <2>1, <2>2, SetStatusSound, StatusFacts DEF Lawful, DEAD, NONE
  <2>. HIDE DEF dead
  <2>4. /\ Lawful(dead, gone) /\ ~gone.fault /\ gone.current_pcb = dead.current_pcb
        /\ Buries(dead, gone) /\ (IdleFirst(dead) => Gentle(dead, gone))
    BY <2>3, RemovalQueueSound DEF Lawful
  <2>. HIDE DEF gone
  <2>5. Lawful(gone, f) /\ f.current_pcb \in Pids /\ (IdleFirst(gone) => Gentle(gone, f))
    BY <2>4, FinishTickSound DEF Lawful
  <2>. HIDE DEF f
  <2>6. Buries(k, gone) /\ gone.current_pcb = k.current_pcb
    BY <2>1, <2>3, <2>4 DEF Buries
  <2>7. Fine(gone)
    BY <2>1, <2>3, <2>4, <2>6 DEF Lawful, Gentle, Prefers, Avoids
  <2>8. Lawful(k, f) /\ (Gentle(gone, f) => Gentle(k, f))
    BY <2>5, <2>6, ThenSwitch
  <2>9. Fine(f)
    BY <2>5, <2>7, <2>8 DEF Gentle
  <2>10. kill(k, p, W) \in {k, gone, f}
    BY DEF kill, f, gone, dead, a
  <2>. QED  BY <1>1, <2>7, <2>9, <2>10
<1>3. CASE ~get_pcb_entry(k, p)
  BY <1>1, <1>3 DEF kill
<1>. QED  BY <1>2, <1>3

\* create_process hands out a pid that is in no queue.  Until the process is
\* queued or waits for its creation the record is not Sound, so the two ways of
\* creating are taken as a whole.
LEMMA CreateFields ==
  ASSUME NEW k, Sound(k), ~k.fault, k.pid =< MaxPid
  PROVE  LET r == create_process(k)
         IN  /\ Good(r) /\ k.pid \in Pids /\ k.pid > 3 /\ k.status[k.pid] = NONE
             /\ ~get_pcb_entry(k, k.pid) /\ k.pid \notin Members(k.creation_queue)
             /\ k.pid \notin Members(k.waiting_for_remove)
             /\ \A x \in Pids : r.status[x] = IF x = k.pid THEN READY ELSE k.status[x]
             /\ r.pid = k.pid + 1 /\ r.priority = k.priority /\ r.queue = k.queue
             /\ r.creation_queue = k.creation_queue /\ r.waiting_for_remove = k.waiting_for_remove
             /\ r.current_pcb = k.current_pcb /\ r.fault = k.fault
<1>. DEFINE r == create_process(k)
<1>1. Good(r) /\ k.pid \in Pids
  BY CreateProcessGood DEF Sound
<1>2. k \in SchedState /\ k.pid \in Nat /\ k.pid > 3 /\ k.status \in [Pids -> Statuses]
  BY QueueTypes
<1>3. k.status[k.pid] = NONE /\ ~get_pcb_entry(k, k.pid) /\ k.pid \notin Members(k.creation_queue)
  BY <1>1, <1>2 DEF Sound, HandedOut, Queued, Pending, get_pcb_entry
<1>4. k.pid \notin Members(k.waiting_for_remove)
  BY <1>3 DEF Sound, Doomed, NONE, DEAD
<1>5. /\ r.status = [k.status EXCEPT ![k.pid] = READY]
      /\ r.pid = k.pid + 1 /\ r.priority = k.priority /\ r.queue = k.queue
      /\ r.creation_queue = k.creation_queue /\ r.waiting_for_remove = k.waiting_for_remove
      /\ r.current_pcb = k.current_pcb /\ r.fault = k.fault
  BY <1>2 DEF create_process, SchedState
<1>. HIDE DEF r
<1>6. \A x \in Pids : r.status[x] = IF x = k.pid THEN READY ELSE k.status[x]
  BY <1>1, <1>2, <1>5
<1>. QED  BY <1>1, <1>2, <1>3, <1>4, <1>5, <1>6 DEF r

\* create_and_insert_process.
LEMMA CreateSound ==
  ASSUME NEW k, Sound(k), ~k.fault, k.pid =< MaxPid
  PROVE  LET r == create_and_insert_process(k)
         IN  Lawful(k, r) /\ (IdleFirst(k) => Gentle(k, r))
<1>. DEFINE b == create_process(k)
            n == k.pid
            r == add_new_process(b, n)
<1>1. /\ Good(b) /\ n \in Pids /\ n > 3 /\ k.status[n] = NONE
      /\ ~get_pcb_entry(k, n) /\ n \notin Members(k.creation_queue)
      /\ n \notin Members(k.waiting_for_remove)
      /\ \A x \in Pids : b.status[x] = IF x = n THEN READY ELSE k.status[x]
      /\ b.pid = n + 1 /\ b.priority = k.priority /\ b.queue = k.queue
      /\ b.creation_queue = k.creation_queue /\ b.waiting_for_remove = k.waiting_for_remove
      /\ b.current_pcb = k.current_pcb /\ b.fault = k.fault
  BY CreateFields
<1>2. create_and_insert_process(k) = r
  BY DEF create_and_insert_process
<1>3. /\ k.queue \in [Priorities -> Seq(Pids)] /\ k.priority \in [Pids -> Priorities]
      /\ \A i \in Priorities : Members(k.queue[i]) \subseteq Pids /\ Once(k.queue[i])
      /\ Members(k.creation_queue) \subseteq Pids /\ n \in Nat /\ k.current_pcb \in Pids
  BY QueueTypes
<1>. HIDE DEF b, n
<1>4. Good(r)
  BY <1>1, AddNewGood
<1>5. /\ r.status = b.status /\ r.pid = n + 1
      /\ r.priority = [k.priority EXCEPT ![n] = HIGH_PRIORITY]
      /\ r.queue = [k.queue EXCEPT ![HIGH_PRIORITY] = Append(@, n)]
      /\ r.creation_queue = k.creation_queue /\ r.waiting_for_remove = k.waiting_for_remove
      /\ r.current_pcb = k.current_pcb /\ r.fault = k.fault
  BY <1>1 DEF add_new_process, Good, SchedState
<1>. HIDE DEF r
<1>6. \A x \in Pids : r.priority[x] = IF x = n THEN HIGH_PRIORITY ELSE k.priority[x]
  BY <1>1, <1>3, <1>5
<1>7. \A i \in Priorities : r.queue[i] = IF i = HIGH_PRIORITY THEN Append(k.queue[i], n) ELSE k.queue[i]
  BY <1>3, <1>5
<1>8. \A i \in Priorities : n \notin Members(k.queue[i])
  BY <1>1 DEF get_pcb_entry
<1>9. ASSUME NEW i \in Priorities
      PROVE  /\ Members(r.queue[i]) = Members(k.queue[i]) \cup (IF i = HIGH_PRIORITY THEN {n} ELSE {})
             /\ Once(r.queue[i])
  <2>1. CASE i = HIGH_PRIORITY
    <3>1. k.queue[i] \in Seq(Pids) /\ Once(k.queue[i]) /\ n \notin Members(k.queue[i])
      BY <1>3, <1>8
    <3>2. Members(Append(k.queue[i], n)) = Members(k.queue[i]) \cup {n}
      BY <1>1, <3>1, MembersAppend
    <3>3. Once(Append(k.queue[i], n))
      BY <1>1, <3>1, AppendOnce
    <3>. QED  BY <1>7, <2>1, <3>2, <3>3
  <2>2. CASE i # HIGH_PRIORITY
    BY <1>3, <1>7, <2>2
  <2>. QED  BY <2>1, <2>2
<1>10. \A x \in Pids : x < n => x < n + 1 /\ x # n
  BY <1>3 DEF Pids, SHELL_PID
<1>11. Queued(r)
  <2>1. ASSUME NEW i \in Priorities, NEW x \in Members(r.queue[i])
        PROVE  r.priority[x] = i /\ x < r.pid
    <3>1. CASE x = n
      <4>1. i = HIGH_PRIORITY
        BY <1>8, <1>9, <2>1, <3>1
      <4>. QED  BY <1>1, <1>3, <1>5, <1>6, <3>1, <4>1
    <3>2. CASE x # n
      <4>1. x \in Members(k.queue[i]) /\ x \in Pids
        BY <1>3, <1>9, <2>1, <3>2
      <4>2. k.priority[x] = i /\ x < n
        BY <4>1 DEF Sound, Queued, n
      <4>. QED  BY <1>5, <1>6, <1>10, <3>2, <4>1, <4>2
    <3>. QED  BY <3>1, <3>2
  <2>2. ASSUME NEW x \in Pids, r.status[x] \notin {NONE, DEAD}, x \notin Members(r.creation_queue)
        PROVE  x \in Members(r.queue[r.priority[x]])
    <3>1. CASE x = n
      BY <1>6, <1>9, <3>1, ConstantFacts
    <3>2. CASE x # n
      <4>1. k.priority[x] \in Priorities /\ r.priority[x] = k.priority[x]
        BY <1>3, <1>6, <3>2
      <4>2. x \in Members(k.queue[k.priority[x]])
        BY <1>1, <1>5, <2>2, <3>2 DEF Sound, Queued
      <4>. QED  BY <1>9, <4>1, <4>2
    <3>. QED  BY <3>1, <3>2
  <2>. QED  BY <1>9, <2>1, <2>2 DEF Queued
<1>12. Pending(r)
  <2>1. ASSUME NEW x \in Members(k.creation_queue)
        PROVE  3 < x /\ x < r.pid /\ ~get_pcb_entry(r, x)
    <3>1. x \in Pids /\ x # n /\ 3 < x /\ x < n /\ ~get_pcb_entry(k, x)
      BY <1>1, <1>3 DEF Sound, Pending, n
    <3>2. \A i \in Priorities : x \notin Members(r.queue[i])
      BY <1>9, <3>1 DEF get_pcb_entry
    <3>. QED  BY <1>5, <1>10, <3>1, <3>2 DEF get_pcb_entry
  <2>. QED  BY <1>5, <2>1 DEF Sound, Pending
<1>13. HandedOut(r)
  <2>1. ASSUME NEW x \in Pids PROVE r.status[x] = NONE <=> x >= n + 1
    <3>1. k.status[x] = NONE <=> x >= n
      BY DEF Sound, HandedOut, n
    <3>2. x = n => ~(x >= n + 1)
      BY <1>3
    <3>3. x # n => (x >= n <=> x >= n + 1)
      BY <1>3 DEF Pids, SHELL_PID
    <3>. QED  BY <1>1, <1>5, <3>1, <3>2, <3>3 DEF READY, NONE
  <2>. QED  BY <1>5, <2>1 DEF HandedOut
<1>14. Doomed(r) /\ ~r.fault
  BY <1>1, <1>5, QueueTypes DEF Sound, Doomed
<1>15. CurrentOut(r)
  BY <1>3, <1>5, <1>10 DEF Sound, CurrentOut, n
<1>16. Prefers(k, r) /\ Avoids(k, r)
  BY <1>5 DEF Prefers, Avoids
<1>17. Buries(k, r)
  BY <1>1, <1>5 DEF Buries, NONE, DEAD
<1>18. IdleFirst(k) => IdleFirst(r)
  <2>1. IDLE_PRIORITY # HIGH_PRIORITY /\ IDLE_PRIORITY \in Priorities /\ IDLE_PID \in Pids
    BY ConstantFacts DEF IDLE_PRIORITY, HIGH_PRIORITY
  <2>. QED  BY <1>1, <1>5, <1>7, <2>1 DEF IdleFirst, READY, DEAD
<1>. QED  BY <1>2, <1>4, <1>11, <1>12, <1>13, <1>14, <1>15, <1>16, <1>17, <1>18 DEF Sound, Lawful, Gentle

\* add_process_to_creation_queue.
LEMMA CreateLaterSound ==
  ASSUME NEW k, Sound(k), ~k.fault, k.pid =< MaxPid
  PROVE  LET r == add_process_to_creation_queue(k)
         IN  Lawful(k, r) /\ (IdleFirst(k) => Gentle(k, r))
<1>. DEFINE b == create_process(k)
            n == k.pid
            w == Append(b.creation_queue, n)
            r == add_process_to_creation_queue(k)
<1>1. /\ Good(b) /\ n \in Pids /\ n > 3 /\ k.status[n] = NONE
      /\ ~get_pcb_entry(k, n) /\ n \notin Members(k.creation_queue)
      /\ n \notin Members(k.waiting_for_remove)
      /\ \A x \in Pids : b.status[x] = IF x = n THEN READY ELSE k.status[x]
      /\ b.pid = n + 1 /\ b.priority = k.priority /\ b.queue = k.queue
      /\ b.creation_queue = k.creation_queue /\ b.waiting_for_remove = k.waiting_for_remove
      /\ b.current_pcb = k.current_pcb /\ b.fault = k.fault
  BY CreateFields
<1>2. r = [b EXCEPT !.creation_queue = w]
  BY DEF add_process_to_creation_queue
<1>3. /\ k.creation_queue \in Seq(Pids) /\ Members(k.creation_queue) \subseteq Pids
      /\ n \in Nat /\ k.current_pcb \in Pids
      /\ \A i \in Priorities : Members(k.queue[i]) \subseteq Pids
  BY QueueTypes
<1>4. Good(r)
  BY CreateLaterGood DEF Sound
<1>. HIDE DEF b, n, r
<1>5. Members(w) = Members(k.creation_queue) \cup {n} /\ Once(w)
  BY <1>1, <1>3, MembersAppend, AppendOnce DEF Sound, Pending
<1>. HIDE DEF w
<1>6. /\ r.status = b.status /\ r.pid = n + 1 /\ r.priority = k.priority /\ r.queue = k.queue
      /\ r.creation_queue = w /\ r.waiting_for_remove = k.waiting_for_remove
      /\ r.current_pcb = k.current_pcb /\ r.fault = k.fault
  BY <1>1, <1>2 DEF Good, SchedState
<1>7. \A x \in Pids : x < n => x < n + 1 /\ x # n
  BY <1>3 DEF Pids, SHELL_PID
<1>8. Queued(r)
  <2>1. ASSUME NEW i \in Priorities, NEW x \in Members(k.queue[i])
        PROVE  k.priority[x] = i /\ x < n + 1
    <3>1. x \in Pids /\ k.priority[x] = i /\ x < n
      BY <1>3 DEF Sound, Queued, n
    <3>. QED  BY <1>7, <3>1
  <2>2. ASSUME NEW x \in Pids, r.status[x] \notin {NONE, DEAD}, x \notin Members(w)
        PROVE  x \in Members(k.queue[k.priority[x]])
    BY <1>1, <1>5, <1>6, <2>2 DEF Sound, Queued
  <2>3. \A i \in Priorities : Once(k.queue[i])
    BY DEF Sound, Queued
  <2>. QED  BY <1>6, <2>1, <2>2, <2>3 DEF Queued
<1>9. Pending(r)
  <2>1. ASSUME NEW x \in Members(w) PROVE 3 < x /\ x < n + 1 /\ ~get_pcb_entry(k, x)
    <3>1. CASE x = n
      BY <1>1, <1>3, <3>1
    <3>2. CASE x # n
      <4>1. x \in Members(k.creation_queue) /\ x \in Pids
        BY <1>3, <1>5, <3>2
      <4>. QED  BY <1>7, <4>1 DEF Sound, Pending, n
    <3>. QED  BY <3>1, <3>2
  <2>. QED  BY <1>5, <1>6, <2>1 DEF Pending, get_pcb_entry
<1>10. HandedOut(r)
  <2>1. ASSUME NEW x \in Pids PROVE r.status[x] = NONE <=> x >= n + 1
    <3>1. k.status[x] = NONE <=> x >= n
      BY DEF Sound, HandedOut, n
    <3>2. x = n => ~(x >= n + 1)
      BY <1>3
    <3>3. x # n => (x >= n <=> x >= n + 1)
      BY <1>3 DEF Pids, SHELL_PID
    <3>. QED  BY <1>1, <1>6, <3>1, <3>2, <3>3 DEF READY, NONE
  <2>. QED  BY <1>6, <2>1 DEF HandedOut
<1>11. Doomed(r) /\ ~r.fault
  BY <1>1, <1>6, QueueTypes DEF Sound, Doomed
<1>12. CurrentOut(r)
  BY <1>3, <1>5, <1>6, <1>7 DEF Sound, CurrentOut, n
<1>13. Prefers(k, r) /\ Avoids(k, r) /\ Buries(k, r)
  BY <1>1, <1>6 DEF Prefers, Avoids, Buries, NONE, DEAD
<1>14. IdleFirst(k) => IdleFirst(r)
  BY <1>1, <1>6, ConstantFacts DEF IdleFirst, READY, DEAD
<1>. QED  BY <1>4, <1>8, <1>9, <1>10, <1>11, <1>12, <1>13, <1>14 DEF Sound, Lawful, Gentle, r

-----------------------------------------------------------------------------
(* The steps of the scheduler. *)

\* The globals after a step to k are k.
LEMMA StepTo ==
  ASSUME NEW k \in SchedState, SchedBecomes(k)
  PROVE  Sched' = k
<1>1. k = [status |-> k.status, priority |-> k.priority, ticks |-> k.ticks,
           queue |-> k.queue, waiting_for_remove |-> k.waiting_for_remove,
           creation_queue |-> k.creation_queue, current_pcb |-> k.current_pcb,
           pid |-> k.pid, fault |-> k.fault]
  BY DEF SchedState
<1>. QED  BY <1>1 DEF SchedBecomes, Sched

\* Every step is Lawful, and Gentle as long as nobody kills or moves idle.
LEMMA StepIsLawful ==
  ASSUME Sound(Sched), SchedNext
  PROVE  /\ Lawful(Sched, Sched')
         /\ IdleFirst(Sched) /\ IDLE_PID \notin Targets => Gentle(Sched, Sched')
<1>. DEFINE Fine(r) == /\ Lawful(Sched, r)
                       /\ IdleFirst(Sched) /\ IDLE_PID \notin Targets => Gentle(Sched, r)
<1>1. /\ Sched.pid = pid /\ Sched.current_pcb = current_pcb /\ Sched.fault = fault
      /\ Sched.status = status /\ Sched \in SchedState /\ current_pcb \in Pids
  BY QueueTypes DEF Sched
<1>2. UNCHANGED svars => Sched' = Sched
  BY DEF svars, Sched
<1>. HIDE DEF Sched
<1>3. ASSUME NEW k, SchedBecomes(k), Fine(k) PROVE Fine(Sched')
  <2>1. k \in SchedState
    BY <1>3 DEF Lawful, Sound, Good
  <2>2. Sched' = k
    BY <1>3, <2>1, StepTo
  <2>. QED  BY <1>3, <2>2
<1>. HIDE DEF Fine
<1>4. InUserCode => status[current_pcb] # DEAD /\ current_pcb # IDLE_PID
  BY DEF InUserCode, RUNNING, READY, DEAD
<1>5. CASE Timer
  <2>1. Fine(timer_interrupt(Sched))
    BY <1>1, <1>5, TimerSound DEF Timer, Fine
  <2>. QED  BY <1>3, <1>5, <2>1 DEF Timer, Fine
<1>6. ASSUME Yield \/ YieldDead PROVE Fine(Sched')
  <2>1. Fine(finish_current_tick(Sched))
    BY <1>1, <1>6, FinishTickSound DEF Yield, YieldDead, InUserCode, Fine
  <2>. QED  BY <1>3, <1>6, <2>1 DEF Yield, YieldDead
<1>7. CASE BlockCurrent
  <2>1. Fine(block_current(Sched))
    BY <1>1, <1>4, <1>7, BlockCurrentSound DEF BlockCurrent, InUserCode, Fine
  <2>. QED  BY <1>3, <1>7, <2>1 DEF BlockCurrent, Fine
<1>8. CASE Create
  <2>1. Fine(create_and_insert_process(Sched))
    BY <1>1, <1>8, CreateSound DEF Create, InUserCode, Fine
  <2>. QED  BY <1>3, <1>8, <2>1 DEF Create, Fine
<1>9. CASE CreateLater
  <2>1. Fine(add_process_to_creation_queue(Sched))
    BY <1>1, <1>9, CreateLaterSound DEF CreateLater, InUserCode, Fine
  <2>. QED  BY <1>3, <1>9, <2>1 DEF CreateLater, Fine
<1>10. CASE MarkDead
  <2>. DEFINE r == [Sched EXCEPT !.status[current_pcb] = DEAD]
  <2>1. ~fault /\ SchedBecomes(r) /\ status[current_pcb] # DEAD /\ current_pcb # IDLE_PID
    BY <1>4, <1>10 DEF MarkDead, InUserCode
  <2>2. Sched.status[current_pcb] # NONE
    BY <1>1, QueuedIsHandedOut
  <2>3. DEAD \in Statuses \ {RUNNING, NONE}
    BY StatusFacts DEF DEAD, NONE, RUNNING
  <2>4. Lawful(Sched, r) /\ (IdleFirst(Sched) => Gentle(Sched, r))
    BY <1>1, <2>1, <2>2, <2>3, SetStatusSound
  <2>. HIDE DEF r
  <2>5. Fine(r)
    BY <2>4 DEF Fine
  <2>. QED  BY <1>3, <2>1, <2>5 DEF Fine
<1>11. CASE QueueDead
  <2>1. Fine(add_process_to_removal_queue(Sched, current_pcb))
    BY <1>1, <1>11, RemovalQueueSound DEF QueueDead, Fine
  <2>. QED  BY <1>3, <1>11, <2>1 DEF QueueDead, Fine
<1>12. ASSUME NEW p \in Targets, Block(p) PROVE Fine(Sched')
  <2>1. Fine(block_process(Sched, p))
    BY <1>1, <1>12, BlockSound, ConstantFacts DEF Block, InUserCode, Fine
  <2>. QED  BY <1>3, <1>12, <2>1 DEF Block
<1>13. ASSUME NEW p \in Targets, NEW prio \in NiceLevels, Nice(p, prio) PROVE Fine(Sched')
  <2>. DEFINE r == change_process_priority(Sched, p, prio)
  <2>1. /\ Sound(r) /\ (IdleFirst(Sched) /\ p # IDLE_PID => IdleFirst(r))
        /\ r.status = Sched.status /\ r.current_pcb = Sched.current_pcb
    BY <1>1, <1>13, ChangePrioritySound, ConstantFacts DEF Nice, InUserCode
  <2>2. SchedBecomes(r)
    BY <1>13 DEF Nice
  <2>. HIDE DEF r
  <2>3. Fine(r)
    BY <2>1 DEF Fine, Lawful, Gentle, Prefers, Buries, Avoids
  <2>. QED  BY <1>3, <2>2, <2>3
<1>14. ASSUME NEW W, Wake(W) PROVE Fine(Sched')
  <2>1. Fine(os_revive_process(Sched, W))
    BY <1>1, <1>14, ReviveSound DEF Wake, Fine
  <2>. QED  BY <1>3, <1>14, <2>1 DEF Wake
<1>15. ASSUME NEW p \in Targets, NEW W, Kill(p, W) PROVE Fine(Sched')
  <2>1. Fine(kill(Sched, p, W))
    BY <1>1, <1>15, KillSound, ConstantFacts DEF Kill, Fine
  <2>. QED  BY <1>3, <1>15, <2>1 DEF Kill
<1>16. CASE Halted
  <2>1. Fine(Sched)
    BY DEF Fine, Lawful, Gentle, Prefers, Buries, Avoids
  <2>. QED  BY <1>2, <1>16, <2>1 DEF Halted, Fine
<1>17. Fine(Sched')
  BY <1>5, <1>6, <1>7, <1>8, <1>9, <1>10, <1>11, <1>12, <1>13, <1>14, <1>15, <1>16
     DEF SchedNext, Calls, Nices, Fine
<1>. QED  BY <1>17 DEF Fine

\* main leaves the queues in order.
LEMMA InitIsSound == SchedInit => Sound(Sched) /\ IdleFirst(Sched)
<1>1. SUFFICES ASSUME SchedInit PROVE Sound(Sched) /\ IdleFirst(Sched)
  OBVIOUS
<1>2. Good(Sched)
  BY <1>1, InitIsGood, InvIsGood
<1>. DEFINE k == Sched
<1>3. /\ k.status = [p \in Pids |-> IF p = SHELL_PID THEN RUNNING
                                    ELSE IF p = IDLE_PID THEN READY ELSE NONE]
      /\ k.priority = [p \in Pids |-> IF p = IDLE_PID THEN IDLE_PRIORITY ELSE HIGH_PRIORITY]
      /\ k.queue = [i \in Priorities |-> IF i = HIGH_PRIORITY THEN <<SHELL_PID>>
                                         ELSE IF i = IDLE_PRIORITY THEN <<IDLE_PID>> ELSE <<>>]
      /\ k.waiting_for_remove = <<>> /\ k.creation_queue = <<>>
      /\ k.current_pcb = SHELL_PID /\ k.pid = IDLE_PID + 1 /\ k.fault = FALSE
  BY <1>1 DEF SchedInit, Sched
<1>. HIDE DEF k
<1>4. /\ Members(<<>>) = {} /\ Once(<<>>)
      /\ \A p : Members(<<p>>) = {p} /\ Once(<<p>>) /\ <<p>> # <<>> /\ Head(<<p>>) = p
  BY DEF Members, Once
<1>5. SHELL_PID = 2 /\ IDLE_PID = 3 /\ IDLE_PRIORITY # HIGH_PRIORITY /\ k.pid = 4
  BY <1>3 DEF SHELL_PID, IDLE_PID, IDLE_PRIORITY, HIGH_PRIORITY
<1>6. /\ k.queue[HIGH_PRIORITY] = <<SHELL_PID>> /\ k.queue[IDLE_PRIORITY] = <<IDLE_PID>>
      /\ \A i \in Priorities : i \notin {HIGH_PRIORITY, IDLE_PRIORITY} => k.queue[i] = <<>>
      /\ k.priority[SHELL_PID] = HIGH_PRIORITY /\ k.priority[IDLE_PID] = IDLE_PRIORITY
      /\ k.status[IDLE_PID] = READY
  BY <1>3, <1>5, ConstantFacts
<1>7. Queued(k)
  <2>1. \A i \in Priorities : Once(k.queue[i])
    BY <1>4, <1>6
  <2>2. ASSUME NEW i \in Priorities, NEW p \in Members(k.queue[i])
        PROVE  k.priority[p] = i /\ p < k.pid
    <3>1. \/ p = SHELL_PID /\ i = HIGH_PRIORITY
          \/ p = IDLE_PID /\ i = IDLE_PRIORITY
      <4>1. CASE i = HIGH_PRIORITY
        <5>1. Members(k.queue[i]) = {SHELL_PID}
          BY <1>4, <1>6, <4>1
        <5>. QED  BY <2>2, <4>1, <5>1
      <4>2. CASE i = IDLE_PRIORITY
        <5>1. Members(k.queue[i]) = {IDLE_PID}
          BY <1>4, <1>6, <4>2
        <5>. QED  BY <2>2, <4>2, <5>1
      <4>3. CASE i \notin {HIGH_PRIORITY, IDLE_PRIORITY}
        BY <1>4, <1>6, <2>2, <4>3
      <4>. QED  BY <4>1, <4>2, <4>3
    <3>. QED  BY <1>5, <1>6, <3>1
  <2>3. ASSUME NEW p \in Pids, k.status[p] \notin {NONE, DEAD}
        PROVE  p \in Members(k.queue[k.priority[p]])
    <3>1. p = SHELL_PID \/ p = IDLE_PID
      BY <1>3, <2>3
    <3>2. CASE p = SHELL_PID
      <4>1. Members(<<SHELL_PID>>) = {SHELL_PID}
        BY <1>4
      <4>. QED  BY <1>6, <3>2, <4>1
    <3>3. CASE p = IDLE_PID
      <4>1. Members(<<IDLE_PID>>) = {IDLE_PID}
        BY <1>4
      <4>. QED  BY <1>6, <3>3, <4>1
    <3>. QED  BY <3>1, <3>2, <3>3
  <2>. QED  BY <2>1, <2>2, <2>3 DEF Queued
<1>8. Pending(k) /\ Doomed(k) /\ CurrentOut(k)
  BY <1>3, <1>4, <1>5 DEF Pending, Doomed, CurrentOut
<1>9. HandedOut(k)
  <2>1. ASSUME NEW p \in Pids PROVE k.status[p] = NONE <=> p >= k.pid
    <3>1. p \in {2, 3} <=> ~(p >= 4)
      BY SchedulerAssumption DEF Pids, SHELL_PID
    <3>2. k.status[p] = NONE <=> p \notin {2, 3}
      BY <1>3, <1>5 DEF RUNNING, READY, NONE
    <3>. QED  BY <1>5, <3>1, <3>2
  <2>. QED  BY <2>1 DEF HandedOut
<1>. QED  BY <1>2, <1>3, <1>4, <1>6, <1>7, <1>8, <1>9 DEF Sound, IdleFirst, k, READY, DEAD

\* The queues, the priority fields, the statuses and the removal and creation
\* queues agree in every reachable state.
THEOREM SoundInvariant == SchedSpec => []Sound(Sched)
<1>1. SchedInit => Sound(Sched)
  BY InitIsSound
<1>2. Sound(Sched) /\ [SchedNext]_svars => Sound(Sched)'
  <2>1. SUFFICES ASSUME Sound(Sched), [SchedNext]_svars PROVE Sound(Sched')
    OBVIOUS
  <2>2. CASE SchedNext
    BY <2>1, <2>2, StepIsLawful DEF Lawful
  <2>3. CASE UNCHANGED svars
    <3>1. Sched' = Sched
      BY <2>3 DEF svars, Sched
    <3>. QED  BY <2>1, <3>1
  <2>. QED  BY <2>1, <2>2, <2>3
<1>. QED  BY <1>1, <1>2, PTL DEF SchedSpec

\* As long as kill, nice and block are not called with its pid the idle process
\* stays at the head of its queue.
LEMMA IdleStays == ASSUME IDLE_PID \notin Targets PROVE SchedSpec => []IdleFirst(Sched)
<1>1. SchedInit => IdleFirst(Sched)
  BY InitIsSound
<1>2. Sound(Sched) /\ IdleFirst(Sched) /\ [SchedNext]_svars => IdleFirst(Sched)'
  <2>1. SUFFICES ASSUME Sound(Sched), IdleFirst(Sched), [SchedNext]_svars PROVE IdleFirst(Sched')
    OBVIOUS
  <2>2. CASE SchedNext
    BY <2>1, <2>2, StepIsLawful DEF Gentle
  <2>3. CASE UNCHANGED svars
    <3>1. Sched' = Sched
      BY <2>3 DEF svars, Sched
    <3>. QED  BY <2>1, <3>1
  <2>. QED  BY <2>1, <2>2, <2>3
<1>. QED  BY <1>1, <1>2, SoundInvariant, PTL DEF SchedSpec

\* The priority field names the one queue a process is in, and every process
\* that may still run is in it exactly once.
THEOREM QueuesMatch == SchedSpec => []QueuesMatchPriorities
<1>1. Sound(Sched) => QueuesMatchPriorities
  <2>1. SUFFICES ASSUME Sound(Sched) PROVE QueuesMatchPriorities
    OBVIOUS
  <2>2. /\ Sched.queue = queue /\ Sched.priority = priority /\ Sched.status = status
        /\ Sched.creation_queue = creation_queue
    BY DEF Sched
  <2>3. \A i \in Priorities : DOMAIN queue[i] = 1 .. Len(queue[i])
    BY <2>1, <2>2, QueueTypes
  <2>. QED  BY <2>1, <2>2, <2>3 DEF Sound, Queued, Once, Members, QueuesMatchPriorities
<1>. QED  BY <1>1, SoundInvariant, PTL

\* The kernel follows a null current_node only after the idle process was lost.
THEOREM FaultOnlyWithoutIdle == SchedSpec => []FaultNeedsLostIdle
<1>1. Sound(Sched) => FaultNeedsLostIdle
  BY DEF Sound, IdleLost, FaultNeedsLostIdle, Sched
<1>. QED  BY <1>1, SoundInvariant, PTL

\* Whoever gets the processor has the highest priority of the READY processes,
\* the one that was running before left aside.
THEOREM HighestRuns == SchedSpec => HighestReadyRuns
<1>. DEFINE P == current_pcb' # current_pcb =>
                   \A p \in Pids : status'[p] = READY /\ get_pcb_entry(Sched', p)
                                     => \/ priority'[p] =< priority'[current_pcb']
                                        \/ p = current_pcb
<1>1. Sound(Sched) /\ [SchedNext]_svars => [P]_svars
  <2>1. SUFFICES ASSUME Sound(Sched), SchedNext PROVE P
    OBVIOUS
  <2>2. Prefers(Sched, Sched')
    BY <2>1, StepIsLawful DEF Lawful
  <2>. QED  BY <2>2 DEF Prefers, Sched
<1>. QED  BY <1>1, SoundInvariant, PTL DEF SchedSpec, HighestReadyRuns

\* While the idle process is left alone nobody comes back from the dead.
THEOREM DeadStay == ASSUME IDLE_PID \notin Targets PROVE SchedSpec => DeadStaysDead
<1>1. Sound(Sched) /\ IdleFirst(Sched) /\ [SchedNext]_svars
        => [\A p \in Remembered : status[p] = DEAD => status'[p] = DEAD]_svars
  <2>1. SUFFICES ASSUME Sound(Sched), IdleFirst(Sched), SchedNext
                 PROVE  \A p \in Remembered : status[p] = DEAD => status'[p] = DEAD
    OBVIOUS
  <2>2. Buries(Sched, Sched')
    BY <2>1, StepIsLawful DEF Gentle
  <2>. QED  BY <2>2 DEF Buries, Sched, Remembered
<1>. QED  BY <1>1, SoundInvariant, IdleStays, PTL DEF SchedSpec, DeadStaysDead

\* While the idle process is left alone the processor goes to no dead process.
THEOREM DeadNeverRun == ASSUME IDLE_PID \notin Targets PROVE SchedSpec => DeadNeverDispatched
<1>1. Sound(Sched) /\ IdleFirst(Sched) /\ [SchedNext]_svars
        => [current_pcb' # current_pcb => status[current_pcb'] # DEAD]_svars
  <2>1. SUFFICES ASSUME Sound(Sched), IdleFirst(Sched), SchedNext
                 PROVE  current_pcb' # current_pcb => status[current_pcb'] # DEAD
    OBVIOUS
  <2>2. Avoids(Sched, Sched')
    BY <2>1, StepIsLawful DEF Gentle
  <2>. QED  BY <2>2 DEF Avoids, Sched
<1>. QED  BY <1>1, SoundInvariant, IdleStays, PTL DEF SchedSpec, DeadNeverDispatched
=============================================================================
