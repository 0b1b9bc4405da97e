-------------------------- MODULE SemaphoreProofs --------------------------
(***************************************************************************)
(* Mutual exclusion and wake-ups of the semaphores of Kernel.tla, for every  *)
(* number of processes, slots and semaphore names.                           *)
(***************************************************************************)
EXTENDS KernelProofs

-----------------------------------------------------------------------------
(* The table after an assignment to one field of one slot. *)

Table == [Slots -> Semaphore]

\* t differs from sp at most in is_locked of slot i.
Relocked(sp, t, i) ==
  /\ t \in Table
  /\ \A j \in Slots : /\ t[j].status = sp[j].status /\ t[j].identifier = sp[j].identifier
                      /\ t[j].queue = sp[j].queue
                      /\ t[j].allowed_processes = sp[j].allowed_processes
                      /\ j # i => t[j] = sp[j]

\* t is sp with the queue q in slot i.
Requeued(sp, t, i, q) ==
  /\ t \in Table
  /\ \A j \in Slots : /\ t[j].status = sp[j].status /\ t[j].identifier = sp[j].identifier
                      /\ t[j].is_locked = sp[j].is_locked
                      /\ t[j].allowed_processes = sp[j].allowed_processes
                      /\ t[j].queue = IF j = i THEN q ELSE sp[j].queue
                      /\ j # i => t[j] = sp[j]

\* t is sp with the openers s in slot i.
Reallowed(sp, t, i, s) ==
  /\ t \in Table
  /\ \A j \in Slots : /\ t[j].status = sp[j].status /\ t[j].identifier = sp[j].identifier
                      /\ t[j].is_locked = sp[j].is_locked /\ t[j].queue = sp[j].queue
                      /\ t[j].allowed_processes = IF j = i THEN s ELSE sp[j].allowed_processes
                      /\ j # i => t[j] = sp[j]

\* is_locked of slot i is assigned.
LEMMA SetLock ==
  ASSUME NEW sp \in Table, NEW i \in Slots, NEW b \in BOOLEAN
  PROVE  Relocked(sp, [sp EXCEPT ![i].is_locked = b], i)
  BY DEF Relocked, Table, Semaphore

\* The waiters of slot i are assigned.
LEMMA SetQueue ==
  ASSUME NEW sp \in Table, NEW i \in Slots, NEW q \in Seq(Pids)
  PROVE  Requeued(sp, [sp EXCEPT ![i].queue = q], i, q)
  BY DEF Requeued, Table, Semaphore

\* The openers of slot i are assigned.
LEMMA SetAllowed ==
  ASSUME NEW sp \in Table, NEW i \in Slots, NEW s \in Seq(Pids \cup {NOBODY})
  PROVE  Reallowed(sp, [sp EXCEPT ![i].allowed_processes = s], i, s)
  BY DEF Reallowed, Table, Semaphore

\* The whole slot i is assigned.
LEMMA SetSlot ==
  ASSUME NEW sp \in Table, NEW i \in Slots, NEW x \in Semaphore
  PROVE  LET t == [sp EXCEPT ![i] = x]
         IN  t \in Table /\ \A j \in Slots : t[j] = IF j = i THEN x ELSE sp[j]
  BY DEF Table

\* The types of a slot's fields.
LEMMA SlotTypes ==
  ASSUME NEW sp \in Table, NEW i \in Slots
  PROVE  /\ sp[i] \in Semaphore /\ sp[i].status \in {"AVAILABLE", "UNAVAILABLE"}
         /\ sp[i].identifier \in Names \cup {0} /\ sp[i].is_locked \in BOOLEAN
         /\ sp[i].queue \in Seq(Pids) /\ sp[i].allowed_processes \in Seq(Pids \cup {NOBODY})
  BY DEF Table, Semaphore

\* A free and a freshly opened slot are well typed.
LEMMA NewSlots ==
  /\ AVAILABLE \in Semaphore
  /\ \A n \in Names, v \in {0, 1}, c \in Pids \cup {NOBODY} : Opened(n, v, c) \in Semaphore
<1>1. \A T : <<>> \in Seq(T) /\ \A x \in T : <<x>> \in Seq(T)
  OBVIOUS
<1>2. AVAILABLE \in Semaphore
  BY <1>1 DEF AVAILABLE, Semaphore
<1>3. \A n \in Names, v \in {0, 1}, c \in Pids \cup {NOBODY} : Opened(n, v, c) \in Semaphore
  BY <1>1 DEF Opened, Semaphore
<1>. QED  BY <1>2, <1>3

\* The part of a queue that is woken and the part that stays.
LEMMA SplitQueue ==
  ASSUME NEW q \in Seq(Pids)
  PROVE  /\ First(q) \in Seq(Pids) /\ Rest(q) \in Seq(Pids)
         /\ Members(First(q)) \subseteq Members(q) /\ Members(Rest(q)) \subseteq Members(q)
         /\ Members(q) \subseteq Members(First(q)) \cup Members(Rest(q))
         /\ Members(q) # {} => Members(First(q)) # {}
         /\ Once(q) => Once(Rest(q)) /\ Members(First(q)) \cap Members(Rest(q)) = {}
<1>. DEFINE w == Woken(q)
            n == Len(q)
<1>1. n \in Nat /\ w \in 0 .. n /\ (n > 0 => w > 0)
  BY DEF Woken
<1>. HIDE DEF w, n
<1>2. First(q) \in Seq(Pids) /\ Len(First(q)) = w /\ \A m \in 1 .. w : First(q)[m] = q[m]
  BY <1>1 DEF First, w, n
<1>3. Rest(q) \in Seq(Pids) /\ Len(Rest(q)) = n - w /\ \A m \in 1 .. (n - w) : Rest(q)[m] = q[m + w]
  BY <1>1 DEF Rest, w, n
<1>4. Members(First(q)) \subseteq Members(q)
  BY <1>1, <1>2 DEF Members, n
<1>5. Members(Rest(q)) \subseteq Members(q)
  <2>1. \A m \in 1 .. (n - w) : m + w \in 1 .. n
    BY <1>1
  <2>. QED  BY <1>3, <2>1 DEF Members, n
<1>6. Members(q) \subseteq Members(First(q)) \cup Members(Rest(q))
  <2>. SUFFICES ASSUME NEW m \in 1 .. n PROVE q[m] \in Members(First(q)) \cup Members(Rest(q))
    BY DEF Members, n
  <2>1. CASE m =< w
    BY <1>1, <1>2, <2>1 DEF Members
  <2>2. CASE m > w
    <3>1. m - w \in 1 .. (n - w) /\ (m - w) + w = m
      BY <1>1, <2>2
    <3>. QED  BY <1>3, <3>1 DEF Members
  <2>. QED  BY <1>1, <2>1, <2>2
<1>7. Members(q) # {} => Members(First(q)) # {}
  <2>. SUFFICES ASSUME Members(q) # {} PROVE Members(First(q)) # {}
    OBVIOUS
  <2>1. n > 0
    BY <1>1 DEF Members, n
  <2>2. 1 \in 1 .. w
    BY <1>1, <2>1
  <2>. QED  BY <1>2, <2>2 DEF Members
<1>8. ASSUME Once(q) PROVE Once(Rest(q)) /\ Members(First(q)) \cap Members(Rest(q)) = {}
  <2>1. \A m \in 1 .. (n - w) : m + w \in 1 .. n /\ m + w > w
    BY <1>1
  <2>2. \A m \in 1 .. w : m \in 1 .. n /\ m =< w
    BY <1>1
  <2>3. \A m, k \in 1 .. n : q[m] = q[k] => m = k
    BY <1>8 DEF Once, n
  <2>4. Once(Rest(q))
    <3>. SUFFICES ASSUME NEW m \in 1 .. (n - w), NEW k \in 1 .. (n - w), Rest(q)[m] = Rest(q)[k]
                  PROVE  m = k
      BY <1>3 DEF Once
    <3>1. m + w = k + w
      BY <1>3, <2>1, <2>3
    <3>. QED  BY <1>1, <3>1
  <2>5. Members(First(q)) \cap Members(Rest(q)) = {}
    <3>. SUFFICES ASSUME NEW m \in 1 .. w, NEW k \in 1 .. (n - w), First(q)[m] = Rest(q)[k]
                  PROVE  FALSE
      BY <1>2, <1>3 DEF Members
    <3>1. m = k + w
      BY <1>2, <1>3, <2>1, <2>2, <2>3
    <3>. QED  BY <1>1, <2>1, <2>2, <3>1
  <2>. QED  BY <2>4, <2>5
<1>. QED  BY <1>2, <1>3, <1>4, <1>5, <1>6, <1>7, <1>8

-----------------------------------------------------------------------------
(* The loop of my_sem_close. *)

\* Processes of the array: pids, and entries crossed out.
Entries == Pids \cup {NOBODY}

\* One round, on the array a at index i.
Strike(a, i, p) == IF i =< Len(a) /\ a[i] = p
                     THEN SubSeq([a EXCEPT ![i] = NOBODY], 1, Len(a) - 1) ELSE a

Round(allowed, p, f, n) == IF n = 0 THEN allowed ELSE Strike(f[n - 1], n, p)

\* x still stands in the array, or an entry crossed out that keeps it from being empty.
Stands(x, a) == Members(a) \cap {x, NOBODY} # {}

\* A round never takes out the last entry that stands for somebody else.
LEMMA StrikeKeeps ==
  ASSUME NEW a \in Seq(Entries), NEW i \in Nat, i >= 1, NEW p \in Pids
  PROVE  /\ Strike(a, i, p) \in Seq(Entries)
         /\ \A x \in Pids : x # p /\ Stands(x, a) => Stands(x, Strike(a, i, p))
<1>1. CASE ~(i =< Len(a) /\ a[i] = p)
  BY <1>1 DEF Strike
<1>2. CASE i =< Len(a) /\ a[i] = p
  <2>. DEFINE e == [a EXCEPT ![i] = NOBODY]
              r == SubSeq(e, 1, Len(a) - 1)
              n == Len(a)
  <2>1. n \in Nat /\ i \in 1 .. n
    BY <1>2
  <2>2. e \in Seq(Entries) /\ Len(e) = n /\ \A m \in 1 .. n : e[m] = IF m = i THEN NOBODY ELSE a[m]
    <3>1. NOBODY \in Entries
      BY DEF Entries
    <3>. QED  BY <2>1, <3>1
  <2>. HIDE DEF e
  <2>3. r \in Seq(Entries) /\ Len(r) = n - 1 /\ \A m \in 1 .. (n - 1) : r[m] = e[m]
    BY <2>1, <2>2
  <2>4. Strike(a, i, p) = r
    BY <1>2 DEF Strike, e
  <2>. HIDE DEF r
  <2>5. ASSUME NEW x \in Pids, x # p, Stands(x, a) PROVE Stands(x, r)
    <3>1. p # NOBODY
      BY KernelConstants
    <3>2. CASE i < n
      <4>1. i \in 1 .. (n - 1) /\ r[i] = NOBODY
        BY <2>1, <2>2, <2>3, <3>2
      <4>. QED  BY <2>3, <4>1 DEF Stands, Members
    <3>3. CASE i = n
      <4>1. PICK m \in 1 .. n : a[m] \in {x, NOBODY}
        BY <2>5 DEF Stands, Members, n
      <4>2. m # n
        BY <1>2, <2>5, <3>1, <3>3, <4>1
      <4>3. m \in 1 .. (n - 1) /\ r[m] = a[m]
        BY <2>1, <2>2, <2>3, <3>3, <4>2
      <4>. QED  BY <2>3, <4>1, <4>3 DEF Stands, Members
    <3>. QED  BY <2>1, <3>2, <3>3
  <2>. QED  BY <2>3, <2>4, <2>5
<1>. QED  BY <1>1, <1>2

\* The recursion that defines CrossOut has a solution.
LEMMA RoundsExist ==
  ASSUME NEW a \in Seq(Entries), NEW p \in Pids
  PROVE  \E f : f = [n \in 0 .. Len(a) |-> Round(a, p, f, n)]
<1>. DEFINE P(m) == \E f \in [0 .. m -> Seq(Entries)] :
                       \A n \in 0 .. m : f[n] = Round(a, p, f, n)
            Bad == {m \in 0 .. Len(a) : ~P(m)}
<1>1. Len(a) \in Nat
  OBVIOUS
<1>2. Bad = {}
  <2>1. SUFFICES ASSUME Bad # {} PROVE FALSE
    OBVIOUS
  <2>. DEFINE m == Smallest(Bad)
  <2>2. m \in Bad /\ \A j \in Bad : m =< j
    <3>1. Bad \subseteq Nat
      BY <1>1
    <3>. HIDE DEF Bad
    <3>. QED  BY <2>1, <3>1, SmallestExists
  <2>3. m \in 0 .. Len(a) /\ ~P(m)
    BY <2>2
  <2>. HIDE DEF m
  <2>4. m # 0
    <3>. DEFINE z == [n \in 0 .. 0 |-> a]
    <3>1. z \in [0 .. 0 -> Seq(Entries)] /\ z[0] = a
      OBVIOUS
    <3>2. \A n \in 0 .. 0 : z[n] = Round(a, p, z, n)
      BY <3>1 DEF Round
    <3>. HIDE DEF z
    <3>3. P(0)
      BY <3>1, <3>2
    <3>. QED  BY <2>3, <3>3
  <2>5. P(m - 1)
    <3>1. m - 1 \in 0 .. Len(a) /\ ~(m =< m - 1)
      BY <1>1, <2>3, <2>4
    <3>2. m - 1 \notin Bad
      BY <2>2, <3>1
    <3>. QED  BY <3>1, <3>2
  <2>6. PICK f \in [0 .. (m - 1) -> Seq(Entries)] : \A n \in 0 .. (m - 1) : f[n] = Round(a, p, f, n)
    BY <2>5
  <2>. DEFINE g == [n \in 0 .. m |-> IF n = m THEN Round(a, p, f, m) ELSE f[n]]
  <2>7. m \in Nat /\ m >= 1 /\ f[m - 1] \in Seq(Entries)
    BY <1>1, <2>3, <2>4, <2>6
  <2>8. Round(a, p, f, m) \in Seq(Entries)
    BY <2>7, StrikeKeeps DEF Round
  <2>9. g \in [0 .. m -> Seq(Entries)]
    BY <2>6, <2>7, <2>8
  <2>10. ASSUME NEW n \in 0 .. m PROVE g[n] = Round(a, p, g, n)
    <3>1. CASE n = m
      <4>1. g[m] = Round(a, p, f, m) /\ g[m - 1] = f[m - 1]
        BY <2>7
      <4>. QED  BY <2>7, <3>1, <4>1 DEF Round
    <3>2. CASE n # m
      <4>1. n \in 0 .. (m - 1) /\ g[n] = f[n] /\ (n # 0 => g[n - 1] = f[n - 1])
        BY <2>7, <3>2
      <4>2. f[n] = Round(a, p, f, n)
        BY <2>6, <4>1
      <4>. HIDE DEF g
      <4>. QED  BY <4>1, <4>2 DEF Round
    <3>. QED  BY <3>1, <3>2
  <2>11. P(m)
    <3>. HIDE DEF g
    <3>. QED  BY <2>9, <2>10
  <2>. QED  BY <2>3, <2>11
<1>3. P(Len(a))
  <2>1. Len(a) \in 0 .. Len(a)
    BY <1>1
  <2>2. Len(a) \notin Bad
    <3>. HIDE DEF Bad
    <3>. QED  BY <1>2
  <2>. HIDE DEF P
  <2>. QED  BY <2>1, <2>2
<1>4. PICK f \in [0 .. Len(a) -> Seq(Entries)] : \A n \in 0 .. Len(a) : f[n] = Round(a, p, f, n)
  BY <1>3
<1>5. f = [n \in 0 .. Len(a) |-> Round(a, p, f, n)]
  BY <1>4
<1>. QED  BY <1>5

\* Closing never empties the array of a semaphore that somebody else has open.
LEMMA CrossOutKeeps ==
  ASSUME NEW a \in Seq(Entries), NEW p \in Pids
  PROVE  /\ CrossOut(a, p) \in Seq(Entries)
         /\ \A x \in Pids : x # p /\ Stands(x, a) => Stands(x, CrossOut(a, p))
<1>. DEFINE f == CHOOSE f : f = [n \in 0 .. Len(a) |-> Round(a, p, f, n)]
            Ok(n) == /\ f[n] \in Seq(Entries)
                     /\ \A x \in Pids : x # p /\ Stands(x, a) => Stands(x, f[n])
            Bad == {n \in 0 .. Len(a) : ~Ok(n)}
<1>1. Len(a) \in Nat
  OBVIOUS
<1>2. f = [n \in 0 .. Len(a) |-> Round(a, p, f, n)]
  BY RoundsExist
<1>3. CrossOut(a, p) = f[Len(a)]
  BY DEF CrossOut, Round, Strike
<1>. HIDE DEF f
<1>4. \A n \in 0 .. Len(a) : f[n] = Round(a, p, f, n)
  BY <1>2
<1>5. Bad = {}
  <2>1. SUFFICES ASSUME Bad # {} PROVE FALSE
    OBVIOUS
  <2>. DEFINE m == Smallest(Bad)
  <2>2. m \in Bad /\ \A j \in Bad : m =< j
    <3>1. Bad \subseteq Nat
      BY <1>1
    <3>. HIDE DEF Bad
    <3>. QED  BY <2>1, <3>1, SmallestExists
  <2>3. m \in 0 .. Len(a) /\ ~Ok(m)
    BY <2>2
  <2>. HIDE DEF m
  <2>4. m # 0
    <3>1. f[0] = a
      BY <1>1, <1>4 DEF Round
    <3>. QED  BY <2>3, <3>1
  <2>5. m - 1 \in 0 .. Len(a) /\ m \in Nat /\ m >= 1 /\ ~(m =< m - 1)
    BY <1>1, <2>3, <2>4
  <2>6. Ok(m - 1)
    <3>1. m - 1 \notin Bad
      BY <2>2, <2>5
    <3>. QED  BY <2>5, <3>1
  <2>7. f[m] = Strike(f[m - 1], m, p)
    BY <1>4, <2>3, <2>4 DEF Round
  <2>8. Ok(m)
    BY <2>5, <2>6, <2>7, StrikeKeeps
  <2>. QED  BY <2>3, <2>8
<1>6. Ok(Len(a))
  <2>1. Len(a) \in 0 .. Len(a)
    BY <1>1
  <2>2. Len(a) \notin Bad
    <3>. HIDE DEF Bad
    <3>. QED  BY <1>5
  <2>. HIDE DEF Ok
  <2>. QED  BY <2>1, <2>2
<1>. QED  BY <1>3, <1>6

-----------------------------------------------------------------------------
(* Who holds and who waits, in a table sp with places a and holders h. *)

Place == [op : {"user", "wait", "unlock", "wake", "die", "remove", "finish"},
          name : Names \cup {0}, slot : Slots \cup {0}]

KindsOK(sp, a, h) == /\ sp \in Table /\ a \in [Pids -> Place] /\ h \in [Pids -> SUBSET SemNames]
                     /\ \A i \in Slots : sp[i].status = "AVAILABLE" => sp[i] = AVAILABLE
                     /\ \A p \in Pids : a[p].op = "wake" => a[p].slot \in Slots

\* No two slots have the same name.
OneSlot(sp) ==
  \A i, j \in Slots : Busy(sp, i) /\ Busy(sp, j) /\ sp[i].identifier = sp[j].identifier => i = j

\* A waiter's slot has the name it waits for, and cannot be closed under it.
WaitersStand(sp, a) ==
  \A p \in Pids : a[p].op = "wait" =>
     LET i == a[p].slot
     IN  /\ a[p].name \in SemNames /\ i \in Slots /\ Busy(sp, i)
         /\ sp[i].identifier = a[p].name /\ Stands(p, sp[i].allowed_processes)

\* What a process holds is locked, and cannot be closed under it.
HoldersStand(sp, h) ==
  \A p \in Pids : \A n \in h[p] : \E i \in Slots :
     /\ Busy(sp, i) /\ sp[i].identifier = n /\ sp[i].is_locked
     /\ Stands(p, sp[i].allowed_processes)

Exclusive(h) == \A p, q \in Pids : p # q => h[p] \cap h[q] = {}

Guarded(sp, a, h) == /\ KindsOK(sp, a, h) /\ OneSlot(sp) /\ WaitersStand(sp, a)
                     /\ HoldersStand(sp, h) /\ Exclusive(h)

\* Slots keep their names, entries and, where clients may hold them, their locks.
SameSlots(sp, t) ==
  /\ t \in Table
  /\ \A i \in Slots : /\ t[i].status = sp[i].status /\ t[i].identifier = sp[i].identifier
                      /\ t[i].allowed_processes = sp[i].allowed_processes
                      /\ sp[i].identifier \in SemNames => t[i].is_locked = sp[i].is_locked
                      /\ t[i].status = "AVAILABLE" => t[i] = AVAILABLE

\* A table with the same slots is guarded when the first is.
LEMMA SameSlotsGuarded ==
  ASSUME NEW sp, NEW a, NEW h, Guarded(sp, a, h), NEW t, SameSlots(sp, t)
  PROVE  Guarded(t, a, h)
<1>1. KindsOK(t, a, h)
  BY DEF Guarded, KindsOK, SameSlots
<1>2. OneSlot(t)
  BY DEF Guarded, OneSlot, SameSlots, Busy
<1>3. WaitersStand(t, a)
  BY DEF Guarded, WaitersStand, SameSlots, Busy
<1>4. HoldersStand(t, h)
  <2>1. \A p \in Pids : h[p] \subseteq SemNames
    BY DEF Guarded, KindsOK
  <2>. QED  BY <2>1 DEF Guarded, HoldersStand, SameSlots, Busy
<1>. QED  BY <1>1, <1>2, <1>3, <1>4 DEF Guarded

\* A process moves on to a place where it does not wait.
LEMMA MovesOnGuarded ==
  ASSUME NEW sp, NEW a, NEW h, Guarded(sp, a, h), NEW c \in Pids,
         NEW x \in Place, x.op # "wait", x.op = "wake" => x.slot \in Slots
  PROVE  Guarded(sp, [a EXCEPT ![c] = x], h)
<1>. DEFINE b == [a EXCEPT ![c] = x]
<1>1. b \in [Pids -> Place] /\ \A p \in Pids : b[p] = IF p = c THEN x ELSE a[p]
  BY DEF Guarded, KindsOK
<1>. HIDE DEF b
<1>2. KindsOK(sp, b, h)
  BY <1>1 DEF Guarded, KindsOK
<1>3. WaitersStand(sp, b)
  BY <1>1 DEF Guarded, WaitersStand
<1>4. Guarded(sp, b, h)
  BY <1>2, <1>3 DEF Guarded
<1>. QED  BY <1>4 DEF b

\* Opening a semaphore, a client's or the one of a new process.
LEMMA OpenGuarded ==
  ASSUME NEW sp, NEW a, NEW h, Guarded(sp, a, h), NEW n \in Names, NEW v \in {0, 1}, NEW c \in Pids
  PROVE  Guarded(OpenTable(sp, v, n, c), a, h)
<1>. DEFINE i == Slot(sp, n)
            free == {j \in Slots : sp[j].status = "AVAILABLE"}
            t == OpenTable(sp, v, n, c)
<1>0. sp \in Table
  BY DEF Guarded, KindsOK
<1>1. CASE i # NOT_FOUND
  <2>. DEFINE s == Append(sp[i].allowed_processes, c)
              u == [sp EXCEPT ![i].allowed_processes = s]
  <2>1. i \in Slots /\ t = u
    BY <1>1, SlotFacts DEF OpenTable
  <2>. HIDE DEF i
  <2>2. sp[i].allowed_processes \in Seq(Pids \cup {NOBODY})
    BY <1>0, <2>1, SlotTypes
  <2>3. s \in Seq(Pids \cup {NOBODY}) /\ Members(s) = Members(sp[i].allowed_processes) \cup {c}
    BY <2>2, MembersAppend
  <2>. HIDE DEF s, t
  <2>4. /\ t \in Table
        /\ \A j \in Slots : /\ t[j].status = sp[j].status /\ t[j].identifier = sp[j].identifier
                            /\ t[j].is_locked = sp[j].is_locked /\ t[j].queue = sp[j].queue
                            /\ t[j].allowed_processes = IF j = i THEN s ELSE sp[j].allowed_processes
                            /\ j # i => t[j] = sp[j]
    <3>1. Reallowed(sp, u, i, s)
      BY <1>0, <2>1, <2>3, SetAllowed
    <3>. HIDE DEF u
    <3>2. Reallowed(sp, t, i, s)
      BY <2>1, <3>1
    <3>. QED  BY <3>2 DEF Reallowed
  <2>5. sp[i].status = "UNAVAILABLE"
    BY <1>1, SlotFacts DEF Busy, i
  <2>6. \A x, j : j \in Slots /\ Stands(x, sp[j].allowed_processes) => Stands(x, t[j].allowed_processes)
    BY <2>3, <2>4 DEF Stands
  <2>7. KindsOK(t, a, h)
    BY <2>4, <2>5 DEF Guarded, KindsOK
  <2>8. OneSlot(t)
    BY <2>4 DEF Guarded, OneSlot, Busy
  <2>9. WaitersStand(t, a)
    BY <2>4, <2>6 DEF Guarded, WaitersStand, Busy
  <2>10. HoldersStand(t, h)
    <3>. SUFFICES ASSUME NEW p \in Pids, NEW m \in h[p]
                  PROVE  \E j \in Slots : /\ Busy(t, j) /\ t[j].identifier = m /\ t[j].is_locked
                                          /\ Stands(p, t[j].allowed_processes)
      BY DEF HoldersStand
    <3>1. PICK j \in Slots : /\ Busy(sp, j) /\ sp[j].identifier = m /\ sp[j].is_locked
                             /\ Stands(p, sp[j].allowed_processes)
      BY DEF Guarded, HoldersStand
    <3>2. Stands(p, t[j].allowed_processes)
      BY <2>6, <3>1
    <3>. QED  BY <2>4, <3>1, <3>2 DEF Busy
  <2>. QED  BY <2>7, <2>8, <2>9, <2>10 DEF Guarded, t
<1>2. CASE i = NOT_FOUND /\ free # {}
  <2>. DEFINE j == Smallest(free)
              x == Opened(n, v, c)
              u == [sp EXCEPT ![j] = x]
  <2>1. j \in free
    <3>1. free \subseteq Nat
      BY KernelConstants
    <3>. HIDE DEF free
    <3>. QED  BY <1>2, <3>1, SmallestExists
  <2>2. t = u
    BY <1>2 DEF OpenTable
  <2>3. x \in Semaphore /\ x.identifier = n /\ x.status = "UNAVAILABLE"
    BY NewSlots DEF Opened
  <2>4. j \in Slots /\ sp[j].status = "AVAILABLE"
    BY <2>1
  <2>. HIDE DEF x, j, t
  <2>5. t \in Table /\ \A m \in Slots : t[m] = IF m = j THEN x ELSE sp[m]
    <3>1. u \in Table /\ \A m \in Slots : u[m] = IF m = j THEN x ELSE sp[m]
      BY <1>0, <2>3, <2>4, SetSlot
    <3>. HIDE DEF u
    <3>. QED  BY <2>2, <3>1
  <2>6. \A m \in Slots : ~(Busy(sp, m) /\ sp[m].identifier = n)
    BY <1>2, SlotFacts
  <2>. HIDE DEF i, free
  <2>7. \A m \in Slots : Busy(sp, m) => t[m] = sp[m]
    BY <2>4, <2>5 DEF Busy
  <2>8. KindsOK(t, a, h)
    BY <2>3, <2>5 DEF Guarded, KindsOK
  <2>9. OneSlot(t)
    BY <2>3, <2>5, <2>6 DEF Guarded, OneSlot, Busy
  <2>10. WaitersStand(t, a)
    BY <2>7 DEF Guarded, WaitersStand, Busy
  <2>11. HoldersStand(t, h)
    <3>. SUFFICES ASSUME NEW p \in Pids, NEW m \in h[p]
                  PROVE  \E k \in Slots : /\ Busy(t, k) /\ t[k].identifier = m /\ t[k].is_locked
                                          /\ Stands(p, t[k].allowed_processes)
      BY DEF HoldersStand
    <3>1. PICK k \in Slots : /\ Busy(sp, k) /\ sp[k].identifier = m /\ sp[k].is_locked
                             /\ Stands(p, sp[k].allowed_processes)
      BY DEF Guarded, HoldersStand
    <3>2. t[k] = sp[k]
      BY <2>7, <3>1
    <3>. QED  BY <3>1, <3>2 DEF Busy
  <2>. QED  BY <2>8, <2>9, <2>10, <2>11 DEF Guarded, t
<1>3. CASE i = NOT_FOUND /\ free = {}
  <2>1. t = sp
    BY <1>3 DEF OpenTable
  <2>. QED  BY <2>1
<1>. QED  BY <1>1, <1>2, <1>3

\* Closing by a process that neither holds nor waits for the semaphore.
LEMMA CloseGuarded ==
  ASSUME NEW sp, NEW a, NEW h, Guarded(sp, a, h), NEW n \in Names, NEW c \in Pids,
         n \notin h[c], a[c].op # "wait"
  PROVE  Guarded(CloseTable(sp, n, c), a, h)
<1>. DEFINE i == Slot(sp, n)
            s == CrossOut(sp[i].allowed_processes, c)
            t == CloseTable(sp, n, c)
<1>0. sp \in Table
  BY DEF Guarded, KindsOK
<1>1. CASE i = NOT_FOUND
  <2>1. t = sp
    BY <1>1 DEF CloseTable
  <2>. QED  BY <2>1
<1>2. CASE i # NOT_FOUND
  <2>1. i \in Slots /\ Busy(sp, i) /\ sp[i].identifier = n
    BY <1>2, SlotFacts
  <2>. DEFINE u == [sp EXCEPT ![i] = AVAILABLE]
              w == [sp EXCEPT ![i].allowed_processes = s]
  <2>2. t = IF s = <<>> THEN u ELSE w
    BY <1>2 DEF CloseTable
  <2>. HIDE DEF i, t
  <2>3. sp[i].allowed_processes \in Seq(Entries)
    BY <1>0, <2>1, SlotTypes DEF Entries
  <2>4. /\ s \in Seq(Entries)
        /\ \A x \in Pids : x # c /\ Stands(x, sp[i].allowed_processes) => Stands(x, s)
    BY <2>3, CrossOutKeeps
  <2>. HIDE DEF s
  <2>5. \A x \in Pids : x # c /\ Stands(x, sp[i].allowed_processes) => s # <<>>
    <3>1. \A x : ~Stands(x, <<>>)
      BY DEF Stands, Members
    <3>. QED  BY <2>4, <3>1
  <2>6. \A x \in Pids : a[x].op = "wait" => x # c
    OBVIOUS
  <2>7. CASE s = <<>>
    <3>1. t \in Table /\ \A j \in Slots : t[j] = IF j = i THEN AVAILABLE ELSE sp[j]
      <4>1. u \in Table /\ \A j \in Slots : u[j] = IF j = i THEN AVAILABLE ELSE sp[j]
        BY <1>0, <2>1, NewSlots, SetSlot
      <4>. HIDE DEF u
      <4>. QED  BY <2>2, <2>7, <4>1
    <3>2. AVAILABLE.status # "UNAVAILABLE"
      BY DEF AVAILABLE
    <3>3. KindsOK(t, a, h)
      BY <3>1 DEF Guarded, KindsOK
    <3>4. OneSlot(t)
      BY <3>1, <3>2 DEF Guarded, OneSlot, Busy
    <3>5. WaitersStand(t, a)
      <4>1. \A p \in Pids : a[p].op = "wait" => a[p].slot # i
        BY <2>5, <2>7 DEF Guarded, WaitersStand
      <4>. QED  BY <3>1, <4>1 DEF Guarded, WaitersStand, Busy
    <3>6. HoldersStand(t, h)
      <4>. SUFFICES ASSUME NEW p \in Pids, NEW m \in h[p]
                    PROVE  \E k \in Slots : /\ Busy(t, k) /\ t[k].identifier = m /\ t[k].is_locked
                                            /\ Stands(p, t[k].allowed_processes)
        BY DEF HoldersStand
      <4>1. PICK k \in Slots : /\ Busy(sp, k) /\ sp[k].identifier = m /\ sp[k].is_locked
                               /\ Stands(p, sp[k].allowed_processes)
        BY DEF Guarded, HoldersStand
      <4>2. k # i
        BY <2>1, <2>5, <2>7, <4>1
      <4>3. t[k] = sp[k]
        BY <3>1, <4>2
      <4>. QED  BY <4>1, <4>3 DEF Busy
    <3>. QED  BY <3>3, <3>4, <3>5, <3>6 DEF Guarded, t
  <2>8. CASE s # <<>>
    <3>1. t = w
      BY <2>2, <2>8
    <3>2. /\ t \in Table
          /\ \A j \in Slots : /\ t[j].status = sp[j].status /\ t[j].identifier = sp[j].identifier
                              /\ t[j].is_locked = sp[j].is_locked /\ t[j].queue = sp[j].queue
                              /\ t[j].allowed_processes = IF j = i THEN s ELSE sp[j].allowed_processes
                              /\ j # i => t[j] = sp[j]
      <4>1. i \in Slots /\ s \in Seq(Pids \cup {NOBODY})
        BY <2>1, <2>4 DEF Entries
      <4>2. Reallowed(sp, w, i, s)
        BY <1>0, <4>1, SetAllowed
      <4>. HIDE DEF w
      <4>3. Reallowed(sp, t, i, s)
        BY <3>1, <4>2
      <4>. QED  BY <4>3 DEF Reallowed
    <3>3. \A x \in Pids, j \in Slots : x # c /\ Stands(x, sp[j].allowed_processes) => Stands(x, t[j].allowed_processes)
      BY <2>4, <3>2
    <3>4. KindsOK(t, a, h)
      BY <2>1, <3>2 DEF Guarded, KindsOK, Busy
    <3>5. OneSlot(t)
      BY <3>2 DEF Guarded, OneSlot, Busy
    <3>6. WaitersStand(t, a)
      BY <3>2, <3>3 DEF Guarded, WaitersStand, Busy
    <3>7. HoldersStand(t, h)
      <4>. SUFFICES ASSUME NEW p \in Pids, NEW m \in h[p]
                    PROVE  \E k \in Slots : /\ Busy(t, k) /\ t[k].identifier = m /\ t[k].is_locked
                                            /\ Stands(p, t[k].allowed_processes)
        BY DEF HoldersStand
      <4>1. PICK k \in Slots : /\ Busy(sp, k) /\ sp[k].identifier = m /\ sp[k].is_locked
                               /\ Stands(p, sp[k].allowed_processes)
        BY DEF Guarded, HoldersStand
      <4>2. Stands(p, t[k].allowed_processes)
        <5>1. CASE k = i
          BY <2>1, <3>3, <4>1, <5>1
        <5>2. CASE k # i
          BY <3>2, <4>1, <5>2
        <5>. QED  BY <5>1, <5>2
      <4>. QED  BY <3>2, <4>1, <4>2 DEF Busy
    <3>. QED  BY <3>4, <3>5, <3>6, <3>7 DEF Guarded, t
  <2>. QED  BY <2>7, <2>8
<1>. QED  BY <1>1, <1>2

\* The table after the semaphore of slot i is opened.
LEMMA UnlockFacts ==
  ASSUME NEW sp \in Table, NEW i \in Slots
  PROVE  Relocked(sp, UnlockTable(sp, i), i) /\ ~UnlockTable(sp, i)[i].is_locked
<1>. DEFINE t == [sp EXCEPT ![i].is_locked = FALSE]
<1>1. Relocked(sp, t, i)
  BY SetLock
<1>2. ~t[i].is_locked
  BY DEF Table, Semaphore
<1>3. UnlockTable(sp, i) = t
  BY DEF UnlockTable
<1>. HIDE DEF t
<1>. QED  BY <1>1, <1>2, <1>3

\* t is sp after a post of n, whose slot is i; W are the processes woken.
Posted(sp, n, i, t, W) ==
  /\ i \in Slots /\ Busy(sp, i) /\ sp[i].identifier = n /\ t \in Table
  /\ W = Members(First(sp[i].queue))
  /\ \A j \in Slots : /\ t[j].status = sp[j].status
                      /\ t[j].identifier = sp[j].identifier
                      /\ t[j].allowed_processes = sp[j].allowed_processes
                      /\ t[j].queue = IF j = i THEN Rest(sp[i].queue) ELSE sp[j].queue
                      /\ j # i => t[j] = sp[j]
  /\ ~t[i].is_locked

\* The table after a post, and whom the post wakes.
LEMMA PostFacts ==
  ASSUME NEW sp \in Table, NEW n
  PROVE  /\ Slot(sp, n) = NOT_FOUND => PostTable(sp, n) = sp /\ PostWakes(sp, n) = {}
         /\ Slot(sp, n) # NOT_FOUND => Posted(sp, n, Slot(sp, n), PostTable(sp, n), PostWakes(sp, n))
<1>. DEFINE i == Slot(sp, n)
            u == UnlockTable(sp, i)
            t == PostTable(sp, n)
<1>1. CASE i = NOT_FOUND
  BY <1>1 DEF PostTable, PostWakes
<1>2. CASE i # NOT_FOUND
  <2>1. i \in Slots /\ Busy(sp, i) /\ sp[i].identifier = n
    BY <1>2, SlotFacts
  <2>2. t = WakeTable(u, i) /\ PostWakes(sp, n) = Members(First(u[i].queue))
    BY <1>2 DEF PostTable, PostWakes
  <2>. HIDE DEF i, t
  <2>3. /\ u \in Table
        /\ \A j \in Slots : /\ u[j].status = sp[j].status /\ u[j].identifier = sp[j].identifier
                            /\ u[j].queue = sp[j].queue
                            /\ u[j].allowed_processes = sp[j].allowed_processes
                            /\ j # i => u[j] = sp[j]
        /\ ~u[i].is_locked
    <3>1. Relocked(sp, u, i) /\ ~u[i].is_locked
      BY <2>1, UnlockFacts
    <3>. HIDE DEF u
    <3>. QED  BY <3>1 DEF Relocked
  <2>. HIDE DEF u
  <2>. DEFINE q == Rest(u[i].queue)
              v == [u EXCEPT ![i].queue = q]
  <2>4. WakeTable(u, i) = v
    BY DEF WakeTable
  <2>5. q \in Seq(Pids)
    BY <2>1, <2>3, SlotTypes, SplitQueue
  <2>. HIDE DEF q
  <2>6a. Requeued(u, v, i, q)
    BY <2>1, <2>3, <2>5, SetQueue
  <2>. HIDE DEF v
  <2>6. /\ v \in Table
        /\ \A j \in Slots : /\ v[j].status = u[j].status /\ v[j].identifier = u[j].identifier
                            /\ v[j].is_locked = u[j].is_locked
                            /\ v[j].allowed_processes = u[j].allowed_processes
                            /\ v[j].queue = IF j = i THEN q ELSE u[j].queue
                            /\ j # i => v[j] = u[j]
    BY <2>6a DEF Requeued
  <2>7. t = v
    BY <2>2, <2>4
  <2>8. /\ \A j \in Slots : v[j].status = sp[j].status /\ v[j].identifier = sp[j].identifier
        /\ \A j \in Slots : v[j].allowed_processes = sp[j].allowed_processes
        /\ \A j \in Slots : j # i => v[j] = sp[j]
    BY <2>3, <2>6
  <2>9. u[i].queue = sp[i].queue
    BY <2>1, <2>3
  <2>10. \A j \in Slots : v[j].queue = IF j = i THEN Rest(sp[i].queue) ELSE sp[j].queue
    <3>1. \A j \in Slots : u[j].queue = sp[j].queue /\ v[j].queue = IF j = i THEN q ELSE u[j].queue
      BY <2>3, <2>6
    <3>. QED  BY <2>9, <3>1 DEF q
  <2>11. ~v[i].is_locked
    BY <2>1, <2>3, <2>6
  <2>12. Posted(sp, n, i, v, Members(First(sp[i].queue)))
    BY <2>1, <2>6, <2>8, <2>10, <2>11 DEF Posted
  <2>. QED  BY <1>2, <2>2, <2>7, <2>9, <2>12 DEF i, t
<1>. QED  BY <1>1, <1>2

\* The table after the wake-up of an exit.
LEMMA WakeFacts ==
  ASSUME NEW sp \in Table, NEW i \in Slots
  PROVE  Requeued(sp, WakeTable(sp, i), i, Rest(sp[i].queue))
<1>. DEFINE q == Rest(sp[i].queue)
<1>1. q \in Seq(Pids)
  BY SlotTypes, SplitQueue
<1>2. WakeTable(sp, i) = [sp EXCEPT ![i].queue = q]
  BY DEF WakeTable
<1>. DEFINE t == WakeTable(sp, i)
            u == [sp EXCEPT ![i].queue = q]
<1>3. t = u
  BY <1>2
<1>. HIDE DEF q, t
<1>4. Requeued(sp, u, i, q)
  BY <1>1, SetQueue
<1>. HIDE DEF u
<1>. QED  BY <1>3, <1>4 DEF q, t

\* The holder posts.
LEMMA PostGuarded ==
  ASSUME NEW sp, NEW a, NEW h, Guarded(sp, a, h), NEW c \in Pids, NEW n \in SemNames, n \in h[c]
  PROVE  Guarded(PostTable(sp, n), a, [h EXCEPT ![c] = @ \ {n}])
<1>. DEFINE i == Slot(sp, n)
            t == PostTable(sp, n)
            g == [h EXCEPT ![c] = @ \ {n}]
<1>0. sp \in Table
  BY DEF Guarded, KindsOK
<1>1. i # NOT_FOUND
  BY SlotFacts DEF Guarded, HoldersStand
<1>2. /\ i \in Slots /\ Busy(sp, i) /\ sp[i].identifier = n /\ t \in Table
      /\ \A j \in Slots : /\ t[j].status = sp[j].status /\ t[j].identifier = sp[j].identifier
                          /\ t[j].allowed_processes = sp[j].allowed_processes
                          /\ j # i => t[j] = sp[j]
  <2>1. Posted(sp, n, i, t, PostWakes(sp, n))
    BY <1>0, <1>1, PostFacts
  <2>. HIDE DEF i, t
  <2>. QED  BY <2>1 DEF Posted
<1>3. /\ g \in [Pids -> SUBSET SemNames]
      /\ \A p \in Pids : g[p] = IF p = c THEN h[c] \ {n} ELSE h[p]
  BY DEF Guarded, KindsOK
<1>. HIDE DEF i, t, g
<1>4. KindsOK(t, a, g)
  BY <1>2, <1>3 DEF Guarded, KindsOK, Busy
<1>5. OneSlot(t)
  BY <1>2 DEF Guarded, OneSlot, Busy
<1>6. WaitersStand(t, a)
  BY <1>2 DEF Guarded, WaitersStand, Busy
<1>7. Exclusive(g)
  BY <1>3 DEF Guarded, Exclusive
<1>8. \A p \in Pids : n \notin g[p] /\ g[p] \subseteq h[p]
  BY <1>3 DEF Guarded, Exclusive
<1>9. HoldersStand(t, g)
  <2>. SUFFICES ASSUME NEW p \in Pids, NEW m \in g[p]
                PROVE  \E k \in Slots : /\ Busy(t, k) /\ t[k].identifier = m /\ t[k].is_locked
                                        /\ Stands(p, t[k].allowed_processes)
    BY DEF HoldersStand
  <2>1. PICK k \in Slots : /\ Busy(sp, k) /\ sp[k].identifier = m /\ sp[k].is_locked
                           /\ Stands(p, sp[k].allowed_processes)
    BY <1>8 DEF Guarded, HoldersStand
  <2>2. k # i
    BY <1>2, <1>8, <2>1
  <2>. QED  BY <1>2, <2>1, <2>2 DEF Busy
<1>. QED  BY <1>4, <1>5, <1>6, <1>7, <1>9 DEF Guarded, t, g

\* A process that stands in the array takes the lock.
LEMMA TakeGuarded ==
  ASSUME NEW sp, NEW a, NEW h, Guarded(sp, a, h), NEW c \in Pids, NEW n \in SemNames,
         NEW i \in Slots, Busy(sp, i), sp[i].identifier = n, ~sp[i].is_locked,
         Stands(c, sp[i].allowed_processes)
  PROVE  Guarded([sp EXCEPT ![i].is_locked = TRUE], [a EXCEPT ![c] = User],
                 [h EXCEPT ![c] = @ \cup {n}])
<1>. DEFINE t == [sp EXCEPT ![i].is_locked = TRUE]
            b == [a EXCEPT ![c] = User]
            g == [h EXCEPT ![c] = @ \cup {n}]
<1>0. sp \in Table
  BY DEF Guarded, KindsOK
<1>1. /\ t \in Table
      /\ \A j \in Slots : /\ t[j].status = sp[j].status /\ t[j].identifier = sp[j].identifier
                          /\ t[j].queue = sp[j].queue
                          /\ t[j].allowed_processes = sp[j].allowed_processes
                          /\ j # i => t[j] = sp[j]
  <2>1. Relocked(sp, t, i)
    BY <1>0, SetLock
  <2>. HIDE DEF t
  <2>. QED  BY <2>1 DEF Relocked
<1>1a. t[i].is_locked
  BY <1>0 DEF Table, Semaphore
<1>2. User \in Place /\ User.op = "user"
  BY DEF User, Place
<1>3. b \in [Pids -> Place] /\ \A p \in Pids : b[p] = IF p = c THEN User ELSE a[p]
  BY <1>2 DEF Guarded, KindsOK
<1>4. /\ g \in [Pids -> SUBSET SemNames]
      /\ \A p \in Pids : g[p] = IF p = c THEN h[c] \cup {n} ELSE h[p]
  BY DEF Guarded, KindsOK
<1>. HIDE DEF t, b, g
<1>5. \A p \in Pids : n \notin h[p]
  BY DEF Guarded, HoldersStand, OneSlot
<1>6. KindsOK(t, b, g)
  BY <1>1, <1>2, <1>3, <1>4 DEF Guarded, KindsOK, Busy
<1>7. OneSlot(t)
  BY <1>1 DEF Guarded, OneSlot, Busy
<1>8. WaitersStand(t, b)
  <2>. SUFFICES ASSUME NEW p \in Pids, b[p].op = "wait"
                PROVE  /\ b[p].name \in SemNames /\ b[p].slot \in Slots /\ Busy(t, b[p].slot)
                       /\ t[b[p].slot].identifier = b[p].name
                       /\ Stands(p, t[b[p].slot].allowed_processes)
    BY DEF WaitersStand
  <2>1. p # c /\ b[p] = a[p]
    BY <1>2, <1>3
  <2>2. /\ a[p].name \in SemNames /\ a[p].slot \in Slots /\ Busy(sp, a[p].slot)
        /\ sp[a[p].slot].identifier = a[p].name
        /\ Stands(p, sp[a[p].slot].allowed_processes)
    BY <2>1 DEF Guarded, WaitersStand
  <2>. QED  BY <1>1, <2>1, <2>2 DEF Busy
<1>9. Exclusive(g)
  BY <1>4, <1>5 DEF Guarded, Exclusive
<1>10. HoldersStand(t, g)
  <2>. SUFFICES ASSUME NEW p \in Pids, NEW m \in g[p]
                PROVE  \E k \in Slots : /\ Busy(t, k) /\ t[k].identifier = m /\ t[k].is_locked
                                        /\ Stands(p, t[k].allowed_processes)
    BY DEF HoldersStand
  <2>1. CASE m \in h[p]
    <3>1. PICK k \in Slots : /\ Busy(sp, k) /\ sp[k].identifier = m /\ sp[k].is_locked
                             /\ Stands(p, sp[k].allowed_processes)
      BY <2>1 DEF Guarded, HoldersStand
    <3>2. k # i
      BY <3>1
    <3>. QED  BY <1>1, <3>1, <3>2 DEF Busy
  <2>2. CASE m \notin h[p]
    <3>1. p = c /\ m = n
      BY <1>4, <2>2
    <3>. QED  BY <1>1, <1>1a, <3>1 DEF Busy
  <2>. QED  BY <2>1, <2>2
<1>. QED  BY <1>6, <1>7, <1>8, <1>9, <1>10 DEF Guarded, t, b, g

\* A process that stands in the array goes to sleep.
LEMMA SleepGuarded ==
  ASSUME NEW sp, NEW a, NEW h, Guarded(sp, a, h), NEW c \in Pids, NEW n \in SemNames,
         NEW i \in Slots, Busy(sp, i), sp[i].identifier = n, Stands(c, sp[i].allowed_processes)
  PROVE  Guarded([sp EXCEPT ![i].queue = Append(@, c)], [a EXCEPT ![c] = Waiting(n, i)], h)
<1>. DEFINE q == Append(sp[i].queue, c)
            t == [sp EXCEPT ![i].queue = Append(@, c)]
            u == [sp EXCEPT ![i].queue = q]
            w == Waiting(n, i)
            b == [a EXCEPT ![c] = w]
<1>0. sp \in Table
  BY DEF Guarded, KindsOK
<1>1. q \in Seq(Pids)
  BY <1>0, SlotTypes
<1>2. t = u
  OBVIOUS
<1>3. w \in Place /\ w.op = "wait" /\ w.name = n /\ w.slot = i
  BY DEF Waiting, Place, Names
<1>. HIDE DEF q, t, w
<1>4a. Requeued(sp, u, i, q)
  BY <1>0, <1>1, SetQueue
<1>. HIDE DEF u
<1>4. /\ u \in Table
      /\ \A j \in Slots : /\ u[j].status = sp[j].status /\ u[j].identifier = sp[j].identifier
                          /\ u[j].is_locked = sp[j].is_locked
                          /\ u[j].allowed_processes = sp[j].allowed_processes
                          /\ u[j].queue = IF j = i THEN q ELSE sp[j].queue
                          /\ j # i => u[j] = sp[j]
  BY <1>4a DEF Requeued
<1>5. b \in [Pids -> Place] /\ \A p \in Pids : b[p] = IF p = c THEN w ELSE a[p]
  BY <1>3 DEF Guarded, KindsOK
<1>. HIDE DEF b
<1>6. SameSlots(sp, u)
  BY <1>4 DEF SameSlots, Guarded, KindsOK, Busy
<1>7. Guarded(u, a, h)
  BY <1>6, SameSlotsGuarded
<1>8. KindsOK(u, b, h)
  BY <1>3, <1>5, <1>7 DEF Guarded, KindsOK
<1>9. WaitersStand(u, b)
  BY <1>3, <1>4, <1>5, <1>7 DEF Guarded, WaitersStand, Busy
<1>10. Guarded(u, b, h)
  BY <1>7, <1>8, <1>9 DEF Guarded
<1>. QED  BY <1>2, <1>10 DEF t, b, w

-----------------------------------------------------------------------------
(* Who sleeps, and who will wake it, with statuses st and current process cur. *)

Awake == {READY, RUNNING}

\* A semaphore's queue holds processes asleep in it, each once.
QueuesSleep(st, sp, a) ==
  \A i \in Slots : /\ Once(sp[i].queue)
                   /\ \A p \in Members(sp[i].queue) :
                        a[p].op = "wait" /\ a[p].slot = i /\ st[p] = BLOCKED

\* Whoever is asleep is in a semaphore's queue.
SleepersQueued(st, sp, a) ==
  \A p \in Pids : st[p] = BLOCKED => a[p].op = "wait" /\ p \in Members(sp[a[p].slot].queue)

\* A holder runs its own code.
HoldersAwake(st, a, h) == \A p \in Pids : h[p] # {} => a[p].op = "user" /\ st[p] \in Awake

\* A locked semaphore has a holder.
LocksHeld(sp, h) ==
  \A i \in Slots : Busy(sp, i) /\ sp[i].is_locked /\ sp[i].identifier \in SemNames
                     => \E p \in Pids : sp[i].identifier \in h[p]

\* Where somebody sleeps, the semaphore is locked or a woken waiter will try it.
SomeoneComes(st, sp, a) ==
  \A p \in Pids : st[p] = BLOCKED =>
     \/ sp[a[p].slot].is_locked
     \/ \E q \in Pids : a[q].op = "wait" /\ a[q].slot = a[p].slot /\ st[q] \in Awake

Watched(st, cur, sp, a, h) ==
  /\ QueuesSleep(st, sp, a) /\ SleepersQueued(st, sp, a) /\ HoldersAwake(st, a, h)
  /\ LocksHeld(sp, h) /\ SomeoneComes(st, sp, a) /\ st[cur] # BLOCKED

\* Statuses change, but nobody falls asleep or wakes up.
LEMMA StatusWatched ==
  ASSUME NEW st, NEW cur, NEW sp, NEW a, NEW h, Watched(st, cur, sp, a, h), Guarded(sp, a, h),
         NEW s, NEW d,
         \A x \in Pids : s[x] = BLOCKED <=> st[x] = BLOCKED,
         \A x \in Pids : st[x] \in Awake /\ (a[x].op = "wait" \/ h[x] # {}) => s[x] \in Awake,
         s[d] # BLOCKED
  PROVE  Watched(s, d, sp, a, h)
<1>1. \A i \in Slots : Members(sp[i].queue) \subseteq Pids
  BY SlotTypes DEF Guarded, KindsOK, Members
<1>2. QueuesSleep(s, sp, a)
  BY <1>1 DEF Watched, QueuesSleep
<1>3. SleepersQueued(s, sp, a)
  BY DEF Watched, SleepersQueued
<1>4. HoldersAwake(s, a, h)
  BY DEF Watched, HoldersAwake
<1>5. SomeoneComes(s, sp, a)
  BY DEF Watched, SomeoneComes
<1>. QED  BY <1>2, <1>3, <1>4, <1>5 DEF Watched

\* Names, entries or free slots change, but no queue and no lock that matters.
LEMMA TableWatched ==
  ASSUME NEW st, NEW cur, NEW sp, NEW a, NEW h, Watched(st, cur, sp, a, h), NEW t,
         \A i \in Slots : t[i].queue = sp[i].queue,
         \A i \in Slots : Busy(t, i) /\ t[i].is_locked /\ t[i].identifier \in SemNames
                            => /\ Busy(sp, i) /\ sp[i].is_locked
                               /\ sp[i].identifier = t[i].identifier,
         \A p \in Pids : a[p].op = "wait" => a[p].slot \in Slots,
         \A p \in Pids : a[p].op = "wait" /\ sp[a[p].slot].is_locked => t[a[p].slot].is_locked
  PROVE  Watched(st, cur, t, a, h)
<1>1. QueuesSleep(st, t, a)
  BY DEF Watched, QueuesSleep
<1>2. SleepersQueued(st, t, a)
  BY DEF Watched, SleepersQueued
<1>3. LocksHeld(t, h)
  BY DEF Watched, LocksHeld
<1>4. SomeoneComes(st, t, a)
  BY <1>2 DEF Watched, SomeoneComes, SleepersQueued
<1>. QED  BY <1>1, <1>2, <1>3, <1>4 DEF Watched

\* A process that neither sleeps, waits nor holds moves on.
LEMMA MovesOnWatched ==
  ASSUME NEW st, NEW cur, NEW sp, NEW a, NEW h, Watched(st, cur, sp, a, h), NEW c \in Pids,
         a \in [Pids -> Place], a[c].op # "wait", h[c] = {}, st[c] # BLOCKED, NEW x
  PROVE  Watched(st, cur, sp, [a EXCEPT ![c] = x], h)
<1>. DEFINE b == [a EXCEPT ![c] = x]
<1>1. \A p \in Pids : p # c => b[p] = a[p]
  OBVIOUS
<1>. HIDE DEF b
<1>2. \A i \in Slots : \A p \in Members(sp[i].queue) : b[p] = a[p]
  <2>. SUFFICES ASSUME NEW i \in Slots, NEW p \in Members(sp[i].queue) PROVE b[p] = a[p]
    OBVIOUS
  <2>1. a[p].op = "wait"
    BY DEF Watched, QueuesSleep
  <2>2. p # c
    BY <2>1
  <2>. QED  BY <2>2 DEF b
<1>3. QueuesSleep(st, sp, b)
  BY <1>2 DEF Watched, QueuesSleep
<1>4. SleepersQueued(st, sp, b)
  BY <1>1 DEF Watched, SleepersQueued
<1>5. HoldersAwake(st, b, h)
  BY <1>1 DEF Watched, HoldersAwake
<1>6. SomeoneComes(st, sp, b)
  <2>. SUFFICES ASSUME NEW p \in Pids, st[p] = BLOCKED
                PROVE  \/ sp[b[p].slot].is_locked
                       \/ \E q \in Pids : b[q].op = "wait" /\ b[q].slot = b[p].slot /\ st[q] \in Awake
    BY DEF SomeoneComes
  <2>1. b[p] = a[p]
    BY <1>1
  <2>2. CASE ~sp[a[p].slot].is_locked
    <3>1. PICK q \in Pids : a[q].op = "wait" /\ a[q].slot = a[p].slot /\ st[q] \in Awake
      BY <2>2 DEF Watched, SomeoneComes
    <3>2. b[q] = a[q]
      BY <1>1, <3>1
    <3>. QED  BY <2>1, <3>1, <3>2
  <2>. QED  BY <2>1, <2>2
<1>7. Watched(st, cur, sp, b, h)
  BY <1>3, <1>4, <1>5, <1>6 DEF Watched
<1>. QED  BY <1>7 DEF b

\* Half of the queue of slot i is woken, and what is posted is given up.
LEMMA WakeWatched ==
  ASSUME NEW st, NEW cur, NEW sp, NEW a, NEW h, Watched(st, cur, sp, a, h), Guarded(sp, a, h),
         NEW i \in Slots, NEW s, NEW t, NEW g,
         \A x \in Pids : s[x] = IF x \in Members(First(sp[i].queue)) THEN READY ELSE st[x],
         \A j \in Slots : t[j].queue = IF j = i THEN Rest(sp[i].queue) ELSE sp[j].queue,
         \A j \in Slots : j # i => t[j].is_locked = sp[j].is_locked,
         \A p \in Pids : g[p] \subseteq h[p],
         LocksHeld(t, g), cur \in Pids
  PROVE  Watched(s, cur, t, a, g)
<1>. DEFINE q == sp[i].queue
<1>1. q \in Seq(Pids) /\ \A j \in Slots : Members(sp[j].queue) \subseteq Pids
  BY SlotTypes DEF Guarded, KindsOK, Members
<1>2. /\ Members(First(q)) \subseteq Members(q) /\ Members(Rest(q)) \subseteq Members(q)
      /\ Members(q) \subseteq Members(First(q)) \cup Members(Rest(q))
      /\ Members(q) # {} => Members(First(q)) # {}
      /\ Once(q) => Once(Rest(q)) /\ Members(First(q)) \cap Members(Rest(q)) = {}
  BY <1>1, SplitQueue
<1>3. /\ Once(q) /\ \A p \in Members(q) : a[p].op = "wait" /\ a[p].slot = i /\ st[p] = BLOCKED
  BY DEF Watched, QueuesSleep
<1>4. Members(Rest(q)) \cap Members(First(q)) = {} /\ Once(Rest(q))
  BY <1>2, <1>3
<1>. HIDE DEF q
<1>0. /\ \A x \in Pids : s[x] = IF x \in Members(First(q)) THEN READY ELSE st[x]
      /\ \A j \in Slots : t[j].queue = IF j = i THEN Rest(q) ELSE sp[j].queue
  BY DEF q
<1>5. QueuesSleep(s, t, a)
  <2>. SUFFICES ASSUME NEW j \in Slots
                PROVE  /\ Once(t[j].queue)
                       /\ \A p \in Members(t[j].queue) : a[p].op = "wait" /\ a[p].slot = j /\ s[p] = BLOCKED
    BY DEF QueuesSleep
  <2>1. CASE j = i
    BY <1>0, <1>1, <1>2, <1>3, <1>4, <2>1 DEF q
  <2>2. CASE j # i
    <3>1. \A p \in Members(sp[j].queue) : a[p].op = "wait" /\ a[p].slot = j /\ st[p] = BLOCKED
      BY DEF Watched, QueuesSleep
    <3>2. \A p \in Members(sp[j].queue) : p \in Pids /\ p \notin Members(First(q))
      BY <1>1, <1>2, <1>3, <2>2, <3>1
    <3>. QED  BY <1>0, <2>2, <3>1, <3>2 DEF Watched, QueuesSleep
  <2>. QED  BY <2>1, <2>2
<1>6. SleepersQueued(s, t, a)
  <2>. SUFFICES ASSUME NEW p \in Pids, s[p] = BLOCKED
                PROVE  a[p].op = "wait" /\ p \in Members(t[a[p].slot].queue)
    BY DEF SleepersQueued
  <2>1. p \notin Members(First(q)) /\ st[p] = BLOCKED
    BY <1>0 DEF READY, BLOCKED
  <2>2. a[p].op = "wait" /\ p \in Members(sp[a[p].slot].queue) /\ a[p].slot \in Slots
    BY <2>1 DEF Watched, SleepersQueued, Guarded, WaitersStand
  <2>. QED  BY <1>0, <1>2, <2>1, <2>2 DEF q
<1>7. HoldersAwake(s, a, g)
  BY <1>0 DEF Watched, HoldersAwake, Awake
<1>8. SomeoneComes(s, t, a)
  <2>. SUFFICES ASSUME NEW p \in Pids, s[p] = BLOCKED
                PROVE  \/ t[a[p].slot].is_locked
                       \/ \E x \in Pids : a[x].op = "wait" /\ a[x].slot = a[p].slot /\ s[x] \in Awake
    BY DEF SomeoneComes
  <2>1. st[p] = BLOCKED
    BY <1>0 DEF READY, BLOCKED
  <2>2. a[p].op = "wait" /\ p \in Members(sp[a[p].slot].queue) /\ a[p].slot \in Slots
    BY <2>1 DEF Watched, SleepersQueued, Guarded, WaitersStand
  <2>3. CASE a[p].slot = i
    <3>1. PICK x \in Members(First(q)) : TRUE
      BY <1>2, <2>2, <2>3 DEF q
    <3>2. x \in Members(q) /\ x \in Pids
      BY <1>1, <1>2, <3>1 DEF q
    <3>3. s[x] \in Awake
      BY <1>0, <3>1, <3>2 DEF Awake
    <3>. QED  BY <1>3, <2>3, <3>2, <3>3
  <2>4. CASE a[p].slot # i
    <3>1. CASE sp[a[p].slot].is_locked
      BY <2>2, <2>4, <3>1
    <3>2. CASE ~sp[a[p].slot].is_locked
      <4>1. PICK x \in Pids : a[x].op = "wait" /\ a[x].slot = a[p].slot /\ st[x] \in Awake
        BY <2>1, <3>2 DEF Watched, SomeoneComes
      <4>2. s[x] \in Awake
        BY <1>0, <4>1 DEF Awake
      <4>. QED  BY <4>1, <4>2
    <3>. QED  BY <3>1, <3>2
  <2>. QED  BY <2>3, <2>4
<1>9. s[cur] # BLOCKED
  BY <1>0 DEF Watched, READY, BLOCKED
<1>. QED  BY <1>5, <1>6, <1>7, <1>8, <1>9 DEF Watched

\* Process c takes the lock of slot i: t, b and u are the table, the places and the holdings after it.
Taken(st, c, sp, a, h, i, t, b, u) ==
  /\ c \in Pids /\ Watched(st, c, sp, a, h) /\ Guarded(sp, a, h)
  /\ i \in Slots /\ sp[i].identifier \in SemNames
  /\ \A j \in Slots : /\ t[j].queue = sp[j].queue /\ t[j].identifier = sp[j].identifier
                      /\ t[j].status = sp[j].status
                      /\ j # i => t[j].is_locked = sp[j].is_locked
  /\ t[i].is_locked
  /\ \A p \in Pids : b[p] = IF p = c THEN User ELSE a[p]
  /\ \A p \in Pids : u[p] = IF p = c THEN h[c] \cup {sp[i].identifier} ELSE h[p]
  /\ st[c] \in Awake
  /\ a[c].op = "user" \/ a[c].slot = i

\* A process takes the lock it asked for.
LEMMA TakeWatched ==
  ASSUME NEW st, NEW c, NEW sp, NEW a, NEW h, NEW i, NEW t, NEW b, NEW g, Taken(st, c, sp, a, h, i, t, b, g)
  PROVE  Watched(st, c, t, b, g)
<1>. /\ c \in Pids /\ Watched(st, c, sp, a, h) /\ Guarded(sp, a, h) /\ i \in Slots
     /\ sp[i].identifier \in SemNames
  BY DEF Taken
<1>. \A j \in Slots : /\ t[j].queue = sp[j].queue /\ t[j].identifier = sp[j].identifier
                      /\ t[j].status = sp[j].status
                      /\ j # i => t[j].is_locked = sp[j].is_locked
  BY DEF Taken
<1>. /\ t[i].is_locked /\ st[c] \in Awake
     /\ a[c].op = "user" \/ a[c].slot = i
  BY DEF Taken
<1>. /\ \A p \in Pids : b[p] = IF p = c THEN User ELSE a[p]
     /\ \A p \in Pids : g[p] = IF p = c THEN h[c] \cup {sp[i].identifier} ELSE h[p]
  BY DEF Taken
<1>1. \A j \in Slots : Members(sp[j].queue) \subseteq Pids
  BY SlotTypes DEF Guarded, KindsOK, Members
<1>2. User.op = "user" /\ st[c] # BLOCKED
  BY DEF User, Watched
<1>3. QueuesSleep(st, t, b)
  <2>. SUFFICES ASSUME NEW j \in Slots
                PROVE  /\ Once(t[j].queue)
                       /\ \A p \in Members(t[j].queue) : b[p].op = "wait" /\ b[p].slot = j /\ st[p] = BLOCKED
    BY DEF QueuesSleep
  <2>1. /\ Once(sp[j].queue)
        /\ \A p \in Members(sp[j].queue) : a[p].op = "wait" /\ a[p].slot = j /\ st[p] = BLOCKED
    BY DEF Watched, QueuesSleep
  <2>2. \A p \in Members(sp[j].queue) : b[p] = a[p]
    BY <1>1, <1>2, <2>1
  <2>. QED  BY <2>1, <2>2
<1>4. SleepersQueued(st, t, b)
  <2>1. \A p \in Pids : a[p].op = "wait" => a[p].slot \in Slots
    BY DEF Guarded, WaitersStand
  <2>. SUFFICES ASSUME NEW p \in Pids, st[p] = BLOCKED
                PROVE  b[p].op = "wait" /\ p \in Members(t[b[p].slot].queue)
    BY DEF SleepersQueued
  <2>2. b[p] = a[p] /\ a[p].op = "wait" /\ p \in Members(sp[a[p].slot].queue)
    BY <1>2 DEF Watched, SleepersQueued
  <2>. QED  BY <2>1, <2>2
<1>5. HoldersAwake(st, b, g)
  BY <1>2 DEF Watched, HoldersAwake
<1>6. LocksHeld(t, g)
  <2>. SUFFICES ASSUME NEW j \in Slots, Busy(t, j), t[j].is_locked, t[j].identifier \in SemNames
                PROVE  \E p \in Pids : t[j].identifier \in g[p]
    BY DEF LocksHeld
  <2>1. CASE j = i
    <3>1. sp[i].identifier \in g[c]
      OBVIOUS
    <3>. QED  BY <2>1, <3>1
  <2>2. CASE j # i
    <3>1. PICK p \in Pids : sp[j].identifier \in h[p]
      BY <2>2 DEF Watched, LocksHeld, Busy
    <3>2. sp[j].identifier \in g[p]
      BY <3>1
    <3>. QED  BY <3>2
  <2>. QED  BY <2>1, <2>2
<1>7. SomeoneComes(st, t, b)
  <2>. SUFFICES ASSUME NEW p \in Pids, st[p] = BLOCKED
                PROVE  \/ t[b[p].slot].is_locked
                       \/ \E x \in Pids : b[x].op = "wait" /\ b[x].slot = b[p].slot /\ st[x] \in Awake
    BY DEF SomeoneComes
  <2>1. b[p] = a[p] /\ a[p].slot \in Slots
    BY <1>2 DEF Watched, SleepersQueued, Guarded, WaitersStand
  <2>2. CASE a[p].slot = i
    BY <2>1, <2>2
  <2>3. CASE a[p].slot # i /\ ~sp[a[p].slot].is_locked
    <3>1. PICK x \in Pids : a[x].op = "wait" /\ a[x].slot = a[p].slot /\ st[x] \in Awake
      BY <2>3 DEF Watched, SomeoneComes
    <3>2. x # c
      BY <2>3, <3>1
    <3>. QED  BY <2>1, <3>1, <3>2
  <2>4. CASE a[p].slot # i /\ sp[a[p].slot].is_locked
    BY <2>1, <2>4
  <2>. QED  BY <2>2, <2>3, <2>4
<1>. QED  BY <1>2, <1>3, <1>4, <1>5, <1>6, <1>7 DEF Watched

\* A process goes to sleep on a locked semaphore.
LEMMA SleepWatched ==
  ASSUME NEW st, NEW c \in Pids, NEW sp, NEW a, NEW h, Watched(st, c, sp, a, h), Guarded(sp, a, h),
         NEW i \in Slots, NEW t, NEW b, NEW s, NEW d, NEW n, sp[i].is_locked,
         \A j \in Slots : /\ t[j].queue = IF j = i THEN Append(sp[i].queue, c) ELSE sp[j].queue
                          /\ t[j].identifier = sp[j].identifier /\ t[j].status = sp[j].status
                          /\ t[j].is_locked = sp[j].is_locked,
         \A p \in Pids : b[p] = IF p = c THEN Waiting(n, i) ELSE a[p],
         \A x \in Pids : s[x] = BLOCKED <=> x = c \/ st[x] = BLOCKED,
         \A x \in Pids : st[x] \in Awake /\ x # c => s[x] \in Awake,
         h[c] = {}, a[c].op = "user" \/ a[c].slot = i, s[d] # BLOCKED
  PROVE  Watched(s, d, t, b, h)
<1>1. sp[i].queue \in Seq(Pids) /\ \A j \in Slots : Members(sp[j].queue) \subseteq Pids
  BY SlotTypes DEF Guarded, KindsOK, Members
<1>2. Waiting(n, i).op = "wait" /\ Waiting(n, i).slot = i /\ st[c] # BLOCKED
  BY DEF Waiting, Watched
<1>3. \A j \in Slots : c \notin Members(sp[j].queue)
  BY <1>2 DEF Watched, QueuesSleep
<1>4. Members(Append(sp[i].queue, c)) = Members(sp[i].queue) \cup {c} /\ Once(Append(sp[i].queue, c))
  <2>1. Once(sp[i].queue)
    BY DEF Watched, QueuesSleep
  <2>. QED  BY <1>1, <1>3, <2>1, MembersAppend, AppendOnce
<1>5. QueuesSleep(s, t, b)
  <2>. SUFFICES ASSUME NEW j \in Slots
                PROVE  /\ Once(t[j].queue)
                       /\ \A p \in Members(t[j].queue) : b[p].op = "wait" /\ b[p].slot = j /\ s[p] = BLOCKED
    BY DEF QueuesSleep
  <2>0. /\ Once(sp[j].queue)
        /\ \A p \in Members(sp[j].queue) : a[p].op = "wait" /\ a[p].slot = j /\ st[p] = BLOCKED
    BY DEF Watched, QueuesSleep
  <2>1. \A p \in Members(sp[j].queue) : b[p].op = "wait" /\ b[p].slot = j /\ s[p] = BLOCKED
    BY <1>1, <1>3, <2>0
  <2>2. CASE j = i
    BY <1>2, <1>4, <2>1, <2>2
  <2>3. CASE j # i
    BY <2>0, <2>1, <2>3
  <2>. QED  BY <2>2, <2>3
<1>6. SleepersQueued(s, t, b)
  <2>. SUFFICES ASSUME NEW p \in Pids, s[p] = BLOCKED
                PROVE  b[p].op = "wait" /\ p \in Members(t[b[p].slot].queue)
    BY DEF SleepersQueued
  <2>1. CASE p = c
    BY <1>2, <1>4, <2>1
  <2>2. CASE p # c
    <3>1. st[p] = BLOCKED /\ b[p] = a[p]
      BY <2>2
    <3>2. a[p].op = "wait" /\ p \in Members(sp[a[p].slot].queue) /\ a[p].slot \in Slots
      BY <3>1 DEF Watched, SleepersQueued, Guarded, WaitersStand
    <3>. QED  BY <1>4, <3>1, <3>2
  <2>. QED  BY <2>1, <2>2
<1>7. HoldersAwake(s, b, h)
  BY DEF Watched, HoldersAwake
<1>8. LocksHeld(t, h)
  BY DEF Watched, LocksHeld, Busy
<1>9. SomeoneComes(s, t, b)
  <2>. SUFFICES ASSUME NEW p \in Pids, s[p] = BLOCKED
                PROVE  \/ t[b[p].slot].is_locked
                       \/ \E x \in Pids : b[x].op = "wait" /\ b[x].slot = b[p].slot /\ s[x] \in Awake
    BY DEF SomeoneComes
  <2>1. CASE p = c \/ a[p].slot = i
    BY <1>2, <2>1
  <2>2. CASE p # c /\ a[p].slot # i
    <3>1. st[p] = BLOCKED /\ b[p] = a[p]
      BY <2>2
    <3>2. a[p].slot \in Slots
      BY <3>1 DEF Watched, SleepersQueued, Guarded, WaitersStand
    <3>3. CASE ~sp[a[p].slot].is_locked
      <4>1. PICK x \in Pids : a[x].op = "wait" /\ a[x].slot = a[p].slot /\ st[x] \in Awake
        BY <3>1, <3>3 DEF Watched, SomeoneComes
      <4>2. x # c
        BY <2>2, <4>1
      <4>. QED  BY <3>1, <4>1, <4>2
    <3>4. CASE sp[a[p].slot].is_locked
      BY <3>1, <3>2, <3>4
    <3>. QED  BY <3>3, <3>4
  <2>. QED  BY <2>1, <2>2
<1>. QED  BY <1>5, <1>6, <1>7, <1>8, <1>9 DEF Watched

-----------------------------------------------------------------------------
(* The invariant of SemaphoreSpec. *)

\* Processes use one semaphore, so nobody waits while it holds another.
OneName == \A m, n \in SemNames : m = n

\* Who is dead is in the last steps of its exit.
DeadLeave(st, a) == \A p \in Pids : st[p] = DEAD <=> a[p].op \in {"remove", "finish"}

SemState(g, fg, sp, a, h) ==
  /\ Safe(g) /\ g.creation_queue = <<>> /\ fg \in Pids /\ a[IDLE_PID].op = "user"
  /\ DeadLeave(g.status, a) /\ Guarded(sp, a, h)
  /\ OneName => Watched(g.status, g.current_pcb, sp, a, h)

SemInv == SemState(Sched, foreground_pid, sem_spaces, at, holding)

\* What the proofs use of SemState.
LEMMA SemStateFacts ==
  ASSUME NEW g, NEW fg, NEW sp, NEW a, NEW h, SemState(g, fg, sp, a, h)
  PROVE  /\ Safe(g) /\ g \in SchedState /\ g.current_pcb \in Pids /\ g.status \in [Pids -> Statuses]
         /\ sp \in Table /\ a \in [Pids -> Place] /\ h \in [Pids -> SUBSET SemNames]
         /\ g.status[g.current_pcb] # NONE /\ Guarded(sp, a, h)
         /\ \A p \in Pids : a[p].op = "wait" => a[p].slot \in Slots
<1>1. Safe(g) /\ Guarded(sp, a, h)
  BY DEF SemState
<1>2. Sound(g)
  BY <1>1 DEF Safe
<1>3. g \in SchedState /\ g.current_pcb \in Pids /\ g.status \in [Pids -> Statuses]
  BY <1>2, QueueTypes
<1>4. g.status[g.current_pcb] # NONE
  BY <1>2, <1>3, QueuedIsHandedOut
<1>. QED  BY <1>1, <1>3, <1>4 DEF Guarded, KindsOK, WaitersStand

\* A context switch or a tick.
LEMMA CalmKeeps ==
  ASSUME NEW g, NEW fg, NEW sp, NEW a, NEW h, SemState(g, fg, sp, a, h), NEW r,
         \/ Switched(g, r)
         \/ /\ Safe(r) /\ r.status = g.status /\ r.current_pcb = g.current_pcb
            /\ r.creation_queue = g.creation_queue
  PROVE  SemState(r, fg, sp, a, h)
<1>1. Safe(r) /\ r.creation_queue = <<>> /\ Alike(g, r)
  BY DEF SemState, Switched, Alike
<1>2. DeadLeave(r.status, a)
  BY <1>1 DEF SemState, DeadLeave, Alike
<1>3. ASSUME OneName PROVE Watched(r.status, r.current_pcb, sp, a, h)
  <2>0. Watched(g.status, g.current_pcb, sp, a, h)
    BY <1>3 DEF SemState
  <2>1. r.status[r.current_pcb] # BLOCKED
    BY <2>0 DEF Switched, RUNNING, BLOCKED, Watched
  <2>2. g.status \in [Pids -> Statuses] /\ r.status \in [Pids -> Statuses] /\ Guarded(sp, a, h)
    BY <1>1, SemStateFacts, QueueTypes DEF Safe
  <2>3. \A x \in Pids : g.status[x] \in Awake => r.status[x] \in Awake
    BY <1>1, <2>2 DEF Alike, Awake, Statuses, READY, RUNNING, BLOCKED, DEAD, NONE
  <2>. QED  BY <1>1, <2>0, <2>1, <2>2, <2>3, StatusWatched DEF Alike
<1>. QED  BY <1>1, <1>2, <1>3 DEF SemState

\* Waiters keep their locks, and clients' locks stay, when a slot is opened.
LEMMA OpenLocks ==
  ASSUME NEW sp, NEW a, NEW h, Guarded(sp, a, h), NEW n \in Names, NEW v \in {0, 1}, NEW c \in Pids,
         n \in SemNames => v = 0
  PROVE  LET t == OpenTable(sp, v, n, c)
         IN  /\ \A i \in Slots : t[i].queue = sp[i].queue
             /\ \A i \in Slots : Busy(t, i) /\ t[i].is_locked /\ t[i].identifier \in SemNames
                                   => /\ Busy(sp, i) /\ sp[i].is_locked
                                      /\ sp[i].identifier = t[i].identifier
             /\ \A p \in Pids : a[p].op = "wait" /\ sp[a[p].slot].is_locked => t[a[p].slot].is_locked
<1>. DEFINE i == Slot(sp, n)
            free == {j \in Slots : sp[j].status = "AVAILABLE"}
            t == OpenTable(sp, v, n, c)
<1>0. sp \in Table /\ \A p \in Pids : a[p].op = "wait" => a[p].slot \in Slots /\ Busy(sp, a[p].slot)
  BY DEF Guarded, KindsOK, WaitersStand
<1>1. CASE i # NOT_FOUND
  <2>. DEFINE s == Append(sp[i].allowed_processes, c)
              u == [sp EXCEPT ![i].allowed_processes = s]
  <2>1. i \in Slots
    BY <1>1, SlotFacts
  <2>2. t = u
    BY <1>1 DEF OpenTable
  <2>. HIDE DEF i, t
  <2>3. s \in Seq(Pids \cup {NOBODY})
    <3>1. sp[i].allowed_processes \in Seq(Pids \cup {NOBODY})
      BY <1>0, <2>1, SlotTypes
    <3>. QED  BY <3>1
  <2>. HIDE DEF s
  <2>4a. Reallowed(sp, u, i, s)
    BY <1>0, <2>1, <2>3, SetAllowed
  <2>. HIDE DEF u
  <2>4. \A j \in Slots : /\ u[j].status = sp[j].status /\ u[j].identifier = sp[j].identifier
                         /\ u[j].is_locked = sp[j].is_locked /\ u[j].queue = sp[j].queue
    BY <2>4a DEF Reallowed
  <2>. QED  BY <1>0, <2>2, <2>4 DEF Busy, t
<1>2. CASE i = NOT_FOUND /\ free # {}
  <2>. DEFINE j == Smallest(free)
              x == Opened(n, v, c)
              u == [sp EXCEPT ![j] = x]
  <2>1. j \in free
    <3>1. free \subseteq Nat
      BY KernelConstants
    <3>. HIDE DEF free
    <3>. QED  BY <1>2, <3>1, SmallestExists
  <2>2. t = u
    BY <1>2 DEF OpenTable
  <2>3. x \in Semaphore /\ x.identifier = n /\ x.queue = <<>> /\ (v = 0 => ~x.is_locked)
    <3>1. x \in Semaphore
      BY NewSlots
    <3>2. x.identifier = n /\ x.queue = <<>> /\ x.is_locked = (v > 0)
      BY DEF Opened
    <3>3. v = 0 => ~(v > 0)
      OBVIOUS
    <3>. HIDE DEF x
    <3>. QED  BY <3>1, <3>2, <3>3
  <2>4. j \in Slots /\ sp[j].status = "AVAILABLE" /\ sp[j].queue = <<>>
    BY <2>1 DEF Guarded, KindsOK, AVAILABLE
  <2>. HIDE DEF x, j, t
  <2>5. u \in Table /\ \A m \in Slots : u[m] = IF m = j THEN x ELSE sp[m]
    BY <1>0, <2>3, <2>4, SetSlot
  <2>. HIDE DEF u, i, free
  <2>. QED  BY <1>0, <2>2, <2>3, <2>4, <2>5 DEF Busy, t
<1>3. CASE i = NOT_FOUND /\ free = {}
  <2>1. t = sp
    BY <1>3 DEF OpenTable
  <2>. QED  BY <2>1
<1>. QED  BY <1>1, <1>2, <1>3

\* ... and when one is closed by somebody that neither holds nor waits for it.
LEMMA CloseLocks ==
  ASSUME NEW st, NEW cur, NEW sp, NEW a, NEW h, Guarded(sp, a, h), Watched(st, cur, sp, a, h),
         NEW n \in Names, NEW c \in Pids, a[c].op # "wait"
  PROVE  LET t == CloseTable(sp, n, c)
         IN  /\ \A i \in Slots : t[i].queue = sp[i].queue
             /\ \A i \in Slots : Busy(t, i) /\ t[i].is_locked /\ t[i].identifier \in SemNames
                                   => /\ Busy(sp, i) /\ sp[i].is_locked
                                      /\ sp[i].identifier = t[i].identifier
             /\ \A p \in Pids : a[p].op = "wait" /\ sp[a[p].slot].is_locked => t[a[p].slot].is_locked
<1>. DEFINE i == Slot(sp, n)
            s == CrossOut(sp[i].allowed_processes, c)
            t == CloseTable(sp, n, c)
            u == [sp EXCEPT ![i] = AVAILABLE]
            w == [sp EXCEPT ![i].allowed_processes = s]
<1>0. sp \in Table /\ \A p \in Pids : a[p].op = "wait" => a[p].slot \in Slots /\ Busy(sp, a[p].slot)
  BY DEF Guarded, KindsOK, WaitersStand
<1>1. CASE i = NOT_FOUND
  <2>1. t = sp
    BY <1>1 DEF CloseTable
  <2>. QED  BY <2>1
<1>2. ASSUME i # NOT_FOUND
      PROVE  i \in Slots /\ s \in Seq(Entries) /\ t = IF s = <<>> THEN u ELSE w
  <2>1. i \in Slots
    BY <1>2, SlotFacts
  <2>2. t = IF s = <<>> THEN u ELSE w
    BY <1>2 DEF CloseTable
  <2>3. sp[i].allowed_processes \in Seq(Entries)
    BY <1>0, <2>1, SlotTypes DEF Entries
  <2>. HIDE DEF i, t, u, w
  <2>. QED  BY <2>1, <2>2, <2>3, CrossOutKeeps
<1>3. CASE i # NOT_FOUND /\ s = <<>>
  <2>1. i \in Slots /\ t = u
    BY <1>2, <1>3
  <2>2. \A p \in Pids : a[p].op = "wait" => a[p].slot # i
    <3>. SUFFICES ASSUME NEW p \in Pids, a[p].op = "wait", a[p].slot = i PROVE FALSE
      OBVIOUS
    <3>1. Stands(p, sp[i].allowed_processes) /\ p # c
      BY DEF Guarded, WaitersStand
    <3>2. sp[i].allowed_processes \in Seq(Entries)
      BY <1>0, <2>1, SlotTypes DEF Entries
    <3>3. Stands(p, s)
      <4>. HIDE DEF i
      <4>. QED  BY <3>1, <3>2, CrossOutKeeps
    <3>. HIDE DEF s
    <3>. QED  BY <1>3, <3>3 DEF Stands, Members
  <2>. HIDE DEF i, t, s
  <2>3. sp[i].queue \in Seq(Pids) /\ Members(sp[i].queue) \subseteq Pids
    BY <1>0, <2>1, SlotTypes DEF Members
  <2>4. sp[i].queue = <<>>
    <3>1. Members(sp[i].queue) = {}
      BY <2>1, <2>2, <2>3 DEF Watched, QueuesSleep
    <3>2. \A m \in 1 .. Len(sp[i].queue) : sp[i].queue[m] \in Members(sp[i].queue)
      BY DEF Members
    <3>3. 1 \notin 1 .. Len(sp[i].queue)
      BY <3>1, <3>2
    <3>. QED  BY <2>3, <3>3
  <2>5. u \in Table /\ \A j \in Slots : u[j] = IF j = i THEN AVAILABLE ELSE sp[j]
    <3>1. i \in Slots
      BY <2>1
    <3>. QED  BY <1>0, <3>1, NewSlots, SetSlot
  <2>6. AVAILABLE.queue = <<>> /\ AVAILABLE.status # "UNAVAILABLE"
    BY DEF AVAILABLE
  <2>. HIDE DEF u
  <2>. QED  BY <1>0, <2>1, <2>2, <2>4, <2>5, <2>6 DEF Busy, t
<1>4. CASE i # NOT_FOUND /\ s # <<>>
  <2>1. i \in Slots /\ t = w /\ s \in Seq(Entries)
    BY <1>2, <1>4
  <2>. HIDE DEF i, t, s
  <2>2. \A j \in Slots : /\ w[j].status = sp[j].status /\ w[j].identifier = sp[j].identifier
                         /\ w[j].is_locked = sp[j].is_locked /\ w[j].queue = sp[j].queue
    <3>1. i \in Slots /\ s \in Seq(Pids \cup {NOBODY})
      BY <2>1 DEF Entries
    <3>2. Reallowed(sp, w, i, s)
      BY <1>0, <3>1, SetAllowed
    <3>. HIDE DEF w
    <3>. QED  BY <3>2 DEF Reallowed
  <2>. HIDE DEF w
  <2>. QED  BY <1>0, <2>1, <2>2 DEF Busy, t
<1>. QED  BY <1>1, <1>3, <1>4

\* A new process.
LEMMA CreateKeeps ==
  ASSUME NEW g, NEW fg, NEW sp, NEW a, NEW h, SemState(g, fg, sp, a, h), g.pid =< MaxPid
  PROVE  SemState(create_and_insert_process(g), fg, OpenTable(sp, 1, g.pid, g.current_pcb), a, h)
<1>. DEFINE r == create_and_insert_process(g)
            t == OpenTable(sp, 1, g.pid, g.current_pcb)
<1>1. Safe(g) /\ g.current_pcb \in Pids /\ Guarded(sp, a, h) /\ g.creation_queue = <<>>
  BY SemStateFacts DEF SemState
<1>2. /\ Safe(r) /\ r.current_pcb = g.current_pcb /\ SameLists(g, r)
      /\ g.pid \in Clients /\ g.status[g.pid] = NONE
      /\ \A x \in Pids : r.status[x] = IF x = g.pid THEN READY ELSE g.status[x]
  BY <1>1, CreateCalm
<1>3. g.pid \in Names /\ g.pid \notin SemNames
  BY <1>2, KernelConstants DEF Names
<1>4. Guarded(t, a, h)
  BY <1>1, <1>3, OpenGuarded
<1>. HIDE DEF r
<1>5. DeadLeave(r.status, a)
  BY <1>2 DEF SemState, DeadLeave, READY, DEAD, NONE
<1>6. ASSUME OneName PROVE Watched(r.status, r.current_pcb, t, a, h)
  <2>1. Watched(g.status, g.current_pcb, sp, a, h)
    BY <1>6 DEF SemState
  <2>2. /\ \A i \in Slots : t[i].queue = sp[i].queue
        /\ \A i \in Slots : Busy(t, i) /\ t[i].is_locked /\ t[i].identifier \in SemNames
                              => /\ Busy(sp, i) /\ sp[i].is_locked
                                 /\ sp[i].identifier = t[i].identifier
        /\ \A p \in Pids : a[p].op = "wait" /\ sp[a[p].slot].is_locked => t[a[p].slot].is_locked
    BY <1>1, <1>3, OpenLocks
  <2>. HIDE DEF t
  <2>3. \A p \in Pids : a[p].op = "wait" => a[p].slot \in Slots
    BY SemStateFacts
  <2>4. Watched(g.status, g.current_pcb, t, a, h)
    BY <2>1, <2>2, <2>3, TableWatched
  <2>5. \A x \in Pids : r.status[x] = BLOCKED <=> g.status[x] = BLOCKED
    BY <1>2 DEF READY, BLOCKED, NONE
  <2>6. \A x \in Pids : g.status[x] \in Awake => r.status[x] \in Awake
    BY <1>2 DEF Awake
  <2>7. r.status[r.current_pcb] # BLOCKED
    BY <1>1, <1>2, <2>1, <2>5 DEF Watched
  <2>. QED  BY <1>4, <2>4, <2>5, <2>6, <2>7, StatusWatched DEF t
<1>. QED  BY <1>1, <1>2, <1>4, <1>5, <1>6 DEF SemState, SameLists, r

\* Opening, by a client.
LEMMA OpenKeeps ==
  ASSUME NEW g, NEW fg, NEW sp, NEW a, NEW h, SemState(g, fg, sp, a, h), NEW n \in SemNames
  PROVE  SemState(g, fg, OpenTable(sp, 0, n, g.current_pcb), a, h)
<1>. DEFINE t == OpenTable(sp, 0, n, g.current_pcb)
<1>1. g.current_pcb \in Pids /\ Guarded(sp, a, h) /\ n \in Names
  BY SemStateFacts DEF Names
<1>2. Guarded(t, a, h)
  BY <1>1, OpenGuarded
<1>3. ASSUME OneName PROVE Watched(g.status, g.current_pcb, t, a, h)
  <2>1. Watched(g.status, g.current_pcb, sp, a, h)
    BY <1>3 DEF SemState
  <2>2. /\ \A i \in Slots : t[i].queue = sp[i].queue
        /\ \A i \in Slots : Busy(t, i) /\ t[i].is_locked /\ t[i].identifier \in SemNames
                              => /\ Busy(sp, i) /\ sp[i].is_locked
                                 /\ sp[i].identifier = t[i].identifier
        /\ \A p \in Pids : a[p].op = "wait" /\ sp[a[p].slot].is_locked => t[a[p].slot].is_locked
    BY <1>1, OpenLocks
  <2>. HIDE DEF t
  <2>3. \A p \in Pids : a[p].op = "wait" => a[p].slot \in Slots
    BY SemStateFacts
  <2>. QED  BY <2>1, <2>2, <2>3, TableWatched
<1>. HIDE DEF t
<1>4. SemState(g, fg, t, a, h)
  BY <1>2, <1>3 DEF SemState
<1>. QED  BY <1>4 DEF t

\* Closing, by a client that does not hold the semaphore.
LEMMA CloseKeeps ==
  ASSUME NEW g, NEW fg, NEW sp, NEW a, NEW h, SemState(g, fg, sp, a, h), NEW n \in SemNames,
         n \notin h[g.current_pcb], a[g.current_pcb].op = "user"
  PROVE  SemState(g, fg, CloseTable(sp, n, g.current_pcb), a, h)
<1>. DEFINE t == CloseTable(sp, n, g.current_pcb)
<1>1. /\ g.current_pcb \in Pids /\ Guarded(sp, a, h) /\ n \in Names
      /\ a[g.current_pcb].op # "wait"
  BY SemStateFacts DEF Names
<1>2. Guarded(t, a, h)
  BY <1>1, CloseGuarded
<1>3. ASSUME OneName PROVE Watched(g.status, g.current_pcb, t, a, h)
  <2>1. Watched(g.status, g.current_pcb, sp, a, h)
    BY <1>3 DEF SemState
  <2>2. /\ \A i \in Slots : t[i].queue = sp[i].queue
        /\ \A i \in Slots : Busy(t, i) /\ t[i].is_locked /\ t[i].identifier \in SemNames
                              => /\ Busy(sp, i) /\ sp[i].is_locked
                                 /\ sp[i].identifier = t[i].identifier
        /\ \A p \in Pids : a[p].op = "wait" /\ sp[a[p].slot].is_locked => t[a[p].slot].is_locked
    BY <1>1, <2>1, CloseLocks
  <2>. HIDE DEF t
  <2>3. \A p \in Pids : a[p].op = "wait" => a[p].slot \in Slots
    BY SemStateFacts
  <2>. QED  BY <2>1, <2>2, <2>3, TableWatched
<1>. HIDE DEF t
<1>4. SemState(g, fg, t, a, h)
  BY <1>2, <1>3 DEF SemState
<1>. QED  BY <1>4 DEF t

\* A process that holds nothing goes on to another step of its exit, up to its death.
LEMMA MovesOnKeeps ==
  ASSUME NEW g, NEW fg, NEW sp, NEW a, NEW h, SemState(g, fg, sp, a, h), NEW f \in Pids,
         NEW x \in Place, x.op \in {"unlock", "wake", "die"}, x.op = "wake" => x.slot \in Slots,
         h[g.current_pcb] = {}, g.current_pcb # IDLE_PID,
         a[g.current_pcb].op \in {"user", "unlock", "wake"}
  PROVE  SemState(g, f, sp, [a EXCEPT ![g.current_pcb] = x], h)
<1>. DEFINE c == g.current_pcb
            b == [a EXCEPT ![c] = x]
<1>1. c \in Pids /\ Guarded(sp, a, h) /\ a \in [Pids -> Place] /\ x.op # "wait" /\ a[c].op # "wait"
  BY SemStateFacts
<1>2. Guarded(sp, b, h)
  BY <1>1, MovesOnGuarded
<1>3. \A p \in Pids : b[p] = IF p = c THEN x ELSE a[p]
  BY <1>1
<1>4. ASSUME OneName PROVE Watched(g.status, c, sp, b, h)
  <2>1. Watched(g.status, c, sp, a, h) /\ g.status[c] # BLOCKED
    BY <1>4 DEF SemState, Watched
  <2>. QED  BY <1>1, <2>1, MovesOnWatched
<1>. HIDE DEF b
<1>5. DeadLeave(g.status, b)
  BY <1>3 DEF SemState, DeadLeave
<1>6. b[IDLE_PID].op = "user"
  BY <1>3, ConstantFacts DEF SemState
<1>. QED  BY <1>2, <1>4, <1>5, <1>6 DEF SemState, b

\* An exit unlocks the semaphore named by the pid of the process.
LEMMA UnlockKeeps ==
  ASSUME NEW g, NEW fg, NEW sp, NEW a, NEW h, SemState(g, fg, sp, a, h), NEW p \in Pids,
         Slot(sp, p) # NOT_FOUND
  PROVE  SemState(g, fg, UnlockTable(sp, Slot(sp, p)), a, h)
<1>. DEFINE i == Slot(sp, p)
            t == UnlockTable(sp, i)
<1>1. i \in Slots /\ Busy(sp, i) /\ sp[i].identifier = p
  BY SlotFacts
<1>2. sp \in Table /\ Guarded(sp, a, h) /\ p \notin SemNames
  BY SemStateFacts, KernelConstants
<1>. HIDE DEF i
<1>3. /\ t \in Table
      /\ \A j \in Slots : /\ t[j].status = sp[j].status /\ t[j].identifier = sp[j].identifier
                          /\ t[j].queue = sp[j].queue
                          /\ t[j].allowed_processes = sp[j].allowed_processes
                          /\ j # i => t[j] = sp[j]
      /\ ~t[i].is_locked
  <2>1. Relocked(sp, t, i) /\ ~t[i].is_locked
    BY <1>1, <1>2, UnlockFacts
  <2>. HIDE DEF t
  <2>. QED  BY <2>1 DEF Relocked
<1>. HIDE DEF t
<1>4. SameSlots(sp, t)
  BY <1>1, <1>2, <1>3 DEF SameSlots, Guarded, KindsOK, Busy
<1>5. Guarded(t, a, h)
  BY <1>2, <1>4, SameSlotsGuarded
<1>6. ASSUME OneName PROVE Watched(g.status, g.current_pcb, t, a, h)
  <2>1. Watched(g.status, g.current_pcb, sp, a, h)
    BY <1>6 DEF SemState
  <2>2. \A x \in Pids : a[x].op = "wait" => a[x].slot \in Slots /\ a[x].slot # i
    BY <1>1, <1>2 DEF Guarded, WaitersStand
  <2>3. \A x \in Pids : a[x].op = "wait" /\ sp[a[x].slot].is_locked => t[a[x].slot].is_locked
    BY <1>3, <2>2
  <2>4. \A j \in Slots : Busy(t, j) /\ t[j].is_locked /\ t[j].identifier \in SemNames
                           => Busy(sp, j) /\ sp[j].is_locked /\ sp[j].identifier = t[j].identifier
    BY <1>3 DEF Busy
  <2>. QED  BY <1>3, <2>1, <2>2, <2>3, <2>4, TableWatched
<1>. QED  BY <1>5, <1>6 DEF SemState, t, i

\* Whoever sleeps is in a queue of the scheduler, so a wake-up reaches it.
LEMMA WokenAwake ==
  ASSUME NEW g, Safe(g), g.creation_queue = <<>>, NEW W \in SUBSET Pids,
         \A x \in W : g.status[x] = BLOCKED
  PROVE  LET r == os_revive_process(g, W)
         IN  \A x \in Pids : r.status[x] = IF x \in W THEN READY ELSE g.status[x]
<1>1. \A x \in Pids : os_revive_process(g, W).status[x]
                        = IF /\ x \in W /\ get_pcb_entry(g, x)
                             /\ g.status[x] \in {BLOCKED, RUNNING}
                          THEN READY ELSE g.status[x]
  BY ReviveCalm
<1>2. \A x \in W : get_pcb_entry(g, x)
  <2>1. \A x \in Pids : g.status[x] \notin {NONE, DEAD} /\ x \notin Members(g.creation_queue)
                          => x \in Members(g.queue[g.priority[x]])
    BY DEF Safe, Sound, Queued
  <2>2. Members(g.creation_queue) = {}
    BY DEF Members
  <2>3. \A x \in Pids : g.priority[x] \in Priorities
    BY QueueTypes DEF Safe
  <2>. QED  BY <2>1, <2>2, <2>3 DEF get_pcb_entry, BLOCKED, NONE, DEAD
<1>. QED  BY <1>1, <1>2

\* The wake-up of an exit.
LEMMA WakeKeeps ==
  ASSUME NEW g, NEW fg, NEW sp, NEW a, NEW h, SemState(g, fg, sp, a, h), NEW i \in Slots
  PROVE  SemState(os_revive_process(g, Members(First(sp[i].queue))), fg, WakeTable(sp, i), a, h)
<1>. DEFINE W == Members(First(sp[i].queue))
            r == os_revive_process(g, W)
            t == WakeTable(sp, i)
<1>1. /\ Safe(g) /\ sp \in Table /\ Guarded(sp, a, h) /\ g.creation_queue = <<>>
      /\ g.current_pcb \in Pids
  BY SemStateFacts DEF SemState
<1>2. /\ Safe(r) /\ SameRest(g, r) /\ SameLists(g, r)
      /\ \A x \in Pids : r.status[x] = IF /\ x \in W /\ get_pcb_entry(g, x)
                                          /\ g.status[x] \in {BLOCKED, RUNNING}
                                       THEN READY ELSE g.status[x]
  BY <1>1, ReviveCalm
<1>3. /\ t \in Table
      /\ \A j \in Slots : /\ t[j].status = sp[j].status /\ t[j].identifier = sp[j].identifier
                          /\ t[j].is_locked = sp[j].is_locked
                          /\ t[j].allowed_processes = sp[j].allowed_processes
                          /\ t[j].queue = IF j = i THEN Rest(sp[i].queue) ELSE sp[j].queue
                          /\ j # i => t[j] = sp[j]
  <2>1. Requeued(sp, t, i, Rest(sp[i].queue))
    BY <1>1, WakeFacts
  <2>. HIDE DEF t
  <2>. QED  BY <2>1 DEF Requeued
<1>4. sp[i].queue \in Seq(Pids)
  BY <1>1, SlotTypes
<1>5. W \subseteq Members(sp[i].queue) /\ Members(sp[i].queue) \subseteq Pids /\ Rest(<<>>) = <<>>
  <2>1. Rest(<<>>) = <<>>
    BY DEF Rest, Woken
  <2>2. W \subseteq Members(sp[i].queue)
    BY <1>4, SplitQueue
  <2>3. Members(sp[i].queue) \subseteq Pids
    BY <1>4 DEF Members
  <2>. QED  BY <2>1, <2>2, <2>3
<1>. HIDE DEF t
<1>6. SameSlots(sp, t)
  <2>1. \A j \in Slots : t[j].status = "AVAILABLE" => t[j] = AVAILABLE
    <3>. SUFFICES ASSUME NEW j \in Slots, t[j].status = "AVAILABLE" PROVE t[j] = AVAILABLE
      OBVIOUS
    <3>1. sp[j] = AVAILABLE
      BY <1>1, <1>3 DEF Guarded, KindsOK
    <3>2. sp[j].queue = <<>> /\ t[j].queue = sp[j].queue
      BY <1>3, <1>5, <3>1 DEF AVAILABLE
    <3>3. t[j] \in Semaphore /\ sp[j] \in Semaphore
      BY <1>1, <1>3, SlotTypes
    <3>4. t[j] = sp[j]
      BY <1>3, <3>2, <3>3 DEF Semaphore
    <3>. QED  BY <3>1, <3>4
  <2>. QED  BY <1>3, <2>1 DEF SameSlots
<1>7. Guarded(t, a, h)
  BY <1>1, <1>6, SameSlotsGuarded
<1>8. DeadLeave(r.status, a)
  <2>. HIDE DEF r
  <2>. QED  BY <1>2 DEF SemState, DeadLeave, READY, DEAD, BLOCKED, RUNNING
<1>9. ASSUME OneName PROVE Watched(r.status, r.current_pcb, t, a, h)
  <2>1. Watched(g.status, g.current_pcb, sp, a, h)
    BY <1>9 DEF SemState
  <2>2. \A x \in W : g.status[x] = BLOCKED
    BY <1>5, <2>1 DEF Watched, QueuesSleep
  <2>. HIDE DEF W
  <2>3. \A x \in Pids : r.status[x] = IF x \in W THEN READY ELSE g.status[x]
    BY <1>1, <1>5, <2>2, WokenAwake
  <2>. HIDE DEF r
  <2>4. LocksHeld(t, h)
    BY <1>3, <2>1 DEF Watched, LocksHeld, Busy
  <2>. DEFINE s == r.status
  <2>. HIDE DEF s
  <2>5. \A x \in Pids : s[x] = IF x \in Members(First(sp[i].queue)) THEN READY ELSE g.status[x]
    BY <2>3 DEF s, W
  <2>6. Watched(s, g.current_pcb, t, a, h)
    BY <1>1, <1>3, <2>1, <2>4, <2>5, WakeWatched
  <2>. QED  BY <1>2, <2>6 DEF SameRest, s
<1>. QED  BY <1>1, <1>2, <1>7, <1>8, <1>9 DEF SemState, SameLists, t, r, W

\* The process that exits dies.
LEMMA DieKeeps ==
  ASSUME NEW g, NEW fg, NEW sp, NEW a, NEW h, SemState(g, fg, sp, a, h),
         h[g.current_pcb] = {}, a[g.current_pcb].op = "die"
  PROVE  SemState([g EXCEPT !.status[g.current_pcb] = DEAD], fg, sp,
                  [a EXCEPT ![g.current_pcb] = Goes("remove", 0)], h)
<1>. DEFINE c == g.current_pcb
            x == Goes("remove", 0)
            b == [a EXCEPT ![c] = x]
            r == [g EXCEPT !.status[c] = DEAD]
<1>1. /\ Safe(g) /\ c \in Pids /\ Guarded(sp, a, h) /\ a \in [Pids -> Place]
      /\ g.status[c] # NONE /\ g.creation_queue = <<>>
  BY SemStateFacts DEF SemState
<1>2. c # IDLE_PID
  BY DEF SemState
<1>3. /\ Safe(r) /\ SameRest(g, r) /\ SameLists(g, r)
      /\ \A p \in Pids : r.status[p] = IF p = c THEN DEAD ELSE g.status[p]
  BY <1>1, <1>2, SetStatusCalm
<1>4. x \in Place /\ x.op = "remove"
  BY DEF Goes, Place
<1>. HIDE DEF x, r
<1>5. \A p \in Pids : b[p] = IF p = c THEN x ELSE a[p]
  BY <1>1
<1>6. Guarded(sp, b, h)
  BY <1>1, <1>4, MovesOnGuarded
<1>7. ASSUME OneName PROVE Watched(r.status, r.current_pcb, sp, b, h)
  <2>1. Watched(g.status, c, sp, a, h) /\ g.status[c] # BLOCKED
    BY <1>7 DEF SemState, Watched
  <2>2. Watched(g.status, c, sp, b, h)
    BY <1>1, <2>1, MovesOnWatched
  <2>. HIDE DEF b
  <2>3. \A p \in Pids : r.status[p] = BLOCKED <=> g.status[p] = BLOCKED
    BY <1>3, <2>1 DEF DEAD, BLOCKED
  <2>4. \A p \in Pids : g.status[p] \in Awake /\ (b[p].op = "wait" \/ h[p] # {}) => r.status[p] \in Awake
    BY <1>3, <1>4, <1>5
  <2>5. r.status[r.current_pcb] # BLOCKED
    BY <1>1, <1>3 DEF SameRest, DEAD, BLOCKED
  <2>. QED  BY <1>6, <2>2, <2>3, <2>4, <2>5, StatusWatched
<1>. HIDE DEF b
<1>8. DeadLeave(r.status, b)
  BY <1>3, <1>4, <1>5 DEF SemState, DeadLeave
<1>9. b[IDLE_PID].op = "user"
  BY <1>2, <1>5, ConstantFacts DEF SemState
<1>. QED  BY <1>1, <1>3, <1>6, <1>7, <1>8, <1>9 DEF SemState, SameLists, b, x, r

\* The dead process queues itself for removal.
LEMMA RemoveKeeps ==
  ASSUME NEW g, NEW fg, NEW sp, NEW a, NEW h, SemState(g, fg, sp, a, h),
         h[g.current_pcb] = {}, a[g.current_pcb].op = "remove"
  PROVE  SemState(add_process_to_removal_queue(g, g.current_pcb), fg, sp,
                  [a EXCEPT ![g.current_pcb] = Goes("finish", 0)], h)
<1>. DEFINE c == g.current_pcb
            x == Goes("finish", 0)
            b == [a EXCEPT ![c] = x]
            r == add_process_to_removal_queue(g, c)
<1>1. /\ Safe(g) /\ c \in Pids /\ Guarded(sp, a, h) /\ a \in [Pids -> Place]
      /\ g.creation_queue = <<>>
  BY SemStateFacts DEF SemState
<1>2. c # IDLE_PID /\ g.status[c] = DEAD
  BY <1>1 DEF SemState, DeadLeave
<1>3. Safe(r) /\ SameRest(g, r) /\ r.status = g.status /\ r.creation_queue = g.creation_queue
  BY <1>1, <1>2, RemovalCalm
<1>4. x \in Place /\ x.op = "finish"
  BY DEF Goes, Place
<1>. HIDE DEF x, r
<1>5. \A p \in Pids : b[p] = IF p = c THEN x ELSE a[p]
  BY <1>1
<1>6. Guarded(sp, b, h)
  BY <1>1, <1>4, MovesOnGuarded
<1>7. ASSUME OneName PROVE Watched(r.status, r.current_pcb, sp, b, h)
  <2>1. Watched(g.status, c, sp, a, h) /\ g.status[c] # BLOCKED
    BY <1>7 DEF SemState, Watched
  <2>2. Watched(g.status, c, sp, b, h)
    BY <1>1, <2>1, MovesOnWatched
  <2>. QED  BY <1>3, <2>2 DEF SameRest
<1>. HIDE DEF b
<1>8. DeadLeave(r.status, b)
  BY <1>2, <1>3, <1>4, <1>5 DEF SemState, DeadLeave
<1>9. b[IDLE_PID].op = "user"
  BY <1>2, <1>5, ConstantFacts DEF SemState
<1>. QED  BY <1>1, <1>3, <1>6, <1>7, <1>8, <1>9 DEF SemState, b, x, r

\* The holder posts.
LEMMA PostKeeps ==
  ASSUME NEW g, NEW fg, NEW sp, NEW a, NEW h, SemState(g, fg, sp, a, h), NEW n \in SemNames,
         n \in h[g.current_pcb]
  PROVE  SemState(os_revive_process(g, PostWakes(sp, n)), fg, PostTable(sp, n), a,
                  [h EXCEPT ![g.current_pcb] = @ \ {n}])
<1>. DEFINE c == g.current_pcb
            i == Slot(sp, n)
            W == PostWakes(sp, n)
            r == os_revive_process(g, W)
            t == PostTable(sp, n)
            u == [h EXCEPT ![c] = @ \ {n}]
<1>1. /\ Safe(g) /\ c \in Pids /\ Guarded(sp, a, h) /\ sp \in Table
      /\ h \in [Pids -> SUBSET SemNames] /\ g.creation_queue = <<>>
  BY SemStateFacts DEF SemState
<1>2. i # NOT_FOUND
  BY <1>1, SlotFacts DEF Guarded, HoldersStand
<1>3. /\ i \in Slots /\ Busy(sp, i) /\ sp[i].identifier = n /\ t \in Table
      /\ W = Members(First(sp[i].queue))
      /\ \A j \in Slots : /\ t[j].status = sp[j].status
                          /\ t[j].identifier = sp[j].identifier
                          /\ t[j].allowed_processes = sp[j].allowed_processes
                          /\ t[j].queue = IF j = i THEN Rest(sp[i].queue) ELSE sp[j].queue
                          /\ j # i => t[j] = sp[j]
      /\ ~t[i].is_locked
  <2>1. Posted(sp, n, i, t, W)
    BY <1>1, <1>2, PostFacts
  <2>. HIDE DEF i, t, W
  <2>. QED  BY <2>1 DEF Posted
<1>4. Guarded(t, a, u)
  BY <1>1, PostGuarded
<1>5. /\ Safe(r) /\ SameRest(g, r) /\ SameLists(g, r)
      /\ \A x \in Pids : r.status[x] = IF /\ x \in W /\ get_pcb_entry(g, x)
                                          /\ g.status[x] \in {BLOCKED, RUNNING}
                                       THEN READY ELSE g.status[x]
  BY <1>1, ReviveCalm
<1>6. DeadLeave(r.status, a)
  <2>. HIDE DEF r
  <2>. QED  BY <1>5 DEF SemState, DeadLeave, READY, DEAD, BLOCKED, RUNNING
<1>7. \A p \in Pids : u[p] = IF p = c THEN h[c] \ {n} ELSE h[p]
  BY <1>1
<1>. HIDE DEF t, i, W, u
<1>8. ASSUME OneName PROVE Watched(r.status, r.current_pcb, t, a, u)
  <2>1. Watched(g.status, c, sp, a, h)
    BY <1>8 DEF SemState
  <2>2. sp[i].queue \in Seq(Pids)
    BY <1>1, <1>3, SlotTypes
  <2>3. W \subseteq Members(sp[i].queue)
    BY <1>3, <2>2, SplitQueue
  <2>4. Members(sp[i].queue) \subseteq Pids
    BY <2>2 DEF Members
  <2>5. \A x \in W : g.status[x] = BLOCKED
    BY <1>3, <2>1, <2>3 DEF Watched, QueuesSleep
  <2>6. \A x \in Pids : r.status[x] = IF x \in W THEN READY ELSE g.status[x]
    BY <1>1, <2>3, <2>4, <2>5, WokenAwake
  <2>. HIDE DEF r
  <2>7. LocksHeld(t, u)
    <3>. SUFFICES ASSUME NEW j \in Slots, Busy(t, j), t[j].is_locked, t[j].identifier \in SemNames
                  PROVE  \E p \in Pids : t[j].identifier \in u[p]
      BY DEF LocksHeld
    <3>1. j # i /\ Busy(sp, j) /\ sp[j].is_locked /\ sp[j].identifier = t[j].identifier
      BY <1>3 DEF Busy
    <3>2. sp[j].identifier # n
      BY <1>1, <1>3, <3>1 DEF Guarded, OneSlot
    <3>3. PICK p \in Pids : sp[j].identifier \in h[p]
      BY <2>1, <3>1 DEF Watched, LocksHeld
    <3>4. sp[j].identifier \in u[p]
      BY <1>7, <3>2, <3>3
    <3>. QED  BY <3>1, <3>4
  <2>8. \A p \in Pids : u[p] \subseteq h[p]
    BY <1>7
  <2>. DEFINE s == r.status
  <2>. HIDE DEF s
  <2>9. \A x \in Pids : s[x] = IF x \in Members(First(sp[i].queue)) THEN READY ELSE g.status[x]
    BY <1>3, <2>6 DEF s
  <2>10. /\ \A j \in Slots : t[j].queue = IF j = i THEN Rest(sp[i].queue) ELSE sp[j].queue
         /\ \A j \in Slots : j # i => t[j].is_locked = sp[j].is_locked
    BY <1>3
  <2>11. i \in Slots /\ c \in Pids /\ Guarded(sp, a, h)
    BY <1>1, <1>3
  <2>. HIDE DEF c
  <2>12. Watched(s, c, t, a, u)
    BY <2>1, <2>7, <2>8, <2>9, <2>10, <2>11, WakeWatched
  <2>. QED  BY <1>5, <2>12 DEF SameRest, s, c
<1>. QED  BY <1>1, <1>4, <1>5, <1>6, <1>8 DEF SemState, SameLists, t, r, W, u

\* What the current process needs to enter region i: it waits there, or asked for it.
Enters(g, sp, a, h, n, i) ==
  LET c == g.current_pcb
  IN  /\ i \in Slots /\ Busy(sp, i) /\ sp[i].identifier = n
      /\ Stands(c, sp[i].allowed_processes)
      /\ \/ a[c].op = "wait" /\ a[c].slot = i
         \/ a[c].op = "user" /\ c # IDLE_PID /\ n \notin h[c]

\* enter_region on an open lock.
LEMMA TakeKeeps ==
  ASSUME NEW g, NEW fg, NEW sp, NEW a, NEW h, SemState(g, fg, sp, a, h), NEW n \in SemNames,
         NEW i, Enters(g, sp, a, h, n, i), ~sp[i].is_locked
  PROVE  SemState(g, fg, [sp EXCEPT ![i].is_locked = TRUE], [a EXCEPT ![g.current_pcb] = User],
                  [h EXCEPT ![g.current_pcb] = @ \cup {n}])
<1>. DEFINE c == g.current_pcb
            t == [sp EXCEPT ![i].is_locked = TRUE]
            b == [a EXCEPT ![c] = User]
            u == [h EXCEPT ![c] = @ \cup {n}]
<1>1. /\ Safe(g) /\ c \in Pids /\ Guarded(sp, a, h) /\ sp \in Table /\ a \in [Pids -> Place]
      /\ h \in [Pids -> SUBSET SemNames] /\ g.status \in [Pids -> Statuses] /\ g.status[c] # NONE
  BY SemStateFacts
<1>2. /\ i \in Slots /\ Busy(sp, i) /\ sp[i].identifier = n /\ Stands(c, sp[i].allowed_processes)
      /\ a[c].op = "user" \/ a[c].slot = i
      /\ a[c].op \in {"user", "wait"}
  BY DEF Enters
<1>3. Guarded(t, b, u)
  BY <1>1, <1>2, TakeGuarded
<1>4. /\ t \in Table
      /\ \A j \in Slots : /\ t[j].status = sp[j].status /\ t[j].identifier = sp[j].identifier
                          /\ t[j].queue = sp[j].queue
                          /\ t[j].allowed_processes = sp[j].allowed_processes
                          /\ j # i => t[j] = sp[j]
  <2>1. Relocked(sp, t, i)
    BY <1>1, <1>2, SetLock
  <2>. HIDE DEF t
  <2>. QED  BY <2>1 DEF Relocked
<1>4a. t[i].is_locked
  BY <1>1, <1>2 DEF Table, Semaphore
<1>5. \A p \in Pids : b[p] = IF p = c THEN User ELSE a[p]
  BY <1>1
<1>6. \A p \in Pids : u[p] = IF p = c THEN h[c] \cup {sp[i].identifier} ELSE h[p]
  BY <1>1, <1>2
<1>7. User.op = "user"
  BY DEF User
<1>. HIDE DEF t, b, u
<1>8. DeadLeave(g.status, b) /\ b[IDLE_PID].op = "user"
  BY <1>2, <1>5, <1>7, ConstantFacts DEF SemState, DeadLeave
<1>9. ASSUME OneName PROVE Watched(g.status, c, t, b, u)
  <2>1. Watched(g.status, c, sp, a, h)
    BY <1>9 DEF SemState
  <2>2. g.status[c] # DEAD
    BY <1>1, <1>2 DEF SemState, DeadLeave
  <2>3. g.status[c] \in Awake
    BY <1>1, <2>1, <2>2 DEF Watched, Awake, Statuses
  <2>4. \A j \in Slots : /\ t[j].queue = sp[j].queue /\ t[j].identifier = sp[j].identifier
                         /\ t[j].status = sp[j].status
                         /\ j # i => t[j].is_locked = sp[j].is_locked
    BY <1>4
  <2>5. /\ t[i].is_locked /\ i \in Slots /\ c \in Pids /\ Guarded(sp, a, h) /\ sp[i].identifier \in SemNames
        /\ a[c].op = "user" \/ a[c].slot = i
    BY <1>1, <1>2, <1>4a
  <2>. DEFINE st == g.status
  <2>6. Watched(st, c, sp, a, h) /\ st[c] \in Awake
    BY <2>1, <2>3
  <2>. HIDE DEF st, c
  <2>7. Taken(st, c, sp, a, h, i, t, b, u)
    BY <1>5, <1>6, <2>4, <2>5, <2>6 DEF Taken
  <2>. QED  BY <2>7, TakeWatched DEF st
<1>. QED  BY <1>3, <1>8, <1>9 DEF SemState, t, b, u

\* enter_region on a closed lock.
LEMMA SleepKeeps ==
  ASSUME NEW g, NEW fg, NEW sp, NEW a, NEW h, SemState(g, fg, sp, a, h), NEW n \in SemNames,
         NEW i, Enters(g, sp, a, h, n, i), sp[i].is_locked
  PROVE  SemState(block_current(g), fg, [sp EXCEPT ![i].queue = Append(@, g.current_pcb)],
                  [a EXCEPT ![g.current_pcb] = Waiting(n, i)], h)
<1>. DEFINE c == g.current_pcb
            q == Append(sp[i].queue, c)
            t == [sp EXCEPT ![i].queue = Append(@, c)]
            v == [sp EXCEPT ![i].queue = q]
            w == Waiting(n, i)
            b == [a EXCEPT ![c] = w]
            r == block_current(g)
<1>1. /\ Safe(g) /\ c \in Pids /\ Guarded(sp, a, h) /\ sp \in Table /\ a \in [Pids -> Place]
      /\ h \in [Pids -> SUBSET SemNames] /\ g.status \in [Pids -> Statuses] /\ g.status[c] # NONE
  BY SemStateFacts
<1>2. /\ i \in Slots /\ Busy(sp, i) /\ sp[i].identifier = n /\ Stands(c, sp[i].allowed_processes)
      /\ a[c].op = "user" \/ a[c].slot = i
      /\ a[c].op \in {"user", "wait"} /\ c # IDLE_PID
  BY DEF Enters, SemState
<1>3. g.status[c] # DEAD
  BY <1>1, <1>2 DEF SemState, DeadLeave
<1>4. Guarded(t, b, h)
  BY <1>1, <1>2, SleepGuarded
<1>5. \A j \in Slots : /\ t[j].queue = IF j = i THEN q ELSE sp[j].queue
                       /\ t[j].identifier = sp[j].identifier /\ t[j].status = sp[j].status
                       /\ t[j].is_locked = sp[j].is_locked
  <2>1. t = v
    OBVIOUS
  <2>2. q \in Seq(Pids)
    BY <1>1, <1>2, SlotTypes
  <2>. HIDE DEF q, t
  <2>3. Requeued(sp, v, i, q)
    BY <1>1, <1>2, <2>2, SetQueue
  <2>. HIDE DEF v
  <2>4. Requeued(sp, t, i, q)
    BY <2>1, <2>3
  <2>. QED  BY <2>4 DEF Requeued
<1>6. w.op = "wait"
  BY DEF Waiting
<1>7. \A p \in Pids : b[p] = IF p = c THEN w ELSE a[p]
  BY <1>1
<1>8. /\ Safe(r) /\ r.creation_queue = <<>> /\ r.status[r.current_pcb] = RUNNING
      /\ \A x \in Pids : /\ r.status[x] = BLOCKED <=> x = c \/ g.status[x] = BLOCKED
                         /\ r.status[x] = DEAD <=> g.status[x] = DEAD
                         /\ r.status[x] = NONE <=> g.status[x] = NONE
  BY <1>1, <1>2, <1>3, BlockCalm
<1>. HIDE DEF t, b, w, r, q
<1>9. DeadLeave(r.status, b) /\ b[IDLE_PID].op = "user"
  BY <1>1, <1>2, <1>3, <1>6, <1>7, <1>8, ConstantFacts DEF SemState, DeadLeave
<1>10. ASSUME OneName PROVE Watched(r.status, r.current_pcb, t, b, h)
  <2>1. Watched(g.status, c, sp, a, h)
    BY <1>10 DEF SemState
  <2>2. h[c] = {}
    <3>1. CASE a[c].op = "wait"
      BY <1>1, <2>1, <3>1 DEF Watched, HoldersAwake
    <3>2. CASE n \notin h[c]
      BY <1>1, <1>10, <3>2 DEF OneName
    <3>. QED  BY <3>1, <3>2 DEF Enters
  <2>3. r.status \in [Pids -> Statuses]
    BY <1>8, QueueTypes DEF Safe
  <2>4. \A x \in Pids : g.status[x] \in Awake /\ x # c => r.status[x] \in Awake
    BY <1>8, <2>3 DEF Awake, Statuses, READY, RUNNING, BLOCKED, DEAD, NONE
  <2>5. r.status[r.current_pcb] # BLOCKED
    BY <1>8 DEF RUNNING, BLOCKED
  <2>6. /\ \A j \in Slots : /\ t[j].queue = IF j = i THEN Append(sp[i].queue, c) ELSE sp[j].queue
                            /\ t[j].identifier = sp[j].identifier /\ t[j].status = sp[j].status
                            /\ t[j].is_locked = sp[j].is_locked
        /\ \A p \in Pids : b[p] = IF p = c THEN Waiting(n, i) ELSE a[p]
    BY <1>5, <1>7 DEF q, w
  <2>. QED  BY <1>1, <1>2, <1>8, <2>1, <2>2, <2>4, <2>5, <2>6, SleepWatched
<1>. QED  BY <1>4, <1>8, <1>9, <1>10 DEF SemState, t, b, w, r

-----------------------------------------------------------------------------
(* Steps of the specification. *)

\* The scheduler's variables as fields of its state.
LEMMA SchedFields ==
  /\ Sched.status = status /\ Sched.current_pcb = current_pcb /\ Sched.pid = pid
  /\ Sched.creation_queue = creation_queue /\ Sched.fault = fault
  /\ Sched.waiting_for_remove = waiting_for_remove
  BY DEF Sched

\* With nothing pending, a step leaves the foreground to its own code.
LEMMA StaysForeground ==
  ASSUME NEW f, SemInv, Moved(f)
  PROVE  foreground_pid' = f
<1>1. creation_queue = <<>>
  BY SchedFields DEF SemInv, SemState
<1>. QED  BY <1>1 DEF Moved

\* A step whose parts are known leads to a state that satisfies the invariant.
LEMMA Lands ==
  ASSUME SemInv, NEW g, NEW f, NEW sp, NEW a, NEW h, SemState(g, f, sp, a, h),
         Sched' = g, sem_spaces' = sp, at' = a, holding' = h, Moved(f)
  PROVE  SemInv'
<1>1. foreground_pid' = f
  BY StaysForeground
<1>. QED  BY <1>1 DEF SemInv

\* A timer interrupt, or a process that gives up its turn.
LEMMA TurnStep ==
  ASSUME SemInv, TimerInterrupt \/ SysYield \/ ExitFinish
  PROVE  SemInv'
<1>0. SemState(Sched, foreground_pid, sem_spaces, at, holding) /\ Safe(Sched)
  BY DEF SemInv, SemState
<1>1. CASE TimerInterrupt
  <2>. DEFINE r == timer_interrupt(Sched)
  <2>1. \/ Switched(Sched, r)
        \/ /\ Safe(r) /\ r.status = Sched.status /\ r.current_pcb = Sched.current_pcb
           /\ r.creation_queue = Sched.creation_queue
    BY <1>0, TimerCalm
  <2>2. Sched' = r /\ sem_spaces' = sem_spaces /\ at' = at /\ holding' = holding /\ Moved(foreground_pid)
    BY <1>1, TimerEffect
  <2>. HIDE DEF r
  <2>3. SemState(r, foreground_pid, sem_spaces, at, holding)
    BY <1>0, <2>1, CalmKeeps
  <2>. QED  BY <2>2, <2>3, Lands
<1>2. CASE SysYield \/ ExitFinish
  <2>. DEFINE r == finish_current_tick(Sched)
  <2>1. Switched(Sched, r)
    BY <1>0, FinishTickCalm
  <2>2. Sched' = r /\ sem_spaces' = sem_spaces /\ at' = at /\ holding' = holding /\ Moved(foreground_pid)
    BY <1>2, YieldEffect
  <2>. HIDE DEF r
  <2>3. SemState(r, foreground_pid, sem_spaces, at, holding)
    BY <1>0, <2>1, CalmKeeps
  <2>. QED  BY <2>2, <2>3, Lands
<1>. QED  BY <1>1, <1>2

\* What a system call finds.
LEMMA RunningFacts ==
  ASSUME Running
  PROVE  Sched.current_pcb # IDLE_PID /\ at[Sched.current_pcb].op = "user"
  BY SchedFields DEF Running, InUserCode

\* Creating a process keeps the invariant.
LEMMA CreateStep ==
  ASSUME SemInv, SysCreate(FALSE)
  PROVE  SemInv'
<1>1. SemState(Sched, foreground_pid, sem_spaces, at, holding)
  BY DEF SemInv
<1>2. Sched.pid =< MaxPid
  BY SchedFields DEF SysCreate
<1>3. SemState(create_and_insert_process(Sched), foreground_pid,
               OpenTable(sem_spaces, 1, Sched.pid, Sched.current_pcb), at, holding)
  BY <1>1, <1>2, CreateKeeps
<1>4. /\ Sched' = create_and_insert_process(Sched)
      /\ sem_spaces' = OpenTable(sem_spaces, 1, pid, current_pcb)
      /\ at' = at /\ holding' = holding /\ Moved(foreground_pid)
  BY CreateEffect
<1>5. sem_spaces' = OpenTable(sem_spaces, 1, Sched.pid, Sched.current_pcb)
  BY <1>4, SchedFields
<1>. QED  BY <1>3, <1>4, <1>5, Lands

\* So does opening a semaphore,
LEMMA OpenStep ==
  ASSUME SemInv, NEW n \in SemNames, SysSemOpen(n, 0)
  PROVE  SemInv'
<1>1. SemState(Sched, foreground_pid, sem_spaces, at, holding)
  BY DEF SemInv
<1>2. SemState(Sched, foreground_pid, OpenTable(sem_spaces, 0, n, Sched.current_pcb), at, holding)
  BY <1>1, OpenKeeps
<1>3. /\ Sched' = Sched /\ sem_spaces' = OpenTable(sem_spaces, 0, n, Sched.current_pcb)
      /\ at' = at /\ holding' = holding /\ Moved(foreground_pid)
  BY SemOpenEffect, SchedFields
<1>. QED  BY <1>2, <1>3, Lands

\* closing one,
LEMMA CloseStep ==
  ASSUME SemInv, NEW n \in SemNames, SysSemClose(n), n \notin holding[current_pcb]
  PROVE  SemInv'
<1>1. SemState(Sched, foreground_pid, sem_spaces, at, holding)
  BY DEF SemInv
<1>2. n \notin holding[Sched.current_pcb] /\ at[Sched.current_pcb].op = "user"
  BY SchedFields, RunningFacts DEF SysSemClose
<1>3. SemState(Sched, foreground_pid, CloseTable(sem_spaces, n, Sched.current_pcb), at, holding)
  BY <1>1, <1>2, CloseKeeps
<1>4. /\ Sched' = Sched /\ sem_spaces' = CloseTable(sem_spaces, n, Sched.current_pcb)
      /\ at' = at /\ holding' = holding /\ Moved(foreground_pid)
  BY SemCloseEffect, SchedFields
<1>. QED  BY <1>3, <1>4, Lands

\* posting one,
LEMMA PostStep ==
  ASSUME SemInv, NEW n \in SemNames, SysSemPost(n), n \in holding[current_pcb]
  PROVE  SemInv'
<1>. DEFINE g == os_revive_process(Sched, PostWakes(sem_spaces, n))
            t == PostTable(sem_spaces, n)
            h == [holding EXCEPT ![Sched.current_pcb] = @ \ {n}]
<1>1. SemState(Sched, foreground_pid, sem_spaces, at, holding)
  BY DEF SemInv
<1>2. n \in holding[Sched.current_pcb] /\ Sched \in SchedState
  BY <1>1, SchedFields, SemStateFacts
<1>3. SemState(g, foreground_pid, t, at, h)
  BY <1>1, <1>2, PostKeeps
<1>4. Sched' = g /\ sem_spaces' = t /\ at' = at /\ Moved(foreground_pid) /\ holding' = h
  BY <1>2, SemPostEffect, SchedFields
<1>. HIDE DEF g, t, h
<1>. QED  BY <1>3, <1>4, Lands

\* A client enters the region it asked for, or was woken for.
LEMMA EnterStep ==
  ASSUME SemInv, NEW n \in SemNames, NEW i, Enters(Sched, sem_spaces, at, holding, n, i),
         Takes(n, i) \/ Sleeps(n, i)
  PROVE  SemInv'
<1>. DEFINE c == Sched.current_pcb
            t == [sem_spaces EXCEPT ![i].is_locked = TRUE]
            q == [sem_spaces EXCEPT ![i].queue = Append(@, c)]
            u == [at EXCEPT ![c] = User]
            w == [at EXCEPT ![c] = Waiting(n, i)]
            h == [holding EXCEPT ![c] = @ \cup {n}]
<1>1. SemState(Sched, foreground_pid, sem_spaces, at, holding)
  BY DEF SemInv
<1>2. ~Reaps(Sched, n)
  BY KernelConstants DEF Reaps
<1>3. CASE Takes(n, i)
  <2>1. ~sem_spaces[i].is_locked
    BY <1>3 DEF Takes
  <2>2. SemState(Sched, foreground_pid, t, u, h)
    BY <1>1, <2>1, TakeKeeps
  <2>3. Sched' = Sched /\ sem_spaces' = t /\ at' = u /\ holding' = h /\ Moved(foreground_pid)
    BY <1>2, <1>3, SchedFields DEF Takes, ReapSched, ReapTable, ReapFore
  <2>. HIDE DEF t, u, h
  <2>. QED  BY <2>2, <2>3, Lands
<1>4. CASE Sleeps(n, i)
  <2>1. sem_spaces[i].is_locked
    BY <1>4 DEF Sleeps
  <2>. DEFINE g == block_current(Sched)
  <2>2. SemState(g, foreground_pid, q, w, holding)
    BY <1>1, <2>1, SleepKeeps
  <2>3. Sched' = g /\ sem_spaces' = q /\ at' = w /\ holding' = holding /\ Moved(foreground_pid)
    BY <1>4, SchedFields DEF Sleeps
  <2>. HIDE DEF q, w, g
  <2>. QED  BY <2>2, <2>3, Lands
<1>. QED  BY <1>3, <1>4

\* A waiter that is scheduled tries again.
LEMMA RetryStep ==
  ASSUME SemInv, Retry
  PROVE  SemInv'
<1>. DEFINE c == Sched.current_pcb
            n == at[c].name
            i == at[c].slot
<1>1. SemState(Sched, foreground_pid, sem_spaces, at, holding)
  BY DEF SemInv
<1>2. c \in Pids /\ Sched \in SchedState /\ Guarded(sem_spaces, at, holding)
  BY <1>1, SemStateFacts
<1>3. at[c].op = "wait"
  BY SchedFields DEF Retry
<1>4. /\ n \in SemNames /\ i \in Slots /\ Busy(sem_spaces, i)
      /\ sem_spaces[i].identifier = n /\ Stands(c, sem_spaces[i].allowed_processes)
  BY <1>2, <1>3 DEF Guarded, WaitersStand
<1>5. Enters(Sched, sem_spaces, at, holding, n, i)
  BY <1>3, <1>4 DEF Enters
<1>6. Takes(n, i) \/ Sleeps(n, i)
  BY <1>2, RetryEffect, SchedFields
<1>. QED  BY <1>4, <1>5, <1>6, EnterStep

\* waiting for one,
LEMMA WaitStep ==
  ASSUME SemInv, NEW n \in SemNames, SysSemWait(n), n \notin holding[current_pcb]
  PROVE  SemInv'
<1>. DEFINE c == Sched.current_pcb
            i == Slot(sem_spaces, n)
<1>1. SemState(Sched, foreground_pid, sem_spaces, at, holding)
  BY DEF SemInv
<1>2. Sched \in SchedState
  BY <1>1, SemStateFacts
<1>3. c # IDLE_PID /\ at[c].op = "user" /\ n \notin holding[c] /\ c = current_pcb
  BY RunningFacts, SchedFields DEF SysSemWait
<1>4. \/ /\ i # NOT_FOUND /\ c \in Members(sem_spaces[i].allowed_processes)
         /\ Takes(n, i) \/ Sleeps(n, i)
      \/ Passes(n)
  BY <1>2, <1>3, SemWaitEffect
<1>5. CASE Passes(n)
  <2>1. ~Reaps(Sched, n)
    BY KernelConstants DEF Reaps
  <2>2. /\ Sched' = Sched /\ sem_spaces' = sem_spaces /\ at' = at /\ holding' = holding
        /\ Moved(foreground_pid)
    BY <1>5, <2>1, PassesNothing
  <2>. QED  BY <1>1, <2>2, Lands
<1>6. CASE /\ i # NOT_FOUND /\ c \in Members(sem_spaces[i].allowed_processes)
           /\ Takes(n, i) \/ Sleeps(n, i)
  <2>1. i \in Slots /\ Busy(sem_spaces, i) /\ sem_spaces[i].identifier = n
    BY <1>6, SlotFacts
  <2>2. Stands(c, sem_spaces[i].allowed_processes)
    BY <1>6 DEF Stands
  <2>3. Enters(Sched, sem_spaces, at, holding, n, i)
    BY <1>3, <2>1, <2>2 DEF Enters
  <2>. HIDE DEF i
  <2>. QED  BY <1>6, <2>3, EnterStep
<1>. QED  BY <1>4, <1>5, <1>6

\* A client that holds nothing returns from its entry point.
LEMMA ExitStep ==
  ASSUME SemInv, Exit, Client, holding[current_pcb] = {}
  PROVE  SemInv'
<1>. DEFINE c == Sched.current_pcb
<1>1. SemState(Sched, foreground_pid, sem_spaces, at, holding)
  BY DEF SemInv
<1>2. /\ Sched \in SchedState /\ c \in Pids /\ c # IDLE_PID /\ holding[c] = {} /\ c = current_pcb
      /\ foreground_pid \in Pids /\ SHELL_PID \in Pids
  BY <1>1, SemStateFacts, SchedFields, KernelConstants, ConstantFacts DEF Client, SemState
<1>3. Goes("unlock", 0) \in Place /\ Goes("unlock", 0).op = "unlock"
  BY DEF Goes, Place
<1>4. Goes("die", 0) \in Place /\ Goes("die", 0).op = "die"
  BY DEF Goes, Place
<1>5. CASE ExitStart
  <2>. DEFINE f == IF foreground_pid = c THEN SHELL_PID ELSE foreground_pid
              x == Goes("unlock", 0)
              a == [at EXCEPT ![c] = x]
  <2>1. at[c].op = "user"
    BY <1>5, RunningFacts DEF ExitStart
  <2>2. f \in Pids
    BY <1>2
  <2>3. Sched' = Sched /\ sem_spaces' = sem_spaces /\ holding' = holding /\ at' = a /\ Moved(f)
    BY <1>2, <1>5, ExitStartEffect
  <2>. HIDE DEF f, x
  <2>4. x \in Place /\ x.op = "unlock"
    BY <1>3 DEF x
  <2>5. SemState(Sched, f, sem_spaces, a, holding)
    BY <1>1, <1>2, <2>1, <2>2, <2>4, MovesOnKeeps
  <2>. HIDE DEF a
  <2>. QED  BY <2>3, <2>5, Lands
<1>6. CASE ExitUnlock
  <2>. DEFINE i == Slot(sem_spaces, c)
  <2>1. at[c].op = "unlock"
    BY <1>2, <1>6 DEF ExitUnlock, Exiting
  <2>2. CASE i = NOT_FOUND
    <3>. DEFINE x == Goes("die", 0)
                a == [at EXCEPT ![c] = x]
    <3>1. Sched' = Sched /\ sem_spaces' = sem_spaces /\ holding' = holding /\ at' = a /\ Moved(foreground_pid)
      BY <1>2, <1>6, <2>2, ExitUnlockEffect
    <3>. HIDE DEF x
    <3>2. x \in Place /\ x.op = "die"
      BY <1>4 DEF x
    <3>3. SemState(Sched, foreground_pid, sem_spaces, a, holding)
      BY <1>1, <1>2, <2>1, <3>2, MovesOnKeeps
    <3>. HIDE DEF a
    <3>. QED  BY <3>1, <3>3, Lands
  <2>3. CASE i # NOT_FOUND
    <3>. DEFINE x == Goes("wake", i)
                a == [at EXCEPT ![c] = x]
                t == UnlockTable(sem_spaces, i)
    <3>1. Sched' = Sched /\ sem_spaces' = t /\ holding' = holding /\ at' = a /\ Moved(foreground_pid)
      BY <1>2, <1>6, <2>3, ExitUnlockEffect
    <3>2. SemState(Sched, foreground_pid, t, at, holding)
      BY <1>1, <1>2, <2>3, UnlockKeeps
    <3>3. i \in Slots
      BY <2>3, SlotFacts
    <3>. HIDE DEF i, t
    <3>4. x \in Place /\ x.op = "wake" /\ x.slot \in Slots
      BY <3>3 DEF Goes, Place
    <3>. HIDE DEF x
    <3>5. SemState(Sched, foreground_pid, t, a, holding)
      BY <1>2, <2>1, <3>2, <3>4, MovesOnKeeps
    <3>. HIDE DEF a
    <3>. QED  BY <3>1, <3>5, Lands
  <2>. QED  BY <2>2, <2>3
<1>7. CASE ExitWake
  <2>. DEFINE i == at[c].slot
              g == os_revive_process(Sched, Members(First(sem_spaces[i].queue)))
              t == WakeTable(sem_spaces, i)
              x == Goes("die", 0)
              a == [at EXCEPT ![c] = x]
  <2>1. at[c].op = "wake"
    BY <1>2, <1>7 DEF ExitWake, Exiting
  <2>2. i \in Slots
    BY <1>1, <1>2, <2>1, SemStateFacts DEF Guarded, KindsOK
  <2>3. Sched' = g /\ sem_spaces' = t /\ holding' = holding /\ at' = a /\ Moved(foreground_pid)
    BY <1>2, <1>7, ExitWakeEffect
  <2>. HIDE DEF i
  <2>4. SemState(g, foreground_pid, t, at, holding)
    BY <1>1, <2>2, WakeKeeps
  <2>5. g.current_pcb = c
    <3>1. Safe(Sched)
      BY <1>1 DEF SemState
    <3>. QED  BY <3>1, ReviveCalm DEF SameRest
  <2>. HIDE DEF g, x, t
  <2>6. x \in Place /\ x.op = "die"
    BY <1>4 DEF x
  <2>. HIDE DEF c
  <2>7. SemState(g, foreground_pid, t, a, holding)
    BY <1>2, <2>1, <2>4, <2>5, <2>6, MovesOnKeeps
  <2>. HIDE DEF a
  <2>. QED  BY <2>3, <2>7, Lands
<1>8. CASE ExitDie
  <2>. DEFINE g == [Sched EXCEPT !.status[c] = DEAD]
              a == [at EXCEPT ![c] = Goes("remove", 0)]
  <2>1. at[c].op = "die"
    BY <1>2, <1>8 DEF ExitDie, Exiting
  <2>2. Sched' = g /\ sem_spaces' = sem_spaces /\ holding' = holding /\ at' = a /\ Moved(foreground_pid)
    BY <1>2, <1>8, ExitDieEffect
  <2>3. SemState(g, foreground_pid, sem_spaces, a, holding)
    BY <1>1, <1>2, <2>1, DieKeeps
  <2>. HIDE DEF g, a
  <2>. QED  BY <2>2, <2>3, Lands
<1>9. CASE ExitRemove
  <2>. DEFINE g == add_process_to_removal_queue(Sched, c)
              a == [at EXCEPT ![c] = Goes("finish", 0)]
  <2>1. at[c].op = "remove"
    BY <1>2, <1>9 DEF ExitRemove, Exiting
  <2>2. Sched' = g /\ sem_spaces' = sem_spaces /\ holding' = holding /\ at' = a /\ Moved(foreground_pid)
    BY <1>2, <1>9, ExitRemoveEffect
  <2>3. SemState(g, foreground_pid, sem_spaces, a, holding)
    BY <1>1, <1>2, <2>1, RemoveKeeps
  <2>. HIDE DEF g, a
  <2>. QED  BY <2>2, <2>3, Lands
<1>10. CASE ExitFinish
  BY <1>10, TurnStep
<1>. QED  BY <1>5, <1>6, <1>7, <1>8, <1>9, <1>10 DEF Exit

\* The state main leaves to the shell.
LEMMA SemInit == KernelInit => SemInv
<1>. SUFFICES ASSUME KernelInit PROVE SemState(Sched, foreground_pid, sem_spaces, at, holding)
  BY DEF SemInv
<1>1. Sound(Sched) /\ IdleFirst(Sched)
  BY InitIsSound DEF KernelInit
<1>2. /\ status = [p \in Pids |-> IF p = SHELL_PID THEN RUNNING
                                  ELSE IF p = IDLE_PID THEN READY ELSE NONE]
      /\ fault = FALSE /\ creation_queue = <<>> /\ current_pcb = SHELL_PID
  BY DEF KernelInit, SchedInit
<1>3. \A p \in Pids : status[p] # BLOCKED /\ status[p] # DEAD
  BY <1>2 DEF BLOCKED, DEAD, RUNNING, READY, NONE
<1>4. /\ \A p \in Pids : at[p] = User /\ holding[p] = {}
      /\ foreground_pid = SHELL_PID
  BY DEF KernelInit
<1>5. User \in Place /\ User.op = "user"
  BY DEF User, Place
<1>6. /\ Opened(SHELL_PID, 1, NOBODY) \in Semaphore /\ Opened(IDLE_PID, 1, NOBODY) \in Semaphore
      /\ AVAILABLE \in Semaphore
  BY ConstantFacts DEF Opened, AVAILABLE, Semaphore, Names, NOBODY
<1>7. sem_spaces \in Table
  <2>1. sem_spaces = [i \in Slots |-> IF i = 1 THEN Opened(SHELL_PID, 1, NOBODY)
                                      ELSE IF i = 2 THEN Opened(IDLE_PID, 1, NOBODY)
                                      ELSE AVAILABLE]
    BY DEF KernelInit
  <2>. QED  BY <1>6, <2>1 DEF Table
<1>8. \A i \in Slots : \/ i = 1 /\ sem_spaces[i] = Opened(SHELL_PID, 1, NOBODY)
                       \/ i = 2 /\ sem_spaces[i] = Opened(IDLE_PID, 1, NOBODY)
                       \/ sem_spaces[i] = AVAILABLE
  BY DEF KernelInit
<1>9. /\ \A n, b : /\ Opened(n, 1, b).identifier = n /\ Opened(n, 1, b).status = "UNAVAILABLE"
                   /\ Opened(n, 1, b).queue = <<>>
      /\ AVAILABLE.status = "AVAILABLE" /\ AVAILABLE.queue = <<>>
  BY DEF Opened, AVAILABLE
<1>10. SHELL_PID # IDLE_PID /\ SHELL_PID \notin SemNames /\ IDLE_PID \notin SemNames
  BY KernelConstants, ConstantFacts DEF SHELL_PID, IDLE_PID
<1>11. at \in [Pids -> Place] /\ holding \in [Pids -> SUBSET SemNames]
  BY <1>5 DEF KernelInit
<1>12. \A i \in Slots : sem_spaces[i].queue = <<>>
  BY <1>8, <1>9
<1>13. \A i \in Slots : Busy(sem_spaces, i) => /\ i \in {1, 2}
                                               /\ sem_spaces[i].identifier = IF i = 1 THEN SHELL_PID ELSE IDLE_PID
  BY <1>8, <1>9 DEF Busy
<1>14. Guarded(sem_spaces, at, holding)
  <2>1. KindsOK(sem_spaces, at, holding)
    BY <1>4, <1>5, <1>7, <1>8, <1>9, <1>11 DEF KindsOK
  <2>2. OneSlot(sem_spaces)
    BY <1>10, <1>13 DEF OneSlot
  <2>3. WaitersStand(sem_spaces, at) /\ HoldersStand(sem_spaces, holding) /\ Exclusive(holding)
    BY <1>4, <1>5 DEF WaitersStand, HoldersStand, Exclusive
  <2>. QED  BY <2>1, <2>2, <2>3 DEF Guarded
<1>15. Watched(status, current_pcb, sem_spaces, at, holding)
  <2>1. Once(<<>>) /\ Members(<<>>) = {}
    BY DEF Once, Members
  <2>2. QueuesSleep(status, sem_spaces, at)
    BY <1>12, <2>1 DEF QueuesSleep
  <2>3. SleepersQueued(status, sem_spaces, at) /\ SomeoneComes(status, sem_spaces, at)
    BY <1>3 DEF SleepersQueued, SomeoneComes
  <2>4. HoldersAwake(status, at, holding)
    BY <1>4 DEF HoldersAwake
  <2>5. LocksHeld(sem_spaces, holding)
    BY <1>10, <1>13 DEF LocksHeld
  <2>6. status[current_pcb] # BLOCKED
    BY <1>2, <1>3, ConstantFacts
  <2>. QED  BY <2>2, <2>3, <2>4, <2>5, <2>6 DEF Watched
<1>16. DeadLeave(status, at)
  BY <1>3, <1>4, <1>5 DEF DeadLeave
<1>17. Safe(Sched)
  BY <1>1, <1>2, <1>3, SchedFields, ConstantFacts DEF Safe
<1>. QED  BY <1>2, <1>4, <1>5, <1>14, <1>15, <1>16, <1>17, SchedFields, ConstantFacts DEF SemState

\* and every step of the kernel and its clients.
LEMMA SemStep == SemInv /\ [SemaphoreNext]_kvars => SemInv'
<1>. SUFFICES ASSUME SemInv, [SemaphoreNext]_kvars PROVE SemInv'
  OBVIOUS
<1>1. CASE TimerInterrupt
  BY <1>1, TurnStep
<1>2. CASE Retry
  BY <1>2, RetryStep
<1>3. CASE SysCreate(FALSE)
  BY <1>3, CreateStep
<1>4. CASE holding[current_pcb] = {} /\ Client /\ Exit
  BY <1>4, ExitStep
<1>5. ASSUME NEW n \in SemNames,
             \/ SysSemOpen(n, 0)
             \/ n \notin holding[current_pcb] /\ SysSemWait(n)
             \/ n \in holding[current_pcb] /\ SysSemPost(n)
             \/ n \notin holding[current_pcb] /\ SysSemClose(n)
      PROVE  SemInv'
  BY <1>5, OpenStep, WaitStep, PostStep, CloseStep
<1>6. CASE UNCHANGED kvars
  <2>1. /\ Sched' = Sched /\ foreground_pid' = foreground_pid /\ sem_spaces' = sem_spaces
        /\ at' = at /\ holding' = holding
    BY <1>6 DEF kvars, svars, Sched
  <2>. QED  BY <2>1 DEF SemInv
<1>. QED  BY <1>1, <1>2, <1>3, <1>4, <1>5, <1>6 DEF SemaphoreNext

\* The inductive invariant: table, places and holders agree with the scheduler.
THEOREM SemaphoreInvariant == SemaphoreSpec => []SemInv
  BY SemInit, SemStep, PTL DEF SemaphoreSpec

\* Every part of the kernel's state keeps its type: waiters point at slots of
\* the table and queues hold processes (Kernel/semaphore.c).
THEOREM KernelTypes == SemaphoreSpec => []KernelTypeOK
<1>1. SemInv => KernelTypeOK
  <2>. SUFFICES ASSUME SemInv PROVE KernelTypeOK
    OBVIOUS
  <2>1. SemState(Sched, foreground_pid, sem_spaces, at, holding)
    BY DEF SemInv
  <2>2. /\ sem_spaces \in Table /\ at \in [Pids -> Place] /\ holding \in [Pids -> SUBSET SemNames]
        /\ foreground_pid \in Pids
    BY <2>1, SemStateFacts DEF SemState
  <2>3. \A i \in Slots : sem_spaces[i] \in Semaphore
    BY <2>2 DEF Table
  <2>4. \A p \in Pids : at[p] \in Place
    BY <2>2
  <2>5. holding \in [Pids -> SUBSET Names]
    BY <2>2 DEF Names
  <2>. QED  BY <2>2, <2>3, <2>4, <2>5 DEF KernelTypeOK, Semaphore, Place
<1>. QED  BY <1>1, SemaphoreInvariant, PTL

\* The slot a waiter keeps while it sleeps stays the slot of the semaphore it
\* asked for, whoever closes and opens semaphores meanwhile (my_sem_wait).
THEOREM SlotsAreKept == SemaphoreSpec => []WaitersKeepTheirSlot
<1>1. SemInv => WaitersKeepTheirSlot
  <2>. SUFFICES ASSUME SemInv PROVE WaitersKeepTheirSlot
    OBVIOUS
  <2>1. WaitersStand(sem_spaces, at)
    BY DEF SemInv, SemState, Guarded
  <2>. QED  BY <2>1 DEF WaitersStand, WaitersKeepTheirSlot, Busy
<1>. QED  BY <1>1, SemaphoreInvariant, PTL

\* Between a wait that returned and the post nobody else gets the semaphore.
THEOREM Exclusion == SemaphoreSpec => []MutualExclusion
<1>1. SemInv => MutualExclusion
  BY DEF SemInv, SemState, Guarded, Exclusive, MutualExclusion
<1>. QED  BY <1>1, SemaphoreInvariant, PTL

\* A sleeping waiter is never forgotten: somebody awake has the semaphore or is
\* about to take it.  With one semaphore name: two can be waited for crosswise.
THEOREM WakeupsArrive ==
  ASSUME OneName
  PROVE  SemaphoreSpec => []NoLostWakeup
<1>1. SemInv => NoLostWakeup
  <2>. SUFFICES ASSUME SemInv, NEW p \in Pids, at[p].op = "wait", status[p] = BLOCKED,
                       at[p].name \in SemNames
                PROVE  /\ p \in Members(sem_spaces[at[p].slot].queue)
                       /\ \E q \in Pids : /\ status[q] \in {READY, RUNNING}
                                          /\ \/ at[p].name \in holding[q]
                                             \/ at[q].op = "wait" /\ at[q].slot = at[p].slot
    BY DEF NoLostWakeup
  <2>. DEFINE i == at[p].slot
  <2>1. Watched(status, current_pcb, sem_spaces, at, holding) /\ Guarded(sem_spaces, at, holding)
    BY SchedFields DEF SemInv, SemState
  <2>2. i \in Slots /\ Busy(sem_spaces, i) /\ sem_spaces[i].identifier = at[p].name
    BY <2>1 DEF Guarded, WaitersStand
  <2>3. p \in Members(sem_spaces[i].queue)
    BY <2>1 DEF Watched, SleepersQueued
  <2>4. CASE sem_spaces[i].is_locked
    <3>1. PICK q \in Pids : at[p].name \in holding[q]
      BY <2>1, <2>2, <2>4 DEF Watched, LocksHeld
    <3>2. status[q] \in {READY, RUNNING}
      BY <2>1, <3>1 DEF Watched, HoldersAwake, Awake
    <3>. QED  BY <2>3, <3>1, <3>2
  <2>5. CASE ~sem_spaces[i].is_locked
    <3>1. PICK q \in Pids : at[q].op = "wait" /\ at[q].slot = at[p].slot /\ status[q] \in Awake
      BY <2>1, <2>5 DEF Watched, SomeoneComes
    <3>. QED  BY <2>3, <3>1 DEF Awake
  <2>. QED  BY <2>4, <2>5
<1>. QED  BY <1>1, SemaphoreInvariant, PTL
=============================================================================
