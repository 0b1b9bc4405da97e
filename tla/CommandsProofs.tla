--------------------------- MODULE CommandsProofs ---------------------------
(***************************************************************************)
(* Proofs about Pipes and Commands for every number of pipes, size of their  *)
(* buffers, sequence of lines and bytes typed.  The ring of a pipe is proved *)
(* first, for one record; then that every line takes the next pipe, which    *)
(* connects a pipeline and gives what runs in the background a buffer.  The  *)
(* shell goes on behind what it starts and may type lines of junk meanwhile: *)
(* they take pipes too and leave the processes alone.                        *)
(***************************************************************************)
EXTENDS Commands, SequenceTheorems, TLAPS

N == PIPE_BUFFER_SIZE
Cells == 0 .. N - 1

\* A pipe by its fields.
Rec(nm, w, r, c, e, l, u, f) ==
  [name |-> nm, write_pos |-> w, read_pos |-> r, cells |-> c,
   eof |-> e, left_to_read |-> l, unread |-> u, fifo |-> f]

\* A pipe is such a record; its bytes may be anything.
PipeShape(p) ==
  /\ p = Rec(p.name, p.write_pos, p.read_pos, p.cells, p.eof, p.left_to_read, p.unread, p.fifo)
  /\ p.cells = [k \in Cells |-> p.cells[k]]
  /\ p.name \in Int /\ p.write_pos \in 0 .. N /\ p.read_pos \in 0 .. N
  /\ p.left_to_read \in -MaxCount .. MaxCount /\ p.eof \in BOOLEAN /\ p.fifo \in BOOLEAN
  /\ p.unread \in Seq(Range(p.unread))

\* While it is a queue the writer is left_to_read cells before the reader, round
\* the ring, and the cells between them are the bytes not read.
Ring(p) ==
  p.fifo => /\ p.left_to_read \in 0 .. N /\ Len(p.unread) = p.left_to_read
            /\ Wrapped(p.write_pos) = (p.read_pos + p.left_to_read) % N
            /\ \A k \in 1 .. p.left_to_read : p.cells[(p.read_pos + k - 1) % N] = p.unread[k]

PipeOK(p) == PipeShape(p) /\ Ring(p)

\* A position less than two rings on.
LEMMA ModRing ==
  ASSUME NEW x \in 0 .. 2 * N
  PROVE  x % N = IF x < N THEN x ELSE IF x < 2 * N THEN x - N ELSE 0
<1>1. N \in Nat /\ N > 0
  BY PipesAssumption DEF N
<1>2. /\ x \div N \in Nat /\ x % N \in 0 .. N - 1
      /\ x = N * (x \div N) + (x % N)
  BY <1>1
<1>. DEFINE q == x \div N  r == x % N
<1>3. q \in Nat /\ r \in 0 .. N - 1 /\ x = N * q + r
  BY <1>2
<1>. HIDE DEF q, r
<1>4. CASE q = 0
  <2>1. N * q = 0
    BY <1>1, <1>4
  <2>2. x = r
    BY <1>1, <1>3, <2>1
  <2>. QED  BY <1>1, <1>3, <2>2 DEF r
<1>5. CASE q = 1
  <2>1. N * q = N
    BY <1>1, <1>5
  <2>2. x = N + r
    BY <1>1, <1>3, <2>1
  <2>. QED  BY <1>1, <1>3, <2>2 DEF r
<1>6. CASE q = 2
  <2>1. N * q = 2 * N
    BY <1>1, <1>6
  <2>2. x = 2 * N + r
    BY <1>1, <1>3, <2>1
  <2>. QED  BY <1>1, <1>3, <2>2 DEF r
<1>7. CASE q >= 3
  <2>1. N * q >= N * 3
    BY <1>1, <1>3, <1>7
  <2>. QED  BY <1>1, <1>3, <2>1
<1>. QED  BY <1>3, <1>4, <1>5, <1>6, <1>7

\* The bytes of a sequence are all that its type needs.
LEMMA SelfSeq ==
  ASSUME NEW S, NEW s \in Seq(S)
  PROVE  s \in Seq(Range(s))
<1>1. Len(s) \in Nat /\ s \in [1 .. Len(s) -> S] /\ DOMAIN s = 1 .. Len(s)
  BY LenProperties
<1>2. \A k \in 1 .. Len(s) : s[k] \in Range(s)
  BY <1>1, Zenon DEF Range
<1>3. s \in [1 .. Len(s) -> Range(s)]
  BY <1>1, <1>2
<1>. DEFINE T == Range(s)
            n == Len(s)
<1>4. n \in Nat /\ s \in [1 .. n -> T]
  BY <1>1, <1>3
<1>. HIDE DEF T, n
<1>5. s \in UNION {[1 .. m -> T] : m \in Nat}
  BY <1>4, Zenon
<1>6. s \in Seq(T)
  BY <1>5, SeqDef, Zenon
<1>. QED  BY <1>6 DEF T

\* A sequence stays one when something is appended or its head taken.
LEMMA AppendAny ==
  ASSUME NEW s, NEW e, s \in Seq(Range(s))
  PROVE  /\ Append(s, e) \in Seq(Range(Append(s, e))) /\ Len(Append(s, e)) = Len(s) + 1
         /\ Len(s) \in Nat
         /\ \A k \in 1 .. Len(s) : Append(s, e)[k] = s[k]
         /\ Append(s, e)[Len(s) + 1] = e
<1>. DEFINE S == Range(s) \cup {e}  t == Append(s, e)
<1>1. s \in Seq(S)
  BY SeqMonotonic, Zenon
<1>2. /\ t \in Seq(S) /\ Len(t) = Len(s) + 1 /\ t[Len(s) + 1] = e /\ Len(s) \in Nat
      /\ \A k \in 1 .. Len(s) : t[k] = s[k]
  BY <1>1, AppendProperties, LenProperties
<1>3. t \in Seq(Range(t))
  BY <1>2, SelfSeq, Zenon
<1>. QED  BY <1>2, <1>3

\* The tail of a sequence that is not empty.
LEMMA TailAny ==
  ASSUME NEW s, s \in Seq(Range(s)), Len(s) > 0
  PROVE  /\ Tail(s) \in Seq(Range(Tail(s))) /\ Len(Tail(s)) = Len(s) - 1 /\ Len(s) \in Nat
         /\ \A k \in 1 .. Len(s) - 1 : Tail(s)[k] = s[k + 1]
<1>. DEFINE t == Tail(s)  S == Range(s)
<1>1. Len(s) \in Nat /\ s # << >> /\ s \in Seq(S)
  BY LenProperties, EmptySeq
<1>. HIDE DEF S
<1>2. t \in Seq(S) /\ Len(t) = Len(s) - 1 /\ \A k \in 1 .. Len(t) : t[k] = s[k + 1]
  BY <1>1, HeadTailProperties
<1>3. t \in Seq(Range(t))
  BY <1>2, SelfSeq, Zenon
<1>. QED  BY <1>1, <1>2, <1>3
-----------------------------------------------------------------------------
\* What Put leaves of a pipe.
LEMMA PutRec ==
  ASSUME NEW p, NEW byte, PipeShape(p)
  PROVE  LET fits == p.fifo /\ p.left_to_read < N
         IN  Put(p, byte) = Rec(p.name, Wrapped(p.write_pos) + 1, p.read_pos,
                                [p.cells EXCEPT ![Wrapped(p.write_pos)] = byte], p.eof,
                                Counted(p.left_to_read, 1),
                                IF fits THEN Append(p.unread, byte) ELSE << >>, fits)
<1>. DEFINE nm == p.name  w == p.write_pos  r == p.read_pos  c == p.cells  e == p.eof
            l == p.left_to_read  u == p.unread  f == p.fifo
            fits == f /\ l < N
            left == IF fits THEN Append(u, byte) ELSE << >>
            c1 == [c EXCEPT ![Wrapped(w)] = byte]
            p1 == [p EXCEPT !.cells[Wrapped(w)] = byte]
            p2 == [p1 EXCEPT !.write_pos = Wrapped(w) + 1]
            p3 == [p2 EXCEPT !.left_to_read = Counted(l, 1)]
            p4 == [p3 EXCEPT !.fifo = fits]
            p5 == [p4 EXCEPT !.unread = left]
<1>1. Put(p, byte) = p5
  BY DEF Put, N
<1>0. p = Rec(nm, w, r, c, e, l, u, f)
  BY DEF PipeShape
<1>. HIDE DEF nm, w, r, c, e, l, u, f
<1>2. p1 = Rec(nm, w, r, c1, e, l, u, f)
  BY <1>0 DEF Rec
<1>. HIDE DEF p1, c1, fits, left
<1>3. p2 = Rec(nm, Wrapped(w) + 1, r, c1, e, l, u, f)
  BY <1>2 DEF Rec
<1>. HIDE DEF p2
<1>4. p3 = Rec(nm, Wrapped(w) + 1, r, c1, e, Counted(l, 1), u, f)
  BY <1>3 DEF Rec
<1>. HIDE DEF p3
<1>5. p4 = Rec(nm, Wrapped(w) + 1, r, c1, e, Counted(l, 1), u, fits)
  BY <1>4 DEF Rec
<1>. HIDE DEF p4
<1>6. p5 = Rec(nm, Wrapped(w) + 1, r, c1, e, Counted(l, 1), left, fits)
  BY <1>5 DEF Rec
<1>. QED  BY <1>1, <1>6, Zenon DEF nm, w, r, c, e, l, u, f, c1, left, fits

\* What Taken leaves of a pipe.
LEMMA TakenRec ==
  ASSUME NEW nm, NEW w, NEW r, NEW c, NEW e, NEW l, NEW u, NEW f
  PROVE  Taken(Rec(nm, w, r, c, e, l, u, f))
           = Rec(nm, w, Wrapped(r) + 1, c, e, Counted(l, -1),
                 IF f /\ l > 0 THEN Tail(u) ELSE << >>, f /\ l > 0)
<1>. DEFINE p == Rec(nm, w, r, c, e, l, u, f)
            there == f /\ l > 0
            left == IF there THEN Tail(u) ELSE << >>
            p1 == [p EXCEPT !.read_pos = Wrapped(r) + 1]
            p2 == [p1 EXCEPT !.left_to_read = Counted(l, -1)]
            p3 == [p2 EXCEPT !.fifo = there]
            p4 == [p3 EXCEPT !.unread = left]
<1>1. Taken(p) = p4
  <2>1. p.read_pos = r /\ p.left_to_read = l /\ p.fifo = f /\ p.unread = u
    BY DEF Rec
  <2>. HIDE DEF p
  <2>. QED  BY <2>1 DEF Taken
<1>. HIDE DEF there, left
<1>2. p1 = Rec(nm, w, Wrapped(r) + 1, c, e, l, u, f)
  BY DEF Rec
<1>. HIDE DEF p, p1
<1>3. p2 = Rec(nm, w, Wrapped(r) + 1, c, e, Counted(l, -1), u, f)
  BY <1>2 DEF Rec
<1>. HIDE DEF p2
<1>4. p3 = Rec(nm, w, Wrapped(r) + 1, c, e, Counted(l, -1), u, there)
  BY <1>3 DEF Rec
<1>. HIDE DEF p3
<1>5. p4 = Rec(nm, w, Wrapped(r) + 1, c, e, Counted(l, -1), left, there)
  BY <1>4 DEF Rec
<1>. QED  BY <1>1, <1>5, Zenon DEF p, left, there

\* A position wrapped and advanced is one again; the count stays in its bounds.
LEMMA Positions ==
  ASSUME NEW pos \in 0 .. N, NEW n \in -MaxCount .. MaxCount, NEW step \in {-1, 1}
  PROVE  /\ N \in Nat /\ N > 0 /\ MaxCount \in Nat /\ N < MaxCount
         /\ Wrapped(pos) \in Cells /\ Wrapped(pos) + 1 \in 0 .. N
         /\ Counted(n, step) \in -MaxCount .. MaxCount
         /\ -N - 1 < n /\ n < N + 1 => Counted(n, step) = n + step
<1>1. N \in Nat /\ N > 0 /\ MaxCount \in Nat /\ N < MaxCount
  BY PipesAssumption DEF N
<1>2. Wrapped(pos) \in Cells /\ Wrapped(pos) + 1 \in 0 .. N
  BY <1>1 DEF Wrapped, Cells, N
<1>3. n \in Int /\ n >= -MaxCount /\ n =< MaxCount
  BY <1>1
<1>4. Counted(n, step) \in -MaxCount .. MaxCount
  BY <1>1, <1>3 DEF Counted
<1>5. -N - 1 < n /\ n < N + 1 => Counted(n, step) = n + step
  BY <1>1, <1>3 DEF Counted
<1>. QED  BY <1>1, <1>2, <1>4, <1>5

\* A byte written to a pipe.
LEMMA PutOK ==
  ASSUME NEW p, NEW byte, PipeOK(p)
  PROVE  /\ PipeOK(Put(p, byte))
         /\ Put(p, byte).name = p.name /\ Put(p, byte).eof = p.eof
<1>. DEFINE w == p.write_pos  r == p.read_pos  l == p.left_to_read  u == p.unread
            fits == p.fifo /\ l < N
            left == IF fits THEN Append(u, byte) ELSE << >>
            c1 == [p.cells EXCEPT ![Wrapped(w)] = byte]
            t == Put(p, byte)
<1>0. PipeShape(p) /\ Ring(p) /\ p.fifo \in BOOLEAN
  BY DEF PipeOK, PipeShape
<1>1. t = Rec(p.name, Wrapped(w) + 1, r, c1, p.eof, Counted(l, 1), left, fits)
  BY <1>0, PutRec, Zenon
<1>2. /\ w \in 0 .. N /\ r \in 0 .. N /\ l \in -MaxCount .. MaxCount /\ p.name \in Int
      /\ p.eof \in BOOLEAN /\ fits \in BOOLEAN /\ u \in Seq(Range(u))
      /\ p.cells = [k \in Cells |-> p.cells[k]]
  BY <1>0 DEF PipeShape
<1>3. /\ N \in Nat /\ N > 0 /\ MaxCount \in Nat /\ N < MaxCount
      /\ Wrapped(w) \in Cells /\ Wrapped(w) + 1 \in 0 .. N
      /\ Counted(l, 1) \in -MaxCount .. MaxCount
      /\ -N - 1 < l /\ l < N + 1 => Counted(l, 1) = l + 1
  BY <1>2, Positions
<1>4. /\ c1 = [k \in Cells |-> c1[k]] /\ c1[Wrapped(w)] = byte
      /\ \A k \in Cells : k # Wrapped(w) => c1[k] = p.cells[k]
  BY <1>2, <1>3
<1>5. left \in Seq(Range(left))
  <2>1. CASE fits
    BY <1>2, <2>1, AppendAny
  <2>2. CASE ~fits
    <3>1. << >> \in Seq(Range(<< >>))
      BY EmptySeq
    <3>. QED  BY <2>2, <3>1
  <2>. QED  BY <2>1, <2>2
<1>. HIDE DEF c1, left, t
<1>6. /\ t.name = p.name /\ t.write_pos = Wrapped(w) + 1 /\ t.read_pos = r /\ t.cells = c1
      /\ t.eof = p.eof /\ t.left_to_read = Counted(l, 1) /\ t.unread = left /\ t.fifo = fits
      /\ t = Rec(t.name, t.write_pos, t.read_pos, t.cells, t.eof, t.left_to_read, t.unread, t.fifo)
  <2>. HIDE DEF w, r, l, fits
  <2>. QED  BY <1>1 DEF Rec
<1>7. PipeShape(t)
  <2>. HIDE DEF w, r, l, fits
  <2>. QED  BY <1>2, <1>3, <1>4, <1>5, <1>6 DEF PipeShape
<1>8. Ring(t)
  <2>. SUFFICES ASSUME fits PROVE Ring(t)
    BY <1>6 DEF Ring
  <2>1. /\ p.fifo /\ l < N /\ l \in 0 .. N /\ Len(u) = l /\ Wrapped(w) = (r + l) % N
        /\ \A k \in 1 .. l : p.cells[(r + k - 1) % N] = u[k]
    BY <1>0 DEF Ring
  <2>2. /\ left = Append(u, byte) /\ Len(left) = l + 1 /\ left[l + 1] = byte
        /\ \A k \in 1 .. l : left[k] = u[k]
    BY <1>2, <2>1, AppendAny DEF left
  <2>2a. l < N /\ l \in 0 .. N
    BY <2>1, Zenon
  <2>3. Counted(l, 1) = l + 1 /\ l + 1 \in 0 .. N
    BY <1>3, <2>2a
  <2>. HIDE DEF w, r, l, u, fits
  <2>4. Wrapped(t.write_pos) = (r + (l + 1)) % N
    <3>0. r \in Int /\ l \in Int /\ r + l \in 0 .. 2 * N
      BY <1>2, <1>3, <2>2a
    <3>. DEFINE x == r + l
    <3>1. x % N = IF x < N THEN x ELSE IF x < 2 * N THEN x - N ELSE 0
      <4>1. x \in 0 .. 2 * N
        BY <3>0
      <4>. HIDE DEF x
      <4>. QED  BY <4>1, ModRing
    <3>2. (r + (l + 1)) % N = IF r + l + 1 < N THEN r + l + 1 ELSE IF r + l + 1 < 2 * N THEN r + l + 1 - N ELSE 0
      BY <1>2, <1>3, <2>1, ModRing
    <3>3. Wrapped(Wrapped(w) + 1) = IF Wrapped(w) + 1 = N THEN 0 ELSE Wrapped(w) + 1
      BY DEF Wrapped, N
    <3>. QED  BY <1>2, <1>3, <1>6, <2>1, <3>1, <3>2, <3>3
  <2>5. ASSUME NEW k \in 1 .. l + 1 PROVE c1[(r + k - 1) % N] = left[k]
    <3>1. (r + k - 1) % N = IF r + k - 1 < N THEN r + k - 1 ELSE IF r + k - 1 < 2 * N THEN r + k - 1 - N ELSE 0
      BY <1>2, <1>3, <2>1, <2>5, ModRing
    <3>2. (r + l) % N = IF r + l < N THEN r + l ELSE IF r + l < 2 * N THEN r + l - N ELSE 0
      BY <1>2, <1>3, <2>1, ModRing
    <3>3. CASE k = l + 1
      BY <1>2, <1>4, <2>1, <2>2, <3>3
    <3>4. CASE k \in 1 .. l
      <4>1. (r + k - 1) % N \in Cells /\ (r + k - 1) % N # Wrapped(w)
        BY <1>2, <1>3, <2>1, <3>1, <3>2, <3>4 DEF Cells
      <4>. QED  BY <1>4, <2>1, <2>2, <3>4, <4>1
    <3>. QED  BY <2>1, <2>5, <3>3, <3>4
  <2>. QED  BY <1>6, <2>2, <2>3, <2>4, <2>5 DEF Ring
<1>. QED  BY <1>6, <1>7, <1>8 DEF PipeOK, t

\* A byte read from a pipe.
LEMMA TakenOK ==
  ASSUME NEW p, PipeOK(p)
  PROVE  PipeOK(Taken(p)) /\ Taken(p).name = p.name /\ Taken(p).eof = p.eof
<1>. DEFINE w == p.write_pos  r == p.read_pos  l == p.left_to_read  u == p.unread
            there == p.fifo /\ l > 0
            left == IF there THEN Tail(u) ELSE << >>
            t == Taken(p)
<1>0. PipeShape(p) /\ Ring(p) /\ p.fifo \in BOOLEAN
  BY DEF PipeOK, PipeShape
<1>1. t = Rec(p.name, w, Wrapped(r) + 1, p.cells, p.eof, Counted(l, -1), left, there)
  <2>1. p = Rec(p.name, w, r, p.cells, p.eof, l, u, p.fifo)
    BY <1>0 DEF PipeShape
  <2>2. Taken(Rec(p.name, w, r, p.cells, p.eof, l, u, p.fifo))
          = Rec(p.name, w, Wrapped(r) + 1, p.cells, p.eof, Counted(l, -1), left, there)
    BY TakenRec
  <2>. QED  BY <2>1, <2>2, Zenon
<1>2. /\ w \in 0 .. N /\ r \in 0 .. N /\ l \in -MaxCount .. MaxCount /\ p.name \in Int
      /\ p.eof \in BOOLEAN /\ there \in BOOLEAN /\ u \in Seq(Range(u))
      /\ p.cells = [k \in Cells |-> p.cells[k]]
  BY <1>0 DEF PipeShape
<1>3. /\ N \in Nat /\ N > 0 /\ MaxCount \in Nat /\ N < MaxCount
      /\ Wrapped(r) \in Cells /\ Wrapped(r) + 1 \in 0 .. N
      /\ Counted(l, -1) \in -MaxCount .. MaxCount
      /\ -N - 1 < l /\ l < N + 1 => Counted(l, -1) = l + (-1)
  BY <1>2, Positions
<1>4. there => l \in 1 .. N /\ Len(u) = l
  BY <1>0, <1>3 DEF Ring
<1>5. left \in Seq(Range(left))
  <2>1. CASE there
    BY <1>2, <1>4, <2>1, TailAny
  <2>2. CASE ~there
    <3>1. << >> \in Seq(Range(<< >>))
      BY EmptySeq
    <3>. QED  BY <2>2, <3>1
  <2>. QED  BY <2>1, <2>2
<1>. HIDE DEF left, t
<1>6. /\ t.name = p.name /\ t.write_pos = w /\ t.read_pos = Wrapped(r) + 1 /\ t.cells = p.cells
      /\ t.eof = p.eof /\ t.left_to_read = Counted(l, -1) /\ t.unread = left /\ t.fifo = there
      /\ t = Rec(t.name, t.write_pos, t.read_pos, t.cells, t.eof, t.left_to_read, t.unread, t.fifo)
  <2>. HIDE DEF w, r, l, there
  <2>. QED  BY <1>1 DEF Rec
<1>7. PipeShape(t)
  <2>. HIDE DEF w, r, l, there
  <2>. QED  BY <1>2, <1>3, <1>5, <1>6 DEF PipeShape
<1>8. Ring(t)
  <2>. SUFFICES ASSUME there PROVE Ring(t)
    BY <1>6 DEF Ring
  <2>1. /\ p.fifo /\ l > 0 /\ l \in 1 .. N /\ Len(u) = l /\ Wrapped(w) = (r + l) % N
        /\ \A k \in 1 .. l : p.cells[(r + k - 1) % N] = u[k]
    BY <1>0, <1>3 DEF Ring
  <2>2. /\ left = Tail(u) /\ Len(left) = l - 1
        /\ \A k \in 1 .. l - 1 : left[k] = u[k + 1]
    BY <1>2, <2>1, TailAny DEF left
  <2>2a. l > 0 /\ l \in 1 .. N
    BY <2>1, Zenon
  <2>3. Counted(l, -1) = l - 1 /\ l - 1 \in 0 .. N
    BY <1>3, <2>2a
  <2>. HIDE DEF w, r, l, u, there
  <2>4. Wrapped(r) = IF r = N THEN 0 ELSE r
    BY DEF Wrapped, N
  <2>5. Wrapped(w) = (Wrapped(r) + 1 + (l - 1)) % N
    <3>1. (r + l) % N = IF r + l < N THEN r + l ELSE IF r + l < 2 * N THEN r + l - N ELSE 0
      BY <1>2, <1>3, <2>1, ModRing
    <3>. DEFINE x == Wrapped(r) + 1 + (l - 1)
    <3>2. x \in 0 .. 2 * N
      <4>1. Wrapped(r) \in 0 .. N - 1 /\ l \in 1 .. N
        BY <1>3, <2>1 DEF Cells
      <4>. QED  BY <1>3, <4>1
    <3>3. x % N = IF x < N THEN x ELSE IF x < 2 * N THEN x - N ELSE 0
      BY <3>2, ModRing
    <3>. QED  BY <1>2, <1>3, <2>1, <2>4, <3>1, <3>3
  <2>6. ASSUME NEW k \in 1 .. l - 1 PROVE p.cells[(Wrapped(r) + 1 + k - 1) % N] = left[k]
    <3>. DEFINE x == Wrapped(r) + 1 + k - 1  y == r + (k + 1) - 1
    <3>1. x \in 0 .. 2 * N /\ y \in 0 .. 2 * N
      BY <1>2, <1>3, <2>1, <2>4
    <3>2. x % N = IF x < N THEN x ELSE IF x < 2 * N THEN x - N ELSE 0
      BY <3>1, ModRing
    <3>3. y % N = IF y < N THEN y ELSE IF y < 2 * N THEN y - N ELSE 0
      BY <3>1, ModRing
    <3>4. x % N = y % N
      BY <1>2, <1>3, <2>1, <2>4, <3>2, <3>3
    <3>5. k + 1 \in 1 .. l
      BY <1>2, <2>1
    <3>. QED  BY <2>1, <2>2, <3>4, <3>5
  <2>. QED  BY <1>6, <2>2, <2>3, <2>5, <2>6 DEF Ring
<1>. QED  BY <1>6, <1>7, <1>8 DEF PipeOK, t

-----------------------------------------------------------------------------
\* The pipes, and that each operation on one leaves them so.
PipesInv ==
  /\ DOMAIN pipe_array = Slots /\ pipe_array = [id \in Slots |-> pipe_array[id]]
  /\ \A id \in Slots : PipeOK(pipe_array[id]) /\ pipe_array[id].name \in -1 .. max_pipe - 1
  /\ max_pipe \in Nat \ {0}

SameNames == \A id \in Slots : pipe_array'[id].name = pipe_array[id].name

\* A new pipe, whatever its buffer holds.
LEMMA NewPipeOK ==
  ASSUME NEW nm \in Int, NEW junk, junk = [k \in Cells |-> junk[k]]
  PROVE  PipeOK(Pipe(nm, junk)) /\ Pipe(nm, junk).name = nm
<1>. DEFINE t == Pipe(nm, junk)
<1>1. /\ t.name = nm /\ t.write_pos = 0 /\ t.read_pos = 0 /\ t.cells = junk
      /\ t.eof = FALSE /\ t.left_to_read = 0 /\ t.unread = << >> /\ t.fifo = TRUE
      /\ t = Rec(t.name, t.write_pos, t.read_pos, t.cells, t.eof, t.left_to_read, t.unread, t.fifo)
  BY DEF Pipe, Rec
<1>. HIDE DEF t
<1>2. N \in Nat /\ N > 0 /\ MaxCount \in Nat
  BY PipesAssumption DEF N
<1>3. << >> \in Seq(Range(<< >>)) /\ Len(<< >>) = 0
  BY EmptySeq
<1>4. PipeShape(t)
  <2>1. 0 \in 0 .. N /\ 0 \in -MaxCount .. MaxCount
    BY <1>2
  <2>2. t.eof \in BOOLEAN /\ t.fifo \in BOOLEAN
    BY <1>1
  <2>3. t.cells = [k \in Cells |-> t.cells[k]]
    BY <1>1
  <2>4. t.unread \in Seq(Range(t.unread))
    BY <1>1, <1>3
  <2>. QED  BY <1>1, <2>1, <2>2, <2>3, <2>4 DEF PipeShape
<1>5. (0 + 0) % N = 0
  BY <1>2, ModRing
<1>6. Ring(t)
  <2>1. Wrapped(0) = 0
    BY <1>2 DEF Wrapped, N
  <2>. QED  BY <1>1, <1>2, <1>3, <1>5, <2>1 DEF Ring
<1>. QED  BY <1>1, <1>4, <1>6 DEF PipeOK, t

\* Replacing one pipe by another of the same name.
LEMMA OnePipe ==
  ASSUME PipesInv, NEW id \in Slots, NEW t, PipeOK(t), t.name = pipe_array[id].name,
         pipe_array' = [pipe_array EXCEPT ![id] = t], max_pipe' = max_pipe
  PROVE  PipesInv' /\ SameNames
<1>1. /\ DOMAIN pipe_array' = Slots /\ pipe_array' = [x \in Slots |-> pipe_array'[x]]
      /\ \A x \in Slots : pipe_array'[x] = IF x = id THEN t ELSE pipe_array[x]
  BY DEF PipesInv
<1>2. \A x \in Slots : PipeOK(pipe_array'[x]) /\ pipe_array'[x].name = pipe_array[x].name
  BY <1>1 DEF PipesInv
<1>. QED  BY <1>1, <1>2 DEF PipesInv, SameNames, PipeOK, PipeShape, Ring

\* pipe_write, whether it writes the byte, the end of file or nothing.
LEMMA WriteOK ==
  ASSUME PipesInv, NEW id \in Slots, NEW byte, pipe_write(id, byte)
  PROVE  PipesInv' /\ SameNames
<1>. DEFINE p == pipe_array[id]
<1>1. PipeOK(p) /\ p.eof \in BOOLEAN /\ max_pipe' = max_pipe
  BY DEF PipesInv, PipeOK, PipeShape, pipe_write
<1>2. PICK b : pipe_array' \in {pipe_array, [pipe_array EXCEPT ![id] = Put(p, b)]}
  BY <1>1 DEF pipe_write
<1>3. CASE pipe_array' = pipe_array
  BY <1>1, <1>3 DEF PipesInv, SameNames
<1>4. CASE pipe_array' = [pipe_array EXCEPT ![id] = Put(p, b)]
  <2>1. PipeOK(Put(p, b)) /\ Put(p, b).name = pipe_array[id].name
    BY <1>1, PutOK
  <2>. QED  BY <1>1, <1>4, <2>1, OnePipe
<1>. QED  BY <1>2, <1>3, <1>4

\* pipe_read.
LEMMA ReadOK ==
  ASSUME PipesInv, NEW id \in Slots, NEW byte, pipe_read(id, byte)
  PROVE  PipesInv' /\ SameNames
<1>. DEFINE p == pipe_array[id]
<1>1. PipeOK(p) /\ max_pipe' = max_pipe
  BY DEF PipesInv, pipe_read
<1>2. CASE AtEnd(p)
  <2>1. pipe_array' = pipe_array
    BY <1>2 DEF pipe_read
  <2>. QED  BY <1>1, <2>1 DEF PipesInv, SameNames
<1>3. CASE ~AtEnd(p)
  <2>1. pipe_array' = [pipe_array EXCEPT ![id] = Taken(p)]
    BY <1>3 DEF pipe_read
  <2>2. PipeOK(Taken(p)) /\ Taken(p).name = pipe_array[id].name
    BY <1>1, TakenOK
  <2>. QED  BY <1>1, <2>1, <2>2, OnePipe
<1>. QED  BY <1>2, <1>3

\* Ctrl-D.
LEMMA EofOK ==
  ASSUME PipesInv, NEW id \in Slots, send_eof_to_foreground(id)
  PROVE  PipesInv' /\ SameNames
<1>. DEFINE p == pipe_array[id]  t == [p EXCEPT !.eof = TRUE]
<1>1. PipeShape(p) /\ Ring(p) /\ max_pipe' = max_pipe
  BY DEF PipesInv, PipeOK, send_eof_to_foreground
<1>2. pipe_array' = [pipe_array EXCEPT ![id] = t]
  BY DEF send_eof_to_foreground, PipesInv
<1>3. p = Rec(p.name, p.write_pos, p.read_pos, p.cells, p.eof, p.left_to_read, p.unread, p.fifo)
  BY <1>1 DEF PipeShape
<1>4. t = Rec(p.name, p.write_pos, p.read_pos, p.cells, TRUE, p.left_to_read, p.unread, p.fifo)
  <2>. DEFINE nm == p.name  w == p.write_pos  r == p.read_pos  c == p.cells  e == p.eof
              l == p.left_to_read  u == p.unread  f == p.fifo  y == TRUE
  <2>1. p = Rec(nm, w, r, c, e, l, u, f) /\ t = [p EXCEPT !.eof = y]
    BY <1>3
  <2>. HIDE DEF t, p, nm, w, r, c, e, l, u, f, y
  <2>2. t = Rec(nm, w, r, c, y, l, u, f)
    BY <2>1 DEF Rec
  <2>. QED  BY <2>2, Zenon DEF nm, w, r, c, e, l, u, f, y
<1>5. /\ t.name = p.name /\ t.write_pos = p.write_pos /\ t.read_pos = p.read_pos /\ t.cells = p.cells
      /\ t.eof = TRUE /\ t.left_to_read = p.left_to_read /\ t.unread = p.unread /\ t.fifo = p.fifo
  <2>. HIDE DEF t, p
  <2>. QED  BY <1>4 DEF Rec
<1>. HIDE DEF t
<1>6. PipeOK(t)
  <2>. HIDE DEF p
  <2>1. t = Rec(t.name, t.write_pos, t.read_pos, t.cells, t.eof, t.left_to_read, t.unread, t.fifo)
    BY <1>4, <1>5, Zenon
  <2>2. Ring(t)
    BY <1>1, <1>5 DEF Ring
  <2>3. t.eof \in BOOLEAN
    BY <1>5
  <2>4. PipeShape(t)
    BY <1>1, <1>5, <2>1, <2>3 DEF PipeShape
  <2>. QED  BY <2>2, <2>4 DEF PipeOK
<1>. QED  BY <1>1, <1>2, <1>5, <1>6, OnePipe

-----------------------------------------------------------------------------
\* The pipe of the n-th line: the n-th, and that of the shell when all are taken.
Own(n) == IF n < MAX_PIPES THEN n ELSE SHELL

\* Every line has taken its pipe.
NamesInv ==
  /\ \A id \in Slots : id # SHELL => (pipe_array[id].name = -1 <=> id > typed)
  /\ pipe_array[SHELL].name = -1 <=> typed < MAX_PIPES

Fields == {"prog", "fr", "fw", "at", "out", "comm"}

\* The processes of the n-th line.
LinesInv ==
  \A n \in 1 .. MaxLines :
    /\ n > typed => ~Live(2 * n - 1) /\ ~Live(2 * n)
    /\ proc[2 * n - 1].fr = SHELL /\ proc[2 * n - 1].fw \in {SHELL, Own(n)}
    /\ proc[2 * n].fw = SHELL /\ proc[2 * n].fr \in {SHELL, Own(n)}
    /\ Live(2 * n) => proc[2 * n].fr = Own(n)

\* What runs on the shell's descriptor is in the foreground and has written all.
OutInv ==
  \A p \in Pids : Live(p) /\ proc[p].fw = SHELL /\ typed < MAX_PIPES /\ ~amp
                  => foreground = p /\ proc[p].out = << >>

ProcInv ==
  /\ DOMAIN proc = Pids /\ \A p \in Pids : DOMAIN proc[p] = Fields
  /\ typed \in 0 .. MaxLines /\ foreground \in Pids \cup {SHELL}
  /\ foreground # SHELL => Live(foreground)
  /\ amp \in BOOLEAN /\ (wild => amp)

CommandsInv == PipesInv /\ NamesInv /\ ProcInv /\ LinesInv /\ OutInv

\* The two processes of a line are processes, and every process is one of them.
LEMMA PidsOfLines ==
  /\ MaxLines \in Nat /\ MAX_PIPES \in Nat \ {0} /\ SHELL \in Slots
  /\ \A n \in 1 .. MaxLines : 2 * n - 1 \in Pids /\ 2 * n \in Pids /\ Own(n) \in Slots
  /\ \A p \in Pids : p \in Int /\ p # SHELL /\ \E n \in 1 .. MaxLines : p = 2 * n - 1 \/ p = 2 * n
<1>1. MaxLines \in Nat /\ MAX_PIPES \in Nat \ {0}
  BY PipesAssumption, CommandsAssumption, LenProperties DEF MaxLines
<1>2. SHELL \in Slots /\ \A n \in 1 .. MaxLines : 2 * n - 1 \in Pids /\ 2 * n \in Pids /\ Own(n) \in Slots
  BY <1>1 DEF SHELL, Slots, Pids, Own
<1>3. ASSUME NEW p \in Pids PROVE p \in Int /\ p # SHELL /\ \E n \in 1 .. MaxLines : p = 2 * n - 1 \/ p = 2 * n
  <2>1. p \in Int /\ p >= 1 /\ p =< 2 * MaxLines
    BY <1>1 DEF Pids
  <2>. DEFINE n == (p + 1) \div 2
  <2>2. n \in 1 .. MaxLines /\ (p = 2 * n - 1 \/ p = 2 * n)
    BY <1>1, <2>1
  <2>. QED  BY <2>1, <2>2 DEF SHELL
<1>. QED  BY <1>1, <1>2, <1>3

\* Every descriptor is one of a pipe.
LEMMA Descriptors ==
  ASSUME CommandsInv, NEW p \in Pids
  PROVE  proc[p].fr \in Slots /\ proc[p].fw \in Slots
<1>1. PICK n \in 1 .. MaxLines : p = 2 * n - 1 \/ p = 2 * n
  BY PidsOfLines
<1>2. /\ proc[2 * n - 1].fr = SHELL /\ proc[2 * n - 1].fw \in {SHELL, Own(n)}
      /\ proc[2 * n].fw = SHELL /\ proc[2 * n].fr \in {SHELL, Own(n)}
  BY DEF CommandsInv, LinesInv
<1>3. SHELL \in Slots /\ Own(n) \in Slots
  BY PidsOfLines
<1>4. CASE p = 2 * n - 1
  BY <1>2, <1>3, <1>4
<1>5. CASE p = 2 * n
  BY <1>2, <1>3, <1>5
<1>. QED  BY <1>1, <1>4, <1>5

\* A process that moved on: it lives, its descriptors are as they were.
Moved(p, q) ==
  /\ Live(p) /\ proc' = [proc EXCEPT ![p] = q]
  /\ DOMAIN q = Fields /\ q.fr = proc[p].fr /\ q.fw = proc[p].fw /\ q.at \notin {"none", "dead"}
  /\ foreground = p /\ proc[p].fw = SHELL /\ proc[p].out = << >> => q.out = << >>
  /\ UNCHANGED <<foreground, typed, amp>>

\* Such a step keeps what is said of the processes.
LEMMA MovedOK ==
  ASSUME CommandsInv, NEW p \in Pids, NEW q, Moved(p, q), wild' => amp, PipesInv', SameNames
  PROVE  CommandsInv'
<1>1. /\ DOMAIN proc' = Pids /\ foreground' = foreground /\ typed' = typed /\ amp' = amp
      /\ \A x \in Pids : proc'[x] = IF x = p THEN q ELSE proc[x]
  BY DEF CommandsInv, ProcInv, Moved
<1>2. \A x \in Pids : /\ Live(x)' <=> Live(x)
                      /\ proc'[x].fr = proc[x].fr /\ proc'[x].fw = proc[x].fw
                      /\ DOMAIN proc'[x] = Fields
  BY <1>1 DEF CommandsInv, ProcInv, Moved, Live
<1>3. ProcInv'
  <2>1. foreground' # SHELL => Live(foreground)'
    BY <1>1, <1>2 DEF CommandsInv, ProcInv, Live
  <2>. QED  BY <1>1, <1>2, <2>1 DEF CommandsInv, ProcInv
<1>4. LinesInv'
  <2>. SUFFICES ASSUME NEW n \in 1 .. MaxLines
                PROVE  /\ n > typed' => ~Live(2 * n - 1)' /\ ~Live(2 * n)'
                       /\ proc'[2 * n - 1].fr = SHELL /\ proc'[2 * n - 1].fw \in {SHELL, Own(n)}
                       /\ proc'[2 * n].fw = SHELL /\ proc'[2 * n].fr \in {SHELL, Own(n)}
                       /\ Live(2 * n)' => proc'[2 * n].fr = Own(n)
    BY DEF LinesInv, Live
  <2>. QED  BY <1>1, <1>2, PidsOfLines DEF CommandsInv, LinesInv
<1>5. OutInv'
  <2>. SUFFICES ASSUME NEW x \in Pids, Live(x)', proc'[x].fw = SHELL, typed' < MAX_PIPES, ~amp'
                PROVE  foreground' = x /\ proc'[x].out = << >>
    BY DEF OutInv, Live
  <2>1. foreground = x /\ proc[x].out = << >>
    BY <1>1, <1>2 DEF CommandsInv, OutInv
  <2>. QED  BY <1>1, <1>2, <2>1 DEF Moved
<1>6. NamesInv'
  BY <1>1, PidsOfLines DEF CommandsInv, NamesInv, SameNames
<1>. QED  BY <1>3, <1>4, <1>5, <1>6 DEF CommandsInv

\* A process that ends gives the foreground back.
LEMMA EndedOK ==
  ASSUME CommandsInv, NEW p \in Pids, proc' = [proc EXCEPT ![p] = Ended(p)],
         foreground' = IF foreground = p THEN SHELL ELSE foreground,
         UNCHANGED <<pipevars, typed, amp, wild>>
  PROVE  CommandsInv'
<1>. DEFINE q == Ended(p)
<1>0. DOMAIN q = Fields /\ q.fr = SHELL /\ q.fw = SHELL /\ q.at = "dead"
  BY DEF Ended, NoProcess, Fields, SHELL
<1>. HIDE DEF q
<1>1. /\ DOMAIN proc' = Pids /\ typed' = typed /\ amp' = amp /\ wild' = wild
      /\ \A x \in Pids : proc'[x] = IF x = p THEN q ELSE proc[x]
  BY DEF CommandsInv, ProcInv, q
<1>2. \A x \in Pids : x # p => (Live(x)' <=> Live(x))
  BY <1>1 DEF Live
<1>3. ~Live(p)' /\ \A x \in Pids : DOMAIN proc'[x] = Fields
  BY <1>0, <1>1 DEF Live, CommandsInv, ProcInv
<1>4. ProcInv'
  <2>1. foreground' # SHELL => Live(foreground)'
    BY <1>2 DEF CommandsInv, ProcInv, Live
  <2>. QED  BY <1>1, <1>3, <2>1 DEF CommandsInv, ProcInv
<1>5. LinesInv'
  <2>. SUFFICES ASSUME NEW n \in 1 .. MaxLines
                PROVE  /\ n > typed' => ~Live(2 * n - 1)' /\ ~Live(2 * n)'
                       /\ proc'[2 * n - 1].fr = SHELL /\ proc'[2 * n - 1].fw \in {SHELL, Own(n)}
                       /\ proc'[2 * n].fw = SHELL /\ proc'[2 * n].fr \in {SHELL, Own(n)}
                       /\ Live(2 * n)' => proc'[2 * n].fr = Own(n)
    BY DEF LinesInv, Live
  <2>. QED  BY <1>0, <1>1, <1>2, <1>3, PidsOfLines DEF CommandsInv, LinesInv
<1>6. OutInv'
  <2>. SUFFICES ASSUME NEW x \in Pids, Live(x)', proc'[x].fw = SHELL, typed' < MAX_PIPES, ~amp'
                PROVE  foreground' = x /\ proc'[x].out = << >>
    BY DEF OutInv, Live
  <2>1. x # p /\ Live(x) /\ proc'[x] = proc[x]
    BY <1>1, <1>2, <1>3
  <2>. QED  BY <1>1, <2>1 DEF CommandsInv, OutInv
<1>7. PipesInv' /\ NamesInv'
  BY <1>1 DEF CommandsInv, PipesInv, NamesInv, pipevars
<1>. QED  BY <1>4, <1>5, <1>6, <1>7 DEF CommandsInv

\* What a process is after it got a byte.
LEMMA GotFields ==
  ASSUME CommandsInv, NEW p \in Pids, NEW c
  PROVE  /\ DOMAIN Got(p, c) = Fields /\ Got(p, c).fr = proc[p].fr /\ Got(p, c).fw = proc[p].fw
         /\ Got(p, c).at \in {"ending", "reading", "writing"}
         /\ OnScreen(p) => Got(p, c).out = << >>
<1>. DEFINE q == proc[p]
            o == IF OnScreen(p) THEN << >> ELSE Written(q, c)
            a == IF c = EndOfFile THEN "ending"
                 ELSE IF OnScreen(p) \/ Written(q, c) = << >> THEN "reading" ELSE "writing"
            m == IF q.prog # "CAT" \/ c \in {"\n", EndOfFile} THEN << >> ELSE Append(q.comm, c)
            q1 == [q EXCEPT !.out = o]
            q2 == [q1 EXCEPT !.at = a]
            q3 == [q2 EXCEPT !.comm = m]
<1>1. Got(p, c) = q3
  BY DEF Got
<1>2. DOMAIN q = Fields
  BY DEF CommandsInv, ProcInv
<1>3. a \in {"ending", "reading", "writing"} /\ (OnScreen(p) => o = << >>)
  OBVIOUS
<1>. HIDE DEF q, o, a, m
<1>4. DOMAIN q1 = Fields /\ q1.fr = q.fr /\ q1.fw = q.fw /\ q1.out = o
  BY <1>2 DEF Fields
<1>. HIDE DEF q1
<1>5. DOMAIN q2 = Fields /\ q2.fr = q.fr /\ q2.fw = q.fw /\ q2.out = o /\ q2.at = a
  BY <1>4 DEF Fields
<1>. HIDE DEF q2
<1>6. DOMAIN q3 = Fields /\ q3.fr = q.fr /\ q3.fw = q.fw /\ q3.out = o /\ q3.at = a
  BY <1>5 DEF Fields
<1>. HIDE DEF q3
<1>. QED  BY <1>1, <1>3, <1>6 DEF q

\* A byte got, from wherever it came.
LEMMA GotMoved ==
  ASSUME CommandsInv, NEW p \in Pids, NEW c, Live(p), proc' = [proc EXCEPT ![p] = Got(p, c)],
         UNCHANGED <<foreground, typed, amp>>
  PROVE  Moved(p, Got(p, c))
<1>. DEFINE q == Got(p, c)
<1>1. /\ DOMAIN q = Fields /\ q.fr = proc[p].fr /\ q.fw = proc[p].fw
      /\ q.at \in {"ending", "reading", "writing"} /\ (OnScreen(p) => q.out = << >>)
  BY GotFields
<1>. HIDE DEF q
<1>2. proc' = [proc EXCEPT ![p] = q]
  BY DEF q
<1>3. foreground = p /\ proc[p].fw = SHELL => OnScreen(p)
  BY DEF OnScreen
<1>. QED  BY <1>1, <1>2, <1>3 DEF Moved, q

\* sys_read puts a background reader to sleep.
LEMMA SleepOnReadOK ==
  ASSUME CommandsInv, NEW p \in Pids, SleepOnRead(p)
  PROVE  CommandsInv'
<1>. DEFINE q == [proc[p] EXCEPT !.at = "asleep"]
<1>1. DOMAIN proc[p] = Fields /\ DOMAIN proc = Pids
  BY DEF CommandsInv, ProcInv
<1>2. /\ DOMAIN q = Fields /\ q.fr = proc[p].fr /\ q.fw = proc[p].fw /\ q.at = "asleep"
      /\ q.out = proc[p].out
  BY <1>1 DEF Fields
<1>3. proc' = [proc EXCEPT ![p] = q] /\ UNCHANGED <<pipevars, foreground, typed, amp, wild>> /\ Live(p)
  BY DEF SleepOnRead, Live
<1>. HIDE DEF q
<1>4. Moved(p, q)
  BY <1>2, <1>3 DEF Moved
<1>5. PipesInv' /\ SameNames
  BY <1>3 DEF CommandsInv, PipesInv, SameNames, pipevars
<1>w. wild' => amp
  BY <1>3 DEF CommandsInv, ProcInv
<1>. QED  BY <1>3, <1>4, <1>5, <1>w, MovedOK

\* A byte from the stack of a revived reader, or from the keyboard.
LEMMA GotOK ==
  ASSUME CommandsInv, NEW p \in Pids, Revived(p) \/ ReadKey(p)
  PROVE  CommandsInv'
<1>1. /\ Live(p) /\ UNCHANGED <<pipevars, foreground, typed, amp, wild>>
      /\ \E c : proc' = [proc EXCEPT ![p] = Got(p, c)]
  BY DEF Revived, ReadKey, Live
<1>2. PICK c : proc' = [proc EXCEPT ![p] = Got(p, c)]
  BY <1>1
<1>3. Moved(p, Got(p, c))
  BY <1>1, <1>2, GotMoved
<1>4. PipesInv' /\ SameNames
  BY <1>1 DEF CommandsInv, PipesInv, SameNames, pipevars
<1>w. wild' => amp
  BY <1>1 DEF CommandsInv, ProcInv
<1>. QED  BY <1>1, <1>3, <1>4, <1>w, MovedOK

\* A byte from a pipe.
LEMMA ReadPipeOK ==
  ASSUME CommandsInv, NEW p \in Pids, ReadPipe(p)
  PROVE  CommandsInv'
<1>. DEFINE id == proc[p].fr  c == NextByte(pipe_array[id])
<1>1. /\ Live(p) /\ UNCHANGED <<foreground, typed, amp, wild>>
      /\ pipe_read(id, c) /\ proc' = [proc EXCEPT ![p] = Got(p, c)]
  BY DEF ReadPipe, Live
<1>2. id \in Slots /\ PipesInv
  BY Descriptors DEF CommandsInv
<1>. HIDE DEF id, c
<1>3. Moved(p, Got(p, c))
  BY <1>1, GotMoved
<1>4. PipesInv' /\ SameNames
  BY <1>1, <1>2, ReadOK
<1>w. wild' => amp
  BY <1>1 DEF CommandsInv, ProcInv
<1>. QED  BY <1>1, <1>3, <1>4, <1>w, MovedOK

\* A byte to a pipe: it has a buffer, or some line asked for the background.
LEMMA put_cOK ==
  ASSUME CommandsInv, NEW p \in Pids, put_c(p)
  PROVE  CommandsInv'
<1>. DEFINE id == proc[p].fw  q == proc[p]
            a == IF q.at = "writing" /\ Len(q.out) = 1 THEN "reading" ELSE q.at
            q1 == [q EXCEPT !.out = Tail(q.out)]
            q2 == [q1 EXCEPT !.at = a]
            e == Emitted(q)
<1>1. /\ q.at \in {"writing", "ending"} /\ q.out # << >> /\ UNCHANGED <<foreground, typed, amp>>
      /\ pipe_write(id, Head(q.out)) /\ proc' = [proc EXCEPT ![p] = e]
      /\ wild' => (wild \/ pipe_array[id].name = -1)
  BY DEF put_c
<1>2. id \in Slots /\ PipesInv /\ DOMAIN q = Fields
  BY Descriptors DEF CommandsInv, ProcInv
<1>3. e = IF q.prog = "LOOP" THEN q ELSE q2
  BY DEF Emitted
<1>4. a \in {"reading", "writing", "ending"}
  BY <1>1
<1>5. DOMAIN q2 = Fields /\ q2.fr = q.fr /\ q2.fw = q.fw /\ q2.at = a
  <2>. HIDE DEF a, q
  <2>1. DOMAIN q1 = Fields /\ q1.fr = q.fr /\ q1.fw = q.fw
    BY <1>2 DEF Fields
  <2>. HIDE DEF q1
  <2>. QED  BY <2>1 DEF Fields
<1>. HIDE DEF a, q2, e, id
<1>6. DOMAIN e = Fields /\ e.fr = q.fr /\ e.fw = q.fw /\ e.at \notin {"none", "dead"}
  <2>1. CASE q.prog = "LOOP"
    BY <1>1, <1>2, <1>3, <2>1
  <2>2. CASE q.prog # "LOOP"
    BY <1>3, <1>4, <1>5, <2>2
  <2>. QED  BY <2>1, <2>2
<1>7. Live(p)
  BY <1>1 DEF Live
<1>8. Moved(p, e)
  BY <1>1, <1>6, <1>7 DEF Moved
<1>9. PipesInv' /\ SameNames
  BY <1>1, <1>2, WriteOK
<1>10. pipe_array[id].name = -1 => amp
  <2>. SUFFICES ASSUME pipe_array[id].name = -1, ~amp PROVE FALSE
    BY DEF CommandsInv, ProcInv
  <2>1. PICK n \in 1 .. MaxLines : p = 2 * n - 1 \/ p = 2 * n
    BY PidsOfLines
  <2>2. n =< typed /\ typed \in Int /\ n \in Int
    <3>1. typed \in Int /\ n \in Int
      BY PidsOfLines DEF CommandsInv, ProcInv
    <3>2. n > typed => ~Live(2 * n - 1) /\ ~Live(2 * n)
      BY DEF CommandsInv, LinesInv
    <3>3. ~(n > typed)
      <4>1. CASE p = 2 * n - 1
        BY <1>7, <3>2, <4>1
      <4>2. CASE p = 2 * n
        BY <1>7, <3>2, <4>2
      <4>. QED  BY <2>1, <4>1, <4>2
    <3>. QED  BY <3>1, <3>3
  <2>3. id \in {SHELL, Own(n)}
    BY <2>1 DEF CommandsInv, LinesInv, id
  <2>4. id = SHELL
    BY <1>2, <2>2, <2>3, PidsOfLines DEF Own, CommandsInv, NamesInv
  <2>5. typed < MAX_PIPES
    BY <2>4 DEF CommandsInv, NamesInv
  <2>. QED  BY <1>1, <1>7, <2>4, <2>5 DEF CommandsInv, OutInv, id
<1>11. wild' => amp
  BY <1>1, <1>10 DEF CommandsInv, ProcInv
<1>. QED  BY <1>8, <1>9, <1>11, MovedOK

\* A process that exits, or is killed by Ctrl-C.
LEMMA EndOK ==
  ASSUME CommandsInv, (\E p \in Pids : Exit(p)) \/ CtrlC
  PROVE  CommandsInv'
<1>1. ASSUME NEW p \in Pids, Exit(p) PROVE CommandsInv'
  BY <1>1, EndedOK DEF Exit, Exited
<1>2. CASE CtrlC
  <2>1. foreground \in Pids
    BY <1>2 DEF CtrlC, CommandsInv, ProcInv
  <2>2. /\ proc' = [proc EXCEPT ![foreground] = Ended(foreground)] /\ foreground' = SHELL
        /\ UNCHANGED <<pipevars, typed, amp, wild>>
    BY <1>2 DEF CtrlC
  <2>. QED  BY <2>1, <2>2, EndedOK
<1>. QED  BY <1>1, <1>2

\* Ctrl-D.
LEMMA CtrlDOK ==
  ASSUME CommandsInv, CtrlD
  PROVE  CommandsInv'
<1>. DEFINE id == proc[foreground].fr
<1>1. foreground \in Pids /\ send_eof_to_foreground(id) /\ UNCHANGED procvars
  BY DEF CtrlD, CommandsInv, ProcInv
<1>2. id \in Slots /\ PipesInv
  BY <1>1, Descriptors DEF CommandsInv
<1>. HIDE DEF id
<1>3. PipesInv' /\ SameNames
  BY <1>1, <1>2, EofOK
<1>4. ProcInv' /\ LinesInv' /\ OutInv'
  BY <1>1 DEF CommandsInv, ProcInv, LinesInv, OutInv, Live, procvars
<1>5. NamesInv'
  BY <1>1, <1>3, PidsOfLines DEF CommandsInv, NamesInv, SameNames, procvars
<1>. QED  BY <1>3, <1>4, <1>5 DEF CommandsInv
-----------------------------------------------------------------------------
\* The pipe a new line takes is the next one.
LEMMA FoundIsOwn ==
  ASSUME CommandsInv, typed < MaxLines
  PROVE  Found = Own(typed + 1)
<1>. DEFINE n == typed + 1  F == FreeSlots \ {SHELL}
<1>1. typed \in Nat /\ n \in Nat /\ MAX_PIPES \in Nat
  BY PidsOfLines DEF CommandsInv, ProcInv
<1>2. \A id : id \in F <=> id \in Int /\ n =< id /\ id < MAX_PIPES
  BY <1>1 DEF FreeSlots, Slots, SHELL, CommandsInv, NamesInv
<1>. HIDE DEF F, n
<1>3. CASE n < MAX_PIPES
  <2>1. n \in F /\ \A y \in F : n =< y
    BY <1>1, <1>2, <1>3
  <2>2. \A x \in F : (\A y \in F : x =< y) => x = n
    BY <1>1, <1>2, <2>1
  <2>3. Min(F) = n
    BY <2>1, <2>2 DEF Min
  <2>. QED  BY <1>3, <2>1, <2>3 DEF Found, F, n, Own
<1>4. CASE ~(n < MAX_PIPES)
  <2>1. F = {}
    BY <1>1, <1>2, <1>4
  <2>. QED  BY <1>4, <2>1 DEF Found, F, n, Own, SHELL
<1>. QED  BY <1>3, <1>4

\* What a program is when it starts.
LEMMA StartFields ==
  ASSUME NEW prog, NEW fr, NEW fw, NEW fg
  PROVE  LET s == Start(prog, fr, fw, fg)
         IN  /\ DOMAIN s = Fields /\ s.fr = fr /\ s.fw = fw
             /\ s.at \in {"writing", "ending", "reading"} /\ (fg => s.out = << >>)
<1>. DEFINE a == CASE prog = "LOOP" -> "writing" [] prog = "HELP" -> "ending" [] OTHER -> "reading"
            o == IF fg \/ prog \in {"CAT", "WC", "FILTER"} THEN << >> ELSE IF prog = "LOOP" THEN <<"b">> ELSE Help
            s == [prog |-> prog, fr |-> fr, fw |-> fw, comm |-> << >>, at |-> a, out |-> o]
<1>1. Start(prog, fr, fw, fg) = s
  BY DEF Start
<1>2. a \in {"writing", "ending", "reading"} /\ (fg => o = << >>)
  OBVIOUS
<1>. HIDE DEF a, o
<1>3. DOMAIN s = Fields /\ s.fr = fr /\ s.fw = fw /\ s.at = a /\ s.out = o
  BY DEF Fields
<1>. HIDE DEF s
<1>. QED  BY <1>1, <1>2, <1>3

\* A line that is in no other way in the background is in the foreground.
LEMMA InForeground ==
  ASSUME NEW line \in Seq(STRING), ~Piped(line), "&" \notin Range(line), line[1] # "|"
  PROVE  IsFg(line)
<1>1. Len(line) \in Nat /\ DOMAIN line = 1 .. Len(line)
  BY LenProperties
<1>. SUFFICES ASSUME NEW k \in 1 .. Len(line) PROVE line[k] # "|" /\ line[k] # "&"
  BY DEF IsFg
<1>2. line[k] # "&"
  BY <1>1 DEF Range
<1>3. line[k] # "|"
  <2>1. CASE k = 1
    BY <2>1
  <2>2. CASE k # 1
    <3>1. k \in 2 .. Len(line)
      BY <1>1, <2>2
    <3>. QED  BY <3>1 DEF Piped
  <2>. QED  BY <2>1, <2>2
<1>. QED  BY <1>2, <1>3

\* The first and the second process of the n-th line once it has been read.
FirstStarted(line, id, n) ==
  /\ proc'[2 * n - 1].fr = SHELL /\ proc'[2 * n - 1].fw \in {SHELL, Own(n)}
  /\ Live(2 * n - 1)' <=> proc'[2 * n - 1].at # "none"
  /\ Live(2 * n - 1)' <=> args(line)[1] \in Programs
  /\ Live(2 * n - 1)' => proc'[2 * n - 1].fw = Fd(line, id)
  /\ Live(2 * n - 1)' /\ IsFg(line) => proc'[2 * n - 1].out = << >>

SecondStarted(line, n) ==
  /\ proc'[2 * n].fw = SHELL /\ proc'[2 * n].fr \in {SHELL, Own(n)}
  /\ Live(2 * n)' <=> proc'[2 * n].at # "none"
  /\ Live(2 * n)' <=> Second(line) \in Programs
  /\ Live(2 * n)' => proc'[2 * n].fr = Own(n) /\ proc'[2 * n].out = << >>

\* The old ones are as they were or killed.
OthersKept(n) ==
  \A x \in Pids : x \notin {2 * n - 1, 2 * n} =>
    \/ proc'[x] = proc[x]
    \/ ~Live(x)' /\ proc'[x].fr = SHELL /\ proc'[x].fw = SHELL

\* The processes once line has been read as the n-th line, with its pipe.
LEMMA CreatedFields ==
  ASSUME CommandsInv, NEW line, NEW id, NEW n \in 1 .. MaxLines, n = typed + 1, id = Own(n),
         proc' = Created(line, id, n)
  PROVE  /\ DOMAIN proc' = Pids /\ \A x \in Pids : DOMAIN proc'[x] = Fields
         /\ FirstStarted(line, id, n) /\ SecondStarted(line, n) /\ OthersKept(n)
<1>. DEFINE first == args(line)[1]
            s1 == Start(first, SHELL, Fd(line, id), IsFg(line))
            y == TRUE
            s2 == Start(Second(line), id, SHELL, y)
            p1 == IF first \in Programs THEN s1 ELSE NoProcess
            p2 == IF Second(line) \in Programs THEN s2 ELSE NoProcess
            d == [NoProcess EXCEPT !.at = "dead"]
<1>1. 2 * n - 1 \in Pids /\ 2 * n \in Pids /\ 2 * n - 1 # 2 * n /\ ~Live(2 * n - 1) /\ ~Live(2 * n)
  <2>1. typed \in Int /\ n > typed
    BY DEF CommandsInv, ProcInv
  <2>. QED  BY <2>1, PidsOfLines DEF CommandsInv, LinesInv
<1>2. /\ DOMAIN NoProcess = Fields /\ NoProcess.fr = SHELL /\ NoProcess.fw = SHELL /\ NoProcess.at = "none"
      /\ DOMAIN d = Fields /\ d.fr = SHELL /\ d.fw = SHELL /\ d.at = "dead"
  BY DEF NoProcess, Fields, SHELL
<1>3. /\ DOMAIN s1 = Fields /\ s1.fr = SHELL /\ s1.fw = Fd(line, id)
      /\ s1.at \in {"writing", "ending", "reading"} /\ (IsFg(line) => s1.out = << >>)
  BY StartFields
<1>4. /\ DOMAIN s2 = Fields /\ s2.fr = id /\ s2.fw = SHELL
      /\ s2.at \in {"writing", "ending", "reading"} /\ s2.out = << >>
  <2>1. y
    OBVIOUS
  <2>. HIDE DEF y
  <2>2. /\ DOMAIN s2 = Fields /\ s2.fr = id /\ s2.fw = SHELL
        /\ s2.at \in {"writing", "ending", "reading"} /\ (y => s2.out = << >>)
    BY StartFields
  <2>. HIDE DEF s2
  <2>. QED  BY <2>1, <2>2
<1>5. Fd(line, id) \in {SHELL, Own(n)}
  BY DEF Fd
<1>. HIDE DEF first, s1, s2, d
<1>6. /\ DOMAIN proc' = Pids /\ proc'[2 * n - 1] = p1 /\ proc'[2 * n] = p2
      /\ \A x \in Pids : x \notin {2 * n - 1, 2 * n} => proc'[x] \in {d, proc[x]}
  <2>1. proc' = [p \in Pids |-> CASE p = 2 * n - 1 -> p1 [] p = 2 * n -> p2
                        [] p \in Killed(line) /\ Live(p) -> d
                        [] OTHER -> proc[p]]
    BY DEF Created, first, s1, s2, d
  <2>. HIDE DEF p1, p2
  <2>. QED  BY <1>1, <2>1
<1>7. /\ DOMAIN p1 = Fields /\ p1.fr = SHELL /\ p1.fw \in {SHELL, Own(n)}
      /\ p1.at \in {"none", "writing", "ending", "reading"} /\ (p1.at # "none" <=> first \in Programs)
      /\ p1.at # "none" => p1.fw = Fd(line, id)
      /\ p1.at # "none" /\ IsFg(line) => p1.out = << >>
  <2>1. CASE first \in Programs
    BY <1>3, <1>5, <2>1
  <2>2. CASE first \notin Programs
    BY <1>2, <2>2
  <2>. QED  BY <2>1, <2>2
<1>8. /\ DOMAIN p2 = Fields /\ p2.fw = SHELL /\ p2.fr \in {SHELL, Own(n)}
      /\ p2.at \in {"none", "writing", "ending", "reading"} /\ (p2.at # "none" <=> Second(line) \in Programs)
      /\ p2.at # "none" => p2.fr = Own(n) /\ p2.out = << >>
  <2>1. CASE Second(line) \in Programs
    BY <1>4, <2>1
  <2>2. CASE Second(line) \notin Programs
    BY <1>2, <2>2
  <2>. QED  BY <2>1, <2>2
<1>. HIDE DEF p1, p2
<1>9. \A x \in Pids : Live(x)' <=> proc'[x].at \notin {"none", "dead"}
  BY DEF Live
<1>10. \A x \in Pids : DOMAIN proc'[x] = Fields
  <2>. SUFFICES ASSUME NEW x \in Pids PROVE DOMAIN proc'[x] = Fields
    OBVIOUS
  <2>1. CASE x \in {2 * n - 1, 2 * n}
    BY <1>6, <1>7, <1>8, <2>1
  <2>2. CASE x \notin {2 * n - 1, 2 * n}
    <3>1. proc'[x] \in {d, proc[x]} /\ DOMAIN proc[x] = Fields
      BY <1>6, <2>2 DEF CommandsInv, ProcInv
    <3>. QED  BY <1>2, <3>1
  <2>. QED  BY <2>1, <2>2
<1>11. OthersKept(n)
  BY <1>2, <1>6, <1>9 DEF OthersKept
<1>12. FirstStarted(line, id, n)
  BY <1>1, <1>6, <1>7, <1>9 DEF FirstStarted, first
<1>13. SecondStarted(line, n)
  BY <1>1, <1>6, <1>8, <1>9 DEF SecondStarted
<1>. QED  BY <1>6, <1>10, <1>11, <1>12, <1>13

\* A line takes the next pipe.
LEMMA LineTaken ==
  ASSUME CommandsInv, NEW id \in Slots, create_pipe_anonymous(id), typed < MaxLines, typed' = typed + 1
  PROVE  PipesInv' /\ NamesInv'
<1>0. typed \in Int /\ typed >= 0 /\ MaxLines \in Nat
  BY PidsOfLines DEF CommandsInv, ProcInv
<1>n. PICK n \in 1 .. MaxLines : n = typed + 1
  BY <1>0
<1>1. typed' = n
  BY <1>n
<1>2. typed \in Nat /\ n \in 1 .. MaxLines /\ n \in Nat /\ MAX_PIPES \in Nat /\ n > typed
  BY <1>0, <1>n, PidsOfLines
<1>4. id = Own(n)
  BY <1>n, FoundIsOwn DEF create_pipe_anonymous
<1>11. PICK junk \in [Cells -> Junk] : pipe_array' = [pipe_array EXCEPT ![id] = Pipe(max_pipe, junk)]
  BY DEF create_pipe_anonymous, Cells, N
<1>. DEFINE t == Pipe(max_pipe, junk)
<1>12. max_pipe' = max_pipe + 1 /\ max_pipe \in Nat \ {0} /\ PipesInv
  BY DEF create_pipe_anonymous, CommandsInv, PipesInv
<1>13. PipeOK(t) /\ t.name = max_pipe
  BY <1>12, NewPipeOK
<1>. HIDE DEF t
<1>14. /\ DOMAIN pipe_array' = Slots /\ pipe_array' = [x \in Slots |-> pipe_array'[x]]
       /\ \A x \in Slots : pipe_array'[x] = IF x = id THEN t ELSE pipe_array[x]
  BY <1>11, <1>12 DEF PipesInv, t
<1>15. PipesInv'
  <2>1. \A x \in Slots : PipeOK(pipe_array'[x])
    BY <1>12, <1>13, <1>14 DEF PipesInv
  <2>2. ASSUME NEW x \in Slots PROVE pipe_array'[x].name \in -1 .. max_pipe' - 1
    <3>1. pipe_array'[x].name \in {max_pipe, pipe_array[x].name} /\ pipe_array[x].name \in -1 .. max_pipe - 1
      BY <1>12, <1>13, <1>14 DEF PipesInv
    <3>. QED  BY <1>12, <3>1
  <2>. QED  BY <1>12, <1>14, <2>1, <2>2 DEF PipesInv, PipeOK, PipeShape, Ring
<1>16. NamesInv'
  <2>1. \A x \in Slots : (pipe_array'[x].name = -1) <=> (pipe_array[x].name = -1 /\ x # id)
    BY <1>12, <1>13, <1>14
  <2>2. /\ \A x \in Slots : x # SHELL => (pipe_array[x].name = -1 <=> x > typed)
        /\ pipe_array[SHELL].name = -1 <=> typed < MAX_PIPES
    BY DEF CommandsInv, NamesInv
  <2>3. \A x \in Slots : x # SHELL => (pipe_array'[x].name = -1 <=> x > typed')
    <3>. SUFFICES ASSUME NEW x \in Slots, x # SHELL PROVE pipe_array'[x].name = -1 <=> x > typed'
      OBVIOUS
    <3>1. x \in Int /\ x >= 0 /\ x < MAX_PIPES
      BY <1>2 DEF Slots
    <3>2. typed' = typed + 1 /\ (x = id <=> x = typed + 1)
      BY <1>1, <1>2, <1>4, <1>n, <3>1 DEF Own
    <3>. QED  BY <1>2, <2>1, <2>2, <3>1, <3>2
  <2>4. pipe_array'[SHELL].name = -1 <=> typed' < MAX_PIPES
    <3>1. typed' = typed + 1 /\ (SHELL = id <=> ~(typed + 1 < MAX_PIPES))
      BY <1>n, <1>1, <1>2, <1>4 DEF Own, SHELL
    <3>2. SHELL \in Slots
      BY PidsOfLines
    <3>. QED  BY <1>2, <2>1, <2>2, <3>1, <3>2
  <2>. QED  BY <2>3, <2>4 DEF NamesInv
<1>. QED  BY <1>15, <1>16

\* line_read: the line takes the next pipe and its processes start.
LEMMA line_readOK ==
  ASSUME CommandsInv, NEW line, line_read(line)
  PROVE  CommandsInv'
<1>0. typed \in Int /\ typed >= 0 /\ typed < MaxLines /\ MaxLines \in Nat /\ typed' = typed + 1
  BY PidsOfLines DEF line_read, NextLine, CommandsInv, ProcInv
<1>n. PICK n \in 1 .. MaxLines : n = typed + 1
  BY <1>0
<1>. DEFINE new == {p \in {2 * n - 1, 2 * n} : proc'[p].at # "none"}
<1>1. /\ foreground = SHELL /\ typed < MaxLines /\ typed' = n /\ line \in Lines[n] /\ wild' = wild
      /\ \E id \in Slots : create_pipe_anonymous(id) /\ proc' = Created(line, id, n)
      /\ foreground' = IF 2 * n \in new THEN 2 * n ELSE IF 2 * n - 1 \in new /\ IsFg(line) THEN 2 * n - 1 ELSE SHELL
      /\ amp' = (amp \/ "&" \in Range(line) \/ line[1] = "|")
  BY <1>n DEF line_read, NextLine
<1>2. typed \in Nat /\ n \in 1 .. MaxLines /\ n \in Nat /\ MAX_PIPES \in Nat /\ n > typed
  BY <1>0, <1>n, PidsOfLines
<1>3. PICK id \in Slots : create_pipe_anonymous(id) /\ proc' = Created(line, id, n)
  BY <1>1
<1>4. id = Own(n)
  BY <1>n, <1>1, <1>3, FoundIsOwn DEF create_pipe_anonymous
<1>. HIDE DEF new
<1>5. /\ DOMAIN proc' = Pids /\ \A x \in Pids : DOMAIN proc'[x] = Fields
      /\ FirstStarted(line, id, n) /\ SecondStarted(line, n) /\ OthersKept(n)
  BY <1>n, <1>3, <1>4, CreatedFields
<1>6. foreground' = IF Live(2 * n)' THEN 2 * n ELSE IF Live(2 * n - 1)' /\ IsFg(line) THEN 2 * n - 1 ELSE SHELL
  <2>1. (2 * n \in new <=> Live(2 * n)') /\ (2 * n - 1 \in new <=> Live(2 * n - 1)')
    BY <1>5 DEF new, FirstStarted, SecondStarted
  <2>. QED  BY <1>1, <2>1
<1>7. 2 * n - 1 \in Pids /\ 2 * n \in Pids
  BY <1>2, PidsOfLines
<1>8. ProcInv'
  <2>1. foreground' \in Pids \cup {SHELL}
    BY <1>6, <1>7
  <2>2. foreground' # SHELL => Live(foreground)'
    <3>1. CASE Live(2 * n)'
      BY <1>6, <3>1 DEF Live
    <3>2. CASE ~Live(2 * n)' /\ Live(2 * n - 1)' /\ IsFg(line)
      BY <1>6, <3>2 DEF Live
    <3>3. CASE ~Live(2 * n)' /\ ~(Live(2 * n - 1)' /\ IsFg(line))
      BY <1>6, <3>3
    <3>. QED  BY <3>1, <3>2, <3>3
  <2>3. typed' \in 0 .. MaxLines
    BY <1>1, <1>2, PidsOfLines
  <2>4. amp' \in BOOLEAN /\ (wild' => amp')
    BY <1>1 DEF CommandsInv, ProcInv
  <2>. QED  BY <1>5, <2>1, <2>2, <2>3, <2>4 DEF ProcInv
<1>9. LinesInv'
  <2>. SUFFICES ASSUME NEW m \in 1 .. MaxLines
                PROVE  /\ m > typed' => ~Live(2 * m - 1)' /\ ~Live(2 * m)'
                       /\ proc'[2 * m - 1].fr = SHELL /\ proc'[2 * m - 1].fw \in {SHELL, Own(m)}
                       /\ proc'[2 * m].fw = SHELL /\ proc'[2 * m].fr \in {SHELL, Own(m)}
                       /\ Live(2 * m)' => proc'[2 * m].fr = Own(m)
    BY DEF LinesInv, Live
  <2>1. CASE m = n
    BY <1>1, <1>2, <1>5, <2>1 DEF FirstStarted, SecondStarted
  <2>2. CASE m # n
    <3>1. /\ 2 * m - 1 \in Pids /\ 2 * m \in Pids
          /\ 2 * m - 1 \notin {2 * n - 1, 2 * n} /\ 2 * m \notin {2 * n - 1, 2 * n}
      <4>1. m \in Int /\ n \in Int
        BY <1>2
      <4>2. 2 * m - 1 \notin {2 * n - 1, 2 * n} /\ 2 * m \notin {2 * n - 1, 2 * n}
        BY <2>2, <4>1
      <4>. QED  BY <4>2, PidsOfLines
    <3>2. /\ m > typed => ~Live(2 * m - 1) /\ ~Live(2 * m)
          /\ proc[2 * m - 1].fr = SHELL /\ proc[2 * m - 1].fw \in {SHELL, Own(m)}
          /\ proc[2 * m].fw = SHELL /\ proc[2 * m].fr \in {SHELL, Own(m)}
          /\ Live(2 * m) => proc[2 * m].fr = Own(m)
      BY DEF CommandsInv, LinesInv
    <3>3. m > typed' => m > typed
      BY <1>1, <1>2
    <3>4. \A x \in Pids : x \notin {2 * n - 1, 2 * n} => (Live(x)' => proc'[x] = proc[x] /\ Live(x))
      BY <1>5 DEF Live, OthersKept
    <3>. QED  BY <1>5, <3>1, <3>2, <3>3, <3>4 DEF OthersKept
  <2>. QED  BY <2>1, <2>2
<1>10. OutInv'
  <2>. SUFFICES ASSUME NEW x \in Pids, Live(x)', proc'[x].fw = SHELL, typed' < MAX_PIPES, ~amp'
                PROVE  foreground' = x /\ proc'[x].out = << >>
    BY DEF OutInv, Live
  <2>1. CASE x = 2 * n
    BY <1>5, <1>6, <2>1 DEF SecondStarted
  <2>2. CASE x = 2 * n - 1
    <3>1. Fd(line, id) = SHELL /\ id # SHELL
      <4>1. id = n /\ n # SHELL
        BY <1>1, <1>2, <1>4 DEF Own, SHELL
      <4>. QED  BY <1>5, <2>2, <4>1 DEF FirstStarted
    <3>2. ~Piped(line)
      BY <3>1 DEF Fd
    <3>3. line \in Seq(STRING)
      <4>1. Lines \in Seq(SUBSET Seq(STRING)) /\ n \in 1 .. Len(Lines)
        BY <1>2, CommandsAssumption DEF MaxLines
      <4>2. Lines[n] \in SUBSET Seq(STRING)
        BY <4>1, ElementOfSeq, Zenon
      <4>. QED  BY <1>1, <4>2
    <3>4. IsFg(line)
      BY <1>1, <3>2, <3>3, InForeground
    <3>5. args(line)[1] \in Programs
      BY <1>5, <2>2 DEF FirstStarted
    <3>6. Second(line) = ""
      BY <3>2, <3>5 DEF Second, Known
    <3>7. ~Live(2 * n)'
      BY <1>5, <3>6 DEF Programs, SecondStarted
    <3>. QED  BY <1>5, <1>6, <2>2, <3>4, <3>7 DEF FirstStarted
  <2>3. CASE x \notin {2 * n - 1, 2 * n}
    <3>1. proc'[x] = proc[x] /\ Live(x) /\ typed < MAX_PIPES /\ ~amp
      <4>1. proc'[x] = proc[x]
        BY <1>5, <2>3 DEF OthersKept
      <4>2. typed < MAX_PIPES
        BY <1>1, <1>2, <1>n
      <4>3. ~amp
        BY <1>1 DEF CommandsInv, ProcInv
      <4>. QED  BY <4>1, <4>2, <4>3 DEF Live
    <3>2. foreground = x
      BY <3>1 DEF CommandsInv, OutInv
    <3>. QED  BY <1>1, <3>2, PidsOfLines
  <2>. QED  BY <2>1, <2>2, <2>3
<1>11. PipesInv' /\ NamesInv'
  BY <1>0, <1>1, <1>3, <1>n, LineTaken
<1>. QED  BY <1>8, <1>9, <1>10, <1>11 DEF CommandsInv

\* What leaves the processes alone keeps what is said of them.
LEMMA ProcessesKept ==
  ASSUME CommandsInv, UNCHANGED <<proc, foreground, amp, wild>>, typed' \in {typed, typed + 1},
         typed' \in 0 .. MaxLines
  PROVE  ProcInv' /\ LinesInv' /\ OutInv'
<1>1. /\ proc' = proc /\ foreground' = foreground /\ amp' = amp /\ wild' = wild
      /\ \A x \in Pids : Live(x)' <=> Live(x)
  BY DEF Live
<1>2. ProcInv'
  BY <1>1 DEF CommandsInv, ProcInv, Live
<1>3. typed \in Int /\ typed' >= typed
  BY PidsOfLines DEF CommandsInv, ProcInv
<1>4. \A n \in 1 .. MaxLines : n > typed' => n > typed
  BY <1>3
<1>5. LinesInv'
  BY <1>1, <1>4 DEF CommandsInv, LinesInv, Live
<1>6. typed' < MAX_PIPES => typed < MAX_PIPES
  BY <1>3, PidsOfLines
<1>7. OutInv'
  BY <1>1, <1>6 DEF CommandsInv, OutInv, Live
<1>. QED  BY <1>2, <1>5, <1>7

\* The shell's own steps: a line of junk, a byte of its output, its reads.
LEMMA ShellOK ==
  ASSUME CommandsInv, junk_read \/ shell_put_c \/ shell_sleeps \/ shell_revived \/ EmptyLine
  PROVE  CommandsInv'
<1>0. typed \in 0 .. MaxLines /\ MaxLines \in Nat /\ PipesInv /\ NamesInv /\ SHELL \in Slots
  BY PidsOfLines DEF CommandsInv, ProcInv
<1>1. CASE junk_read
  <2>1. /\ UNCHANGED <<proc, foreground, amp, wild>> /\ typed < MaxLines /\ typed' = typed + 1
        /\ \E id \in Slots : create_pipe_anonymous(id)
    BY <1>1 DEF junk_read, NextLine
  <2>2. typed' \in 0 .. MaxLines
    BY <1>0, <2>1
  <2>3. PipesInv' /\ NamesInv'
    BY <2>1, LineTaken
  <2>. QED  BY <2>1, <2>2, <2>3, ProcessesKept DEF CommandsInv
<1>2. CASE ~junk_read
  <2>1. UNCHANGED <<proc, foreground, typed, amp, wild>>
    BY <1>2 DEF shell_put_c, shell_sleeps, shell_revived, EmptyLine
  <2>2. UNCHANGED pipevars \/ pipe_write(SHELL, Head(shell.out))
    BY <1>2 DEF shell_put_c, shell_sleeps, shell_revived, EmptyLine
  <2>3. PipesInv' /\ SameNames
    <3>1. CASE UNCHANGED pipevars
      BY <1>0, <3>1 DEF PipesInv, SameNames, pipevars
    <3>2. CASE pipe_write(SHELL, Head(shell.out))
      BY <1>0, <3>2, WriteOK
    <3>. QED  BY <2>2, <3>1, <3>2
  <2>4. NamesInv'
    BY <1>0, <2>1, <2>3 DEF NamesInv, SameNames
  <2>. QED  BY <1>0, <2>1, <2>3, <2>4, ProcessesKept DEF CommandsInv
<1>. QED  BY <1>1, <1>2

-----------------------------------------------------------------------------
\* The system starts with the invariant: no pipe is taken, no process runs.
LEMMA CommandsStart ==
  ASSUME Init
  PROVE  CommandsInv
<1>. DEFINE junk == [p \in 0 .. PIPE_BUFFER_SIZE - 1 |-> "?"]  t == Pipe(-1, junk)
<1>1. /\ pipe_array = [id \in Slots |-> t] /\ max_pipe = 1
      /\ proc = [p \in Pids |-> NoProcess] /\ foreground = SHELL /\ typed = 0
      /\ amp = FALSE /\ wild = FALSE
  BY DEF Init, init_pipes
<1>2. junk = [k \in Cells |-> junk[k]]
  BY DEF Cells, N
<1>. HIDE DEF junk
<1>3. PipeOK(t) /\ t.name = -1
  BY <1>2, NewPipeOK
<1>. HIDE DEF t
<1>4. PipesInv
  <2>1. -1 \in -1 .. max_pipe - 1 /\ max_pipe \in Nat \ {0}
    BY <1>1
  <2>. QED  BY <1>1, <1>3, <2>1 DEF PipesInv
<1>5. NamesInv
  <2>1. \A id \in Slots : id # SHELL => id > typed
    BY <1>1, PidsOfLines DEF Slots, SHELL
  <2>. QED  BY <1>1, <1>3, <2>1, PidsOfLines DEF NamesInv
<1>6. \A p \in Pids : /\ ~Live(p) /\ DOMAIN proc[p] = Fields
                      /\ proc[p].fr = SHELL /\ proc[p].fw = SHELL
  BY <1>1 DEF Live, NoProcess, Fields, SHELL
<1>7. ProcInv
  <2>1. DOMAIN proc = Pids /\ typed \in 0 .. MaxLines
    BY <1>1, PidsOfLines
  <2>2. amp \in BOOLEAN /\ (wild => amp)
    BY <1>1
  <2>. QED  BY <1>1, <1>6, <2>1, <2>2 DEF ProcInv
<1>8. LinesInv
  BY <1>6, PidsOfLines DEF LinesInv
<1>9. OutInv
  BY <1>6 DEF OutInv
<1>. QED  BY <1>4, <1>5, <1>7, <1>8, <1>9 DEF CommandsInv

\* Every step keeps it.
LEMMA CommandsStep ==
  ASSUME CommandsInv, [Next]_vars
  PROVE  CommandsInv'
<1>1. ASSUME NEW line, line_read(line) PROVE CommandsInv'
  BY <1>1, line_readOK
<1>2. ASSUME NEW p \in Pids, Run(p) PROVE CommandsInv'
  BY <1>2, SleepOnReadOK, ReadPipeOK, put_cOK, EndOK DEF Run
<1>3. ASSUME NEW p \in Pids, Revived(p) \/ ReadKey(p) PROVE CommandsInv'
  BY <1>3, GotOK
<1>4. ASSUME CtrlC PROVE CommandsInv'
  BY <1>4, EndOK
<1>5. ASSUME CtrlD PROVE CommandsInv'
  BY <1>5, CtrlDOK
<1>7. ASSUME junk_read \/ shell_put_c \/ shell_sleeps \/ shell_revived \/ EmptyLine PROVE CommandsInv'
  BY <1>7, ShellOK
<1>6. CASE UNCHANGED vars
  <2>1. UNCHANGED pipevars /\ UNCHANGED procvars
    BY <1>6 DEF vars
  <2>2. PipesInv' /\ NamesInv'
    BY <2>1 DEF CommandsInv, PipesInv, NamesInv, pipevars, procvars
  <2>3. ProcInv' /\ LinesInv' /\ OutInv'
    BY <2>1 DEF CommandsInv, ProcInv, LinesInv, OutInv, Live, procvars
  <2>. QED  BY <2>2, <2>3 DEF CommandsInv
<1>. QED  BY <1>1, <1>2, <1>3, <1>4, <1>5, <1>6, <1>7 DEF Next, Crashed, Prompt

\* What the system keeps while lines are typed, whatever they are.
THEOREM CommandsInvariant == Spec => []CommandsInv
<1>1. Init => CommandsInv
  BY CommandsStart
<1>2. CommandsInv /\ [Next]_vars => CommandsInv'
  BY CommandsStep
<1>. QED  BY <1>1, <1>2, PTL DEF Spec

\* A pipe is a queue as long as reader and writer keep within a buffer of each
\* other, for every buffer size: pipe_write and pipe_read of pipe.c.
THEOREM PipesAreQueues == Spec => []PipeIsFifo
<1>1. CommandsInv => PipeIsFifo
  <2>. SUFFICES ASSUME CommandsInv, NEW id \in Slots, pipe_array[id].fifo
                PROVE  /\ Len(pipe_array[id].unread) = pipe_array[id].left_to_read
                       /\ \A k \in 1 .. Len(pipe_array[id].unread) :
                            pipe_array[id].cells[(pipe_array[id].read_pos + k - 1) % PIPE_BUFFER_SIZE]
                              = pipe_array[id].unread[k]
    BY DEF PipeIsFifo
  <2>1. Ring(pipe_array[id])
    BY DEF CommandsInv, PipesInv, PipeOK
  <2>. QED  BY <2>1 DEF Ring, N
<1>. QED  BY <1>1, CommandsInvariant, PTL

\* The type of pipes and processes; the foreground is a process that lives.
THEOREM CommandsTypes == Spec => []PipesTypeOK
<1>1. CommandsInv => PipesTypeOK
  <2>. SUFFICES ASSUME CommandsInv PROVE PipesTypeOK
    OBVIOUS
  <2>1. ASSUME NEW id \in Slots
        PROVE  LET p == pipe_array[id] IN
               /\ p.name \in -1 .. max_pipe - 1 /\ {p.write_pos, p.read_pos} \subseteq 0 .. PIPE_BUFFER_SIZE
               /\ p.left_to_read \in -MaxCount .. MaxCount /\ {p.eof, p.fifo} \subseteq BOOLEAN
    BY DEF CommandsInv, PipesInv, PipeOK, PipeShape, N
  <2>2. \A p \in Pids : {proc[p].fr, proc[p].fw} \subseteq Slots
    BY Descriptors
  <2>. QED  BY <2>1, <2>2 DEF PipesTypeOK, CommandsInv, ProcInv
<1>. QED  BY <1>1, CommandsInvariant, PTL

\* The first MAX_PIPES - 1 pipelines are connected, each apart from the others.
THEOREM PipelinesConnect == Spec => []PipelineConnected
<1>1. CommandsInv => PipelineConnected
  <2>. SUFFICES ASSUME CommandsInv, NEW p \in Pids, Live(p), p % 2 = 0, p \div 2 < MAX_PIPES
                PROVE  /\ proc[p].fr # SHELL
                       /\ \A q \in Pids : Live(q) /\ proc[q].fw = proc[p].fr => q = p - 1
                       /\ \A q \in Pids : Live(q) /\ proc[q].fr = proc[p].fr => q = p
    BY DEF PipelineConnected
  <2>1. PICK n \in 1 .. MaxLines : p = 2 * n - 1 \/ p = 2 * n
    BY PidsOfLines
  <2>2. n \in Int /\ n >= 1 /\ p = 2 * n /\ n < MAX_PIPES /\ MAX_PIPES \in Int
    BY <2>1, PidsOfLines
  <2>3. proc[p].fr = n /\ n # SHELL
    BY <2>2 DEF CommandsInv, LinesInv, Own, SHELL
  <2>4. ASSUME NEW q \in Pids, Live(q)
        PROVE  (proc[q].fw = n => q = p - 1) /\ (proc[q].fr = n => q = p)
    <3>1. PICK m \in 1 .. MaxLines : q = 2 * m - 1 \/ q = 2 * m
      BY PidsOfLines
    <3>2. Own(m) = n => m = n
      BY <2>3 DEF Own
    <3>3. /\ proc[2 * m - 1].fr = SHELL /\ proc[2 * m - 1].fw \in {SHELL, Own(m)}
          /\ proc[2 * m].fw = SHELL /\ proc[2 * m].fr \in {SHELL, Own(m)}
      BY DEF CommandsInv, LinesInv
    <3>4. CASE q = 2 * m - 1
      BY <2>2, <2>3, <3>2, <3>3, <3>4
    <3>5. CASE q = 2 * m
      BY <2>2, <2>3, <3>2, <3>3, <3>5
    <3>. QED  BY <3>1, <3>4, <3>5
  <2>. QED  BY <2>3, <2>4
<1>. QED  BY <1>1, CommandsInvariant, PTL

\* No process of a line writes through the null buffer of the shell's pipe unless
\* a line asked for the background with "&" or began with "|": put_c on pipe 0,
\* which sys_write chooses, happens to the shell alone.
THEOREM BuffersExist == Spec => []OutputHasABuffer
<1>1. CommandsInv => OutputHasABuffer
  BY DEF CommandsInv, ProcInv, OutputHasABuffer
<1>. QED  BY <1>1, CommandsInvariant, PTL
=============================================================================
