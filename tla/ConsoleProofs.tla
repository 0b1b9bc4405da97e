--------------------------- MODULE ConsoleProofs ----------------------------
(***************************************************************************)
(* Proofs about the shell (Terminal) and pong (Pong), for every size of      *)
(* buffers, screen, fonts and game.  First the key buffer between the        *)
(* keyboard interrupt and sys_read; then the cursor of the video driver,     *)
(* which no word moves off the grid of its font; then the game, whose        *)
(* invariant is the field after each option; last the shell's screen.        *)
(***************************************************************************)
EXTENDS Terminal, Pong, WellFoundedInduction, TLAPS

\* The type of all but the screen.  The foreground process alone sleeps for a
\* key, so one of shell and command at most.
KeyTypes ==
  /\ buff \in [0 .. BUFF_SIZE - 1 -> Stored] /\ buffer_pos \in 0 .. BUFF_SIZE
  /\ ctrl_pressed \in BOOLEAN /\ is_locked \in {0, 1}
  /\ at \in {"prompt", "call", "asleep", "behind", "woken", "got", "line"}
  /\ cmd \in {"none", "runs", "asleep"} /\ (at = "asleep" => cmd = "none")
  /\ rpos \in 0 .. BUFF_SIZE /\ ch \in Stored
  /\ i \in 0 .. BUFFER_SIZE - 1 /\ (at \in {"prompt", "line"} => i \in 0 .. 2)
  /\ overrun \in BOOLEAN /\ drained \in BOOLEAN

\* A reader sleeps past the buffer only if the handler is there too: the next
\* key then overruns, whichever of them comes first.
AsleepPastTheEnd ==
  Asleep /\ ~overrun /\ (rpos = BUFF_SIZE \/ buffer_pos = BUFF_SIZE) => buffer_pos = rpos

\* The inductive invariant.
KeyInv == KeyTypes /\ AsleepPastTheEnd /\ AsleepReaderSeesKey /\ OverrunNeedsLastCell

\* Positions in the buffer: the next cell, and how far ahead of a sleeping
\* reader the handler may be before it comes round to the reader's cell.
LEMMA NextCell ==
  ASSUME NEW b \in 0 .. BUFF_SIZE - 1
  PROVE  /\ Next_cell(b) \in 0 .. BUFF_SIZE - 1 /\ Next_cell(b) # b
         /\ Next_cell(b) % BUFF_SIZE = Next_cell(b)
<1>1. BUFF_SIZE \in Nat /\ BUFF_SIZE > 1
  BY TerminalAssumption
<1>2. Next_cell(b) \in 0 .. BUFF_SIZE - 1 /\ Next_cell(b) # b
  BY <1>1 DEF Next_cell
<1>. DEFINE x == Next_cell(b)
<1>x. x \in Int
  BY <1>1, <1>2
<1>. HIDE DEF x
<1>3. /\ x \div BUFF_SIZE \in Int /\ x % BUFF_SIZE \in 0 .. BUFF_SIZE - 1
      /\ x = BUFF_SIZE * (x \div BUFF_SIZE) + (x % BUFF_SIZE)
  BY <1>1, <1>x
<1>. DEFINE q == x \div BUFF_SIZE  r == x % BUFF_SIZE
<1>4. q \in Int /\ r \in 0 .. BUFF_SIZE - 1 /\ x = BUFF_SIZE * q + r /\ x \in 0 .. BUFF_SIZE - 1
  BY <1>2, <1>3 DEF x
<1>. HIDE DEF q, r
<1>5. q = 0
  <2>1. CASE q >= 1
    <3>1. BUFF_SIZE * q >= BUFF_SIZE
      BY <1>1, <1>4, <2>1
    <3>. QED  BY <1>1, <1>4, <3>1
  <2>2. CASE q =< -1
    <3>1. BUFF_SIZE * q =< -BUFF_SIZE
      BY <1>1, <1>4, <2>2
    <3>. QED  BY <1>1, <1>4, <3>1
  <2>. QED  BY <1>4, <2>1, <2>2
<1>6. BUFF_SIZE * q = 0
  BY <1>1, <1>5
<1>. QED  BY <1>1, <1>2, <1>4, <1>6 DEF x, r

\* A writer less than a burst ahead of the reader does not catch up with it.
LEMMA Ahead ==
  ASSUME NEW b \in 0 .. BUFF_SIZE - 1, NEW r \in 0 .. BUFF_SIZE - 1, (b - r) % BUFF_SIZE < MaxBurst
  PROVE  Next_cell(b) # r
<1>1. BUFF_SIZE \in Nat /\ BUFF_SIZE > 1 /\ MaxBurst \in Nat /\ MaxBurst < BUFF_SIZE
  BY TerminalAssumption
<1>. SUFFICES ASSUME Next_cell(b) = r PROVE FALSE
  OBVIOUS
<1>. DEFINE d == b - r  q == d \div BUFF_SIZE  m == d % BUFF_SIZE
<1>2. d = -1 \/ d = BUFF_SIZE - 1
  BY <1>1 DEF Next_cell
<1>3. d \in Int /\ m < MaxBurst
  BY <1>1
<1>. HIDE DEF d
<1>4. q \in Int /\ m \in 0 .. BUFF_SIZE - 1 /\ d = BUFF_SIZE * q + m
  BY <1>1, <1>3
<1>. HIDE DEF q, m
<1>5. CASE q >= 1
  <2>1. BUFF_SIZE * q >= BUFF_SIZE
    BY <1>1, <1>4, <1>5
  <2>. QED  BY <1>1, <1>2, <1>4, <2>1
<1>6. CASE q =< -2
  <2>1. BUFF_SIZE * q =< -2 * BUFF_SIZE
    BY <1>1, <1>4, <1>6
  <2>. QED  BY <1>1, <1>2, <1>4, <2>1
<1>7. CASE q = 0
  <2>1. BUFF_SIZE * q = 0
    BY <1>1, <1>7
  <2>. QED  BY <1>1, <1>2, <1>3, <1>4, <2>1
<1>8. CASE q = -1
  <2>1. BUFF_SIZE * q = -BUFF_SIZE
    BY <1>1, <1>8
  <2>. QED  BY <1>1, <1>2, <1>3, <1>4, <2>1
<1>. QED  BY <1>4, <1>5, <1>6, <1>7, <1>8

\* A step that leaves the key buffer alone and puts nobody to sleep.
LEMMA BufferRests ==
  ASSUME KeyInv, KeyTypes', Asleep' => Asleep, overrun' = overrun,
         buff' = buff, buffer_pos' = buffer_pos, is_locked' = is_locked,
         first' = first, drained' = drained, rpos' = rpos
  PROVE  KeyInv'
<1>1. AsleepPastTheEnd' /\ AsleepReaderSeesKey' /\ OverrunNeedsLastCell'
  BY DEF KeyInv, AsleepPastTheEnd, AsleepReaderSeesKey, OverrunNeedsLastCell
<1>. QED  BY <1>1 DEF KeyInv

\* A key stored by the interrupt handler, whatever shell and command are doing.
LEMMA StoreKeeps ==
  ASSUME KeyInv, NEW key \in Stored, NEW k, Arrives(k), Store(key)
  PROVE  KeyInv'
<1>1. BUFF_SIZE \in Nat /\ BUFF_SIZE > 1 /\ NUL \in Stored
  BY TerminalAssumption DEF Stored
<1>2. /\ buff' = Cells(key) /\ buffer_pos' = Next_cell(buffer_pos)
      /\ first' = (IF Asleep /\ buffer_pos = rpos THEN key ELSE first)
      /\ is_locked' = 0 /\ ctrl_pressed' = ctrl_pressed /\ drained' = drained
      /\ cmd' = cmd /\ rpos' = rpos /\ ch' = ch /\ i' = i
  BY DEF Store, Post
<1>a. at' = at \/ (at = "behind" /\ at' = "woken")
  BY DEF Store, Post
<1>s. Asleep' <=> Asleep
  BY <1>2, <1>a DEF Asleep
<1>3. KeyTypes /\ ~overrun
  BY DEF KeyInv, Arrives
<1>t. /\ at' \in {"prompt", "call", "asleep", "behind", "woken", "got", "line"}
      /\ cmd' \in {"none", "runs", "asleep"} /\ (at' = "asleep" => cmd' = "none")
      /\ i' \in 0 .. BUFFER_SIZE - 1 /\ (at' \in {"prompt", "line"} => i' \in 0 .. 2)
      /\ is_locked' \in {0, 1} /\ ctrl_pressed' \in BOOLEAN /\ drained' \in BOOLEAN
      /\ rpos' \in 0 .. BUFF_SIZE /\ ch' \in Stored
  BY <1>2, <1>3, <1>a DEF KeyTypes
<1>o. overrun' \in BOOLEAN /\ (overrun' <=> buffer_pos >= BUFF_SIZE)
  <2>1. (buffer_pos >= BUFF_SIZE) \in BOOLEAN
    BY <1>1, <1>3 DEF KeyTypes
  <2>2. overrun' = (buffer_pos >= BUFF_SIZE)
    BY DEF Store
  <2>. QED  BY <2>1, <2>2, Zenon
<1>4. CASE buffer_pos = BUFF_SIZE
  <2>0. buffer_pos >= BUFF_SIZE /\ ~(buffer_pos + 1 < BUFF_SIZE)
    BY <1>1, <1>4
  <2>1. buffer_pos' = 0 /\ overrun' /\ overrun' \in BOOLEAN /\ drained
    BY <1>2, <1>o, <2>0 DEF Next_cell, KeyInv, OverrunNeedsLastCell
  <2>2. buff' \in [0 .. BUFF_SIZE - 1 -> Stored]
    BY <1>1, <1>2, <1>3, <1>4 DEF Cells, KeyTypes
  <2>3. KeyTypes'
    BY <1>1, <1>t, <2>1, <2>2 DEF KeyTypes
  <2>. QED  BY <1>2, <2>1, <2>3 DEF KeyInv, AsleepPastTheEnd, AsleepReaderSeesKey, OverrunNeedsLastCell
<1>5. CASE buffer_pos # BUFF_SIZE
  <2>. DEFINE b == buffer_pos  c == Next_cell(b)
  <2>1. b \in 0 .. BUFF_SIZE - 1
    BY <1>1, <1>3, <1>5 DEF KeyTypes
  <2>2. c \in 0 .. BUFF_SIZE - 1 /\ c # b /\ c % BUFF_SIZE = c
    BY <2>1, NextCell
  <2>3. buff' = [[buff EXCEPT ![c] = NUL] EXCEPT ![b] = key]
    <3>1. b < BUFF_SIZE
      BY <1>1, <2>1
    <3>. HIDE DEF b, c
    <3>2. Cells(key) = [buff EXCEPT ![c % BUFF_SIZE] = NUL, ![b] = key]
      BY <3>1, Zenon DEF Cells, b, c
    <3>. QED  BY <1>2, <2>2, <3>2
  <2>. HIDE DEF c
  <2>4. /\ buff' \in [0 .. BUFF_SIZE - 1 -> Stored] /\ buff'[b] = key
        /\ \A x \in 0 .. BUFF_SIZE - 1 : x # b /\ x # c => buff'[x] = buff[x]
    BY <1>1, <1>3, <2>1, <2>2, <2>3 DEF KeyTypes
  <2>5. buffer_pos' = c /\ ~overrun' /\ overrun' \in BOOLEAN
    <3>1. ~(b >= BUFF_SIZE)
      BY <1>1, <2>1
    <3>. QED  BY <1>2, <1>o, <3>1 DEF c
  <2>6. KeyTypes'
    BY <1>1, <1>t, <2>2, <2>4, <2>5 DEF KeyTypes
  <2>7. OverrunNeedsLastCell'
    BY <1>1, <2>2, <2>5 DEF OverrunNeedsLastCell
  <2>8. CASE ~Asleep
    BY <1>s, <2>6, <2>7, <2>8 DEF KeyInv, AsleepPastTheEnd, AsleepReaderSeesKey
  <2>9. CASE Asleep
    <3>1. rpos \in 0 .. BUFF_SIZE - 1
      BY <1>1, <1>3, <1>5, <2>9 DEF KeyInv, KeyTypes, AsleepPastTheEnd
    <3>2. c # rpos
      <4>1. (b - rpos) % BUFF_SIZE < MaxBurst
        BY <2>9 DEF Arrives
      <4>. QED  BY <2>1, <3>1, <4>1, Ahead DEF c
    <3>3. AsleepPastTheEnd'
      BY <1>1, <1>2, <2>2, <2>5, <3>1 DEF AsleepPastTheEnd
    <3>4. buff'[rpos] = first'
      <4>1. CASE b = rpos
        BY <1>2, <2>4, <2>9, <4>1
      <4>2. CASE b # rpos
        BY <1>2, <1>3, <2>4, <3>1, <3>2, <4>2, <2>9 DEF KeyInv, AsleepReaderSeesKey
      <4>. QED  BY <4>1, <4>2
    <3>5. AsleepReaderSeesKey'
      BY <1>2, <3>4 DEF AsleepReaderSeesKey
    <3>. QED  BY <2>6, <2>7, <3>3, <3>5 DEF KeyInv
  <2>. QED  BY <2>8, <2>9
<1>. QED  BY <1>4, <1>5

\* The other interrupts: Ctrl, Ctrl-C, Ctrl-P and Ctrl-L.
LEMMA InterruptKeeps ==
  ASSUME KeyInv, Control \/ CtrlC \/ CtrlScreen
  PROVE  KeyInv'
<1>0. KeyTypes /\ BUFF_SIZE \in Nat /\ NUL \in Stored
  BY TerminalAssumption DEF KeyInv, Stored
<1>1. CASE Control
  <2>1. ctrl_pressed' \in BOOLEAN
    BY <1>1 DEF Control
  <2>2. KeyTypes'
    BY <1>0, <1>1, <2>1 DEF Control, tvars, KeyTypes
  <2>. QED  BY <1>1, <2>2, BufferRests DEF Control, tvars, Asleep
<1>2. CASE CtrlC
  <2>1. /\ buff' = [p \in DOMAIN buff |-> NUL] /\ first' = NUL /\ is_locked' = 0
        /\ buffer_pos' = buffer_pos /\ ctrl_pressed' = ctrl_pressed /\ overrun' = overrun
        /\ drained' = drained /\ cmd' = "none" /\ ch' = ch /\ i' = i
        /\ rpos' = (IF cmd = "asleep" THEN 0 ELSE rpos)
    BY <1>2 DEF CtrlC, Post
  <2>2. at' = at \/ (at = "behind" /\ at' = "woken")
    BY <1>2 DEF CtrlC, Post
  <2>3. buff' \in [0 .. BUFF_SIZE - 1 -> Stored] /\ \A x \in 0 .. BUFF_SIZE - 1 : buff'[x] = NUL
    BY <1>0, <2>1 DEF KeyTypes
  <2>4. KeyTypes'
    BY <1>0, <2>1, <2>2, <2>3 DEF KeyTypes
  <2>5. Asleep' => at = "asleep" /\ Asleep /\ rpos' = rpos
    BY <1>0, <2>1, <2>2 DEF Asleep, KeyTypes
  <2>6. AsleepReaderSeesKey'
    <3>. SUFFICES ASSUME Asleep', buffer_pos # rpos', ~overrun PROVE buff'[rpos'] = NUL
      BY <2>1 DEF AsleepReaderSeesKey
    <3>1. rpos' \in 0 .. BUFF_SIZE - 1
      BY <1>0, <2>5 DEF KeyTypes, KeyInv, AsleepPastTheEnd
    <3>. QED  BY <2>3, <3>1
  <2>7. AsleepPastTheEnd'
    BY <2>1, <2>5 DEF KeyInv, AsleepPastTheEnd
  <2>. QED  BY <2>1, <2>4, <2>6, <2>7 DEF KeyInv, OverrunNeedsLastCell
<1>3. CASE CtrlScreen
  <2>1. UNCHANGED <<kvars, at, cmd, rpos, ch, i>>
    BY <1>3 DEF CtrlScreen
  <2>2. KeyTypes'
    BY <1>0, <2>1 DEF kvars, KeyTypes
  <2>. QED  BY <2>1, <2>2, BufferRests DEF kvars, Asleep
<1>. QED  BY <1>1, <1>2, <1>3

\* sys_read once it has the lock: it takes the cell, overruns the buffer or
\* sleeps where the handler is.
LEMMA TakeKeeps ==
  ASSUME KeyInv, ~overrun, NEW pos \in 0 .. BUFF_SIZE, pos = BUFF_SIZE => buffer_pos = BUFF_SIZE,
         Take(pos), NEW from, NEW got
  PROVE  /\ buff' \in [0 .. BUFF_SIZE - 1 -> Stored] /\ buffer_pos' \in 0 .. BUFF_SIZE
         /\ ctrl_pressed' \in BOOLEAN /\ is_locked' = 1 /\ rpos' \in 0 .. BUFF_SIZE
         /\ i' = i /\ overrun' \in BOOLEAN /\ drained' \in BOOLEAN
         /\ OverrunNeedsLastCell'
         /\ overrun' => Taken(pos, from, got) = from
         /\ ~overrun' => \/ Taken(pos, from, got) = got /\ pos \in 0 .. BUFF_SIZE - 1
                         \/ Taken(pos, from, got) = "asleep" /\ rpos' = buffer_pos'
<1>1. BUFF_SIZE \in Nat /\ KeyTypes
  BY TerminalAssumption DEF KeyInv
<1>2. is_locked' = 1 /\ buff' = buff /\ ctrl_pressed' = ctrl_pressed /\ i' = i
  BY DEF Take
<1>3. CASE pos >= BUFF_SIZE
  <2>1. overrun' = TRUE /\ buffer_pos' = buffer_pos /\ rpos' = rpos /\ drained' = drained
    BY <1>3 DEF Take
  <2>2. drained /\ Taken(pos, from, got) = from
    BY <1>1, <1>3 DEF KeyInv, OverrunNeedsLastCell, Taken
  <2>. QED  BY <1>1, <1>2, <2>1, <2>2 DEF KeyTypes, OverrunNeedsLastCell
<1>4. CASE ~(pos >= BUFF_SIZE) /\ Printable(buff[pos])
  <2>1. /\ overrun' = overrun /\ rpos' = 0 /\ buffer_pos' = pos + 1
        /\ drained' = (drained \/ pos = BUFF_SIZE - 1)
    BY <1>4 DEF Take, Consumed
  <2>2. pos \in 0 .. BUFF_SIZE - 1 /\ drained' \in BOOLEAN /\ Taken(pos, from, got) = got
    BY <1>1, <1>4, <2>1 DEF Taken
  <2>3. OverrunNeedsLastCell'
    <3>1. drained' <=> (drained \/ pos = BUFF_SIZE - 1)
      BY <2>1
    <3>2. buffer_pos' >= BUFF_SIZE => pos = BUFF_SIZE - 1
      BY <1>1, <2>1, <2>2
    <3>. QED  BY <2>1, <3>1, <3>2 DEF OverrunNeedsLastCell
  <2>. QED  BY <1>1, <1>2, <2>1, <2>2, <2>3 DEF KeyTypes
<1>5. CASE ~(pos >= BUFF_SIZE) /\ ~Printable(buff[pos])
  <2>1. overrun' = overrun /\ rpos' = buffer_pos /\ buffer_pos' = buffer_pos /\ drained' = drained
    BY <1>5 DEF Take
  <2>2. Taken(pos, from, got) = "asleep"
    BY <1>5 DEF Taken
  <2>. QED  BY <1>1, <1>2, <2>1, <2>2 DEF KeyInv, KeyTypes, OverrunNeedsLastCell
<1>. QED  BY <1>3, <1>4, <1>5

\* The reader is the shell in the foreground, or the command.
LEMMA ShellTakesKeeps ==
  ASSUME KeyInv, ~overrun, at \in {"call", "asleep"}, cmd = "none", NEW pos \in 0 .. BUFF_SIZE,
         pos = BUFF_SIZE => buffer_pos = BUFF_SIZE, ShellTakes(pos)
  PROVE  KeyInv'
<1>. DEFINE a == Taken(pos, at, "got")
<1>1. /\ KeyTypes /\ Take(pos) /\ at' = a /\ cmd' = "none"
      /\ ch' = (IF a = "got" THEN buff[pos] ELSE ch)
  BY DEF ShellTakes, KeyInv
<1>2. /\ buff' \in [0 .. BUFF_SIZE - 1 -> Stored] /\ buffer_pos' \in 0 .. BUFF_SIZE
      /\ ctrl_pressed' \in BOOLEAN /\ is_locked' = 1 /\ rpos' \in 0 .. BUFF_SIZE
      /\ i' = i /\ overrun' \in BOOLEAN /\ drained' \in BOOLEAN /\ OverrunNeedsLastCell'
      /\ overrun' => a = at
      /\ ~overrun' => \/ a = "got" /\ pos \in 0 .. BUFF_SIZE - 1
                      \/ a = "asleep" /\ rpos' = buffer_pos'
  BY <1>1, TakeKeeps
<1>. HIDE DEF a
<1>3. a \in {"call", "asleep", "got"} /\ (a = "got" => pos \in 0 .. BUFF_SIZE - 1)
  BY <1>2
<1>4. KeyTypes'
  BY <1>1, <1>2, <1>3 DEF KeyTypes
<1>5. AsleepPastTheEnd' /\ AsleepReaderSeesKey'
  BY <1>1, <1>2 DEF AsleepPastTheEnd, AsleepReaderSeesKey, Asleep
<1>. QED  BY <1>2, <1>4, <1>5 DEF KeyInv

LEMMA CommandTakesKeeps ==
  ASSUME KeyInv, ~overrun, cmd \in {"runs", "asleep"}, NEW pos \in 0 .. BUFF_SIZE,
         pos = BUFF_SIZE => buffer_pos = BUFF_SIZE, CommandTakes(pos)
  PROVE  KeyInv'
<1>. DEFINE a == Taken(pos, cmd, "runs")
<1>1. KeyTypes /\ Take(pos) /\ cmd' = a /\ at' = at /\ ch' = ch
  BY DEF CommandTakes, KeyInv
<1>2. /\ buff' \in [0 .. BUFF_SIZE - 1 -> Stored] /\ buffer_pos' \in 0 .. BUFF_SIZE
      /\ ctrl_pressed' \in BOOLEAN /\ is_locked' = 1 /\ rpos' \in 0 .. BUFF_SIZE
      /\ i' = i /\ overrun' \in BOOLEAN /\ drained' \in BOOLEAN /\ OverrunNeedsLastCell'
      /\ overrun' => a = cmd
      /\ ~overrun' => a = "runs" \/ (a = "asleep" /\ rpos' = buffer_pos')
  BY <1>1, TakeKeeps
<1>. HIDE DEF a
<1>3. a \in {"runs", "asleep"} /\ at # "asleep"
  BY <1>1, <1>2 DEF KeyTypes
<1>4. KeyTypes'
  BY <1>1, <1>2, <1>3 DEF KeyTypes
<1>5. AsleepPastTheEnd' /\ AsleepReaderSeesKey'
  BY <1>1, <1>2, <1>3 DEF AsleepPastTheEnd, AsleepReaderSeesKey, Asleep
<1>. QED  BY <1>2, <1>4, <1>5 DEF KeyInv

\* sys_read of the foreground process, and the reader woken by a key.
LEMMA ReaderKeeps ==
  ASSUME KeyInv, sys_read \/ Wake_up \/ command_reads \/ command_wakes
  PROVE  KeyInv'
<1>1. BUFF_SIZE \in Nat /\ KeyTypes /\ buffer_pos \in 0 .. BUFF_SIZE /\ rpos \in 0 .. BUFF_SIZE
  BY TerminalAssumption DEF KeyInv, KeyTypes
<1>2. Asleep /\ ~overrun => (rpos = BUFF_SIZE => buffer_pos = BUFF_SIZE)
  BY <1>1 DEF KeyInv, AsleepPastTheEnd
<1>3. ASSUME FallAsleep, KeyTypes' PROVE KeyInv'
  BY <1>3 DEF FallAsleep, KeyInv, AsleepPastTheEnd, AsleepReaderSeesKey, OverrunNeedsLastCell
<1>4. CASE sys_read
  <2>1. ~overrun /\ at = "call" /\ cmd = "none"
    BY <1>4 DEF sys_read, InFront
  <2>2. CASE ShellTakes(buffer_pos)
    <3>. DEFINE p == buffer_pos
    <3>. QED  BY <1>1, <2>1, <2>2, ShellTakesKeeps
  <2>3. CASE FallAsleep /\ at' = "asleep" /\ UNCHANGED <<cmd, ch>>
    <3>1. KeyTypes'
      BY <1>1, <2>1, <2>3 DEF FallAsleep, KeyTypes
    <3>. QED  BY <1>3, <2>3, <3>1
  <2>. QED  BY <1>4, <2>2, <2>3 DEF sys_read
<1>5. CASE Wake_up
  <2>1. ~overrun /\ at = "asleep" /\ cmd = "none" /\ ShellTakes(rpos) /\ Asleep
    BY <1>1, <1>5 DEF Wake_up, KeyTypes, Asleep
  <2>. QED  BY <1>1, <1>2, <2>1, ShellTakesKeeps
<1>6. CASE command_reads
  <2>1. ~overrun /\ cmd = "runs"
    BY <1>6 DEF command_reads
  <2>2. CASE CommandTakes(buffer_pos)
    <3>. DEFINE p == buffer_pos
    <3>. QED  BY <1>1, <2>1, <2>2, CommandTakesKeeps
  <2>3. CASE FallAsleep /\ cmd' = "asleep" /\ UNCHANGED <<at, ch>>
    <3>1. KeyTypes'
      BY <1>1, <2>1, <2>3 DEF FallAsleep, KeyTypes
    <3>. QED  BY <1>3, <2>3, <3>1
  <2>. QED  BY <1>6, <2>2, <2>3 DEF command_reads
<1>7. CASE command_wakes
  <2>1. ~overrun /\ cmd = "asleep" /\ CommandTakes(rpos) /\ Asleep
    BY <1>7 DEF command_wakes, Asleep
  <2>. QED  BY <1>1, <1>2, <2>1, CommandTakesKeeps
<1>. QED  BY <1>4, <1>5, <1>6, <1>7

\* The shell with a character, a line, at its prompt or behind a command, and a
\* command that draws or ends.
LEMMA ShellKeeps ==
  ASSUME KeyInv, \/ Edit \/ Enter \/ line_read \/ put_line_start
                 \/ sys_read_behind \/ junk_read \/ command_draws \/ command_exits
  PROVE  KeyInv'
<1>1. KeyTypes /\ BUFFER_SIZE \in Nat /\ BUFFER_SIZE > 2 /\ NUL \in Stored
  BY TerminalAssumption DEF KeyInv, Stored
<1>2. UNCHANGED kvars /\ rpos' = rpos
  BY DEF Edit, Enter, line_read, put_line_start, sys_read_behind, junk_read, command_draws, command_exits, tvars
<1>3. KeyTypes' /\ (Asleep' => Asleep)
  <2>1. CASE Edit
    <3>1. i' \in 0 .. BUFFER_SIZE - 1
      BY <1>1, <2>1 DEF Edit, Accepted, KeyTypes
    <3>. QED  BY <1>1, <1>2, <2>1, <3>1 DEF Edit, kvars, KeyTypes, Asleep
  <2>2. CASE Enter
    BY <1>1, <1>2, <2>2 DEF Enter, kvars, KeyTypes, Asleep
  <2>4. CASE put_line_start
    BY <1>1, <1>2, <2>4 DEF put_line_start, kvars, KeyTypes, Asleep
  <2>5. CASE sys_read_behind \/ junk_read
    BY <1>1, <1>2, <2>5 DEF sys_read_behind, junk_read, kvars, KeyTypes, Asleep
  <2>6. CASE command_draws \/ command_exits
    BY <1>1, <1>2, <2>6 DEF command_draws, command_exits, kvars, tvars, KeyTypes, Asleep
  <2>3. CASE line_read
    BY <1>1, <1>2, <2>3 DEF line_read, kvars, KeyTypes, Asleep
  <2>. QED  BY <2>1, <2>2, <2>3, <2>4, <2>5, <2>6
<1>. QED  BY <1>2, <1>3, BufferRests DEF kvars

\* Every step of the keyboard, the shell and its command keeps the invariant.
LEMMA KeysStep ==
  ASSUME KeyInv, Next
  PROVE  KeyInv'
<1>1. ASSUME NEW key \in Keys, PlainKey(key) PROVE KeyInv'
  <2>. DEFINE s == IF key \in Letters THEN "A" ELSE key
  <2>1. s \in Stored /\ Arrives(key) /\ Store(s)
    BY <1>1 DEF PlainKey, Keys, Letters, Stored
  <2>. HIDE DEF s
  <2>. QED  BY <2>1, StoreKeeps
<1>2. CASE CtrlD
  <2>1. "A" \in Stored /\ Arrives("A") /\ Store("A")
    BY <1>2 DEF CtrlD, Stored
  <2>. QED  BY <2>1, StoreKeeps
<1>3. CASE Lost
  <2>1. UNCHANGED <<kvars, tvars>>
    BY <1>3 DEF Lost, vars
  <2>. QED  BY <2>1 DEF kvars, tvars, KeyInv, KeyTypes, AsleepPastTheEnd, AsleepReaderSeesKey,
                       OverrunNeedsLastCell, Asleep
<1>4. CASE Control \/ CtrlC \/ CtrlScreen
  BY <1>4, InterruptKeeps
<1>5. CASE sys_read \/ Wake_up \/ command_reads \/ command_wakes
  BY <1>5, ReaderKeeps
<1>6. CASE \/ Edit \/ Enter \/ line_read \/ put_line_start
           \/ sys_read_behind \/ junk_read \/ command_draws \/ command_exits
  BY <1>6, ShellKeeps
<1>. QED  BY <1>1, <1>2, <1>3, <1>4, <1>5, <1>6 DEF Next

\* The key buffer starts empty.
LEMMA KeysStart ==
  ASSUME Init
  PROVE  KeyInv
<1>1. BUFF_SIZE \in Nat /\ BUFF_SIZE > 1 /\ BUFFER_SIZE \in Nat /\ BUFFER_SIZE > 1 /\ NUL \in Stored
  BY TerminalAssumption DEF Stored
<1>2. KeyTypes
  <2>1. buff \in [0 .. BUFF_SIZE - 1 -> Stored] /\ 0 \in 0 .. BUFF_SIZE /\ 0 \in 0 .. BUFFER_SIZE - 1
    BY <1>1 DEF Init
  <2>2. ctrl_pressed \in BOOLEAN /\ overrun \in BOOLEAN /\ drained \in BOOLEAN
    BY DEF Init
  <2>. QED  BY <1>1, <2>1, <2>2 DEF Init, KeyTypes
<1>. QED  BY <1>1, <1>2 DEF Init, KeyInv, AsleepPastTheEnd, AsleepReaderSeesKey, OverrunNeedsLastCell, Asleep

\* What the keyboard, sys_read, the shell and its command keep.
THEOREM TerminalInvariant == Spec => []KeyInv
<1>1. Init => KeyInv
  BY KeysStart
<1>2. KeyInv /\ [Next]_vars => KeyInv'
  <2>1. KeyInv /\ UNCHANGED vars => KeyInv'
    BY DEF vars, kvars, tvars, KeyInv, KeyTypes, AsleepPastTheEnd, AsleepReaderSeesKey,
           OverrunNeedsLastCell, Asleep
  <2>. QED  BY <2>1, KeysStep
<1>. QED  BY <1>1, <1>2, PTL DEF Spec

\* A key that arrives while the foreground process sleeps in sys_read is not
\* missed, however many more arrive before it runs: keyboard_handler stores
\* before it posts.
THEOREM KeysAreSeen == Spec => []AsleepReaderSeesKey
<1>1. KeyInv => AsleepReaderSeesKey
  BY DEF KeyInv
<1>. QED  BY <1>1, TerminalInvariant, PTL

\* The key buffer is overrun only after its last cell was read.
THEOREM OverrunExplained == Spec => []OverrunNeedsLastCell
<1>1. KeyInv => OverrunNeedsLastCell
  BY DEF KeyInv
<1>. QED  BY <1>1, TerminalInvariant, PTL

\* A nonempty set of naturals has a smallest member.
LEMMA SmallestExists ==
  ASSUME NEW S, S \subseteq Nat, S # {}
  PROVE  \E x \in S : \A y \in S : x =< y
<1>. DEFINE R == OpToRel(<, Nat)
<1>1. \A y, x \in Nat : y < x => <<y, x>> \in R
  BY DEF OpToRel
<1>2. IsWellFoundedOn(R, Nat)
  BY NatLessThanWellFounded
<1>. HIDE DEF R
<1>3. \E x \in S : \A y \in S : ~(<<y, x>> \in R)
  BY <1>2, WFMin, Zenon
<1>4. PICK x \in S : \A y \in S : ~(<<y, x>> \in R)
  BY <1>3
<1>5. ASSUME NEW y \in S PROVE x =< y
  <2>1. x \in Nat /\ y \in Nat /\ ~(<<y, x>> \in R)
    BY <1>4, <1>5
  <2>2. ~(y < x)
    BY <1>1, <2>1
  <2>. QED  BY <2>1, <2>2
<1>. QED  BY <1>5

\* Subsets of 1 .. m by their largest member.
LEMMA LastOf ==
  ASSUME NEW m \in Nat, m > 0, NEW s \in SUBSET (1 .. m)
  PROVE  /\ m \notin s => s \in SUBSET (1 .. m - 1)
         /\ m \in s => s # {} /\ Max(s) = m /\ s \ {Max(s)} \in SUBSET (1 .. m - 1)
<1>1. m \notin s => s \in SUBSET (1 .. m - 1)
  OBVIOUS
<1>2. ASSUME m \in s PROVE Max(s) = m
  <2>1. \A y \in s : m >= y
    OBVIOUS
  <2>2. \E x \in s : \A y \in s : x >= y
    BY <1>2, <2>1
  <2>3. Max(s) \in s /\ \A y \in s : Max(s) >= y
    BY <2>2 DEF Max
  <2>. DEFINE x == Max(s)
  <2>4. x \in 1 .. m /\ x >= m
    BY <1>2, <2>3
  <2>. HIDE DEF x
  <2>5. x = m
    BY <2>4
  <2>. QED  BY <2>5 DEF x
<1>3. ASSUME m \in s PROVE s \ {m} \in SUBSET (1 .. m - 1)
  OBVIOUS
<1>4. ASSUME m \in s PROVE s # {} /\ Max(s) = m /\ s \ {Max(s)} \in SUBSET (1 .. m - 1)
  <2>1. s # {} /\ Max(s) = m
    BY <1>2, <1>4
  <2>2. s \ {m} \in SUBSET (1 .. m - 1)
    BY <1>3, <1>4
  <2>. QED  BY <2>1, <2>2
<1>. QED  BY <1>1, <1>4

\* A nonempty set of positions has a largest one.
LEMMA MaxOf ==
  ASSUME NEW n \in Nat, NEW s \in SUBSET (1 .. n), s # {}
  PROVE  Max(s) \in 1 .. n
<1>. DEFINE U == {k \in Nat : \A y \in s : k >= y}
<1>1. n \in U
  OBVIOUS
<1>2. PICK x \in U : \A k \in U : x =< k
  BY <1>1, SmallestExists
<1>3. x \in s
  <2>. SUFFICES ASSUME x \notin s PROVE FALSE
    OBVIOUS
  <2>1. \A y \in s : y \in Nat /\ y >= 1 /\ x >= y /\ y # x
    BY <1>2
  <2>0. PICK z \in s : TRUE
    OBVIOUS
  <2>x. x \in Nat
    BY <1>2
  <2>. HIDE DEF U
  <2>2. x >= 1
    BY <2>x, <2>0, <2>1
  <2>3. \A y \in s : x - 1 >= y
    BY <2>x, <2>1
  <2>4. x - 1 \in U
    BY <2>x, <2>2, <2>3 DEF U
  <2>. QED  BY <1>2, <2>x, <2>4
<1>4. \E y \in s : \A k \in s : y >= k
  BY <1>2, <1>3
<1>5. Max(s) \in s
  BY <1>4 DEF Max
<1>. QED  BY <1>5

\* The values of a fold: f maps a set of positions to the fold of w over them.
Folds(F, b, w, n, f) ==
  \A s \in SUBSET (1 .. n) : f[s] = IF s = {} THEN b ELSE F[<<f[s \ {Max(s)}], w[Max(s)]>>]

\* Folding a function F over a sequence is well defined.
LEMMA FoldExists ==
  ASSUME NEW S, NEW E, NEW F, \A a \in S, e \in E : F[<<a, e>>] \in S,
         NEW b \in S, NEW n \in Nat, NEW w, \A k \in 1 .. n : w[k] \in E
  PROVE  \E f \in [SUBSET (1 .. n) -> S] : Folds(F, b, w, n, f)
<1>. DEFINE Good(m) == \E f \in [SUBSET (1 .. m) -> S] : Folds(F, b, w, m, f)
            Bad == {m \in 0 .. n : ~Good(m)}
<1>1. Good(0)
  <2>. DEFINE f == [s \in SUBSET (1 .. 0) |-> b]
  <2>1. f \in [SUBSET (1 .. 0) -> S]
    OBVIOUS
  <2>2. \A s \in SUBSET (1 .. 0) : s = {} /\ f[s] = b
    OBVIOUS
  <2>3. Folds(F, b, w, 0, f)
    BY <2>2 DEF Folds
  <2>. QED  BY <2>1, <2>3
<1>2. ASSUME NEW m \in 1 .. n, Good(m - 1) PROVE Good(m)
  <2>1. PICK f \in [SUBSET (1 .. m - 1) -> S] : Folds(F, b, w, m - 1, f)
    BY <1>2
  <2>. DEFINE h == [s \in SUBSET (1 .. m) |-> IF m \in s THEN F[<<f[s \ {m}], w[m]>>] ELSE f[s]]
  <2>2. m \in Nat /\ m > 0 /\ w[m] \in E
    OBVIOUS
  <2>3. \A s \in SUBSET (1 .. m) : IF m \in s THEN h[s] = F[<<f[s \ {m}], w[m]>>] ELSE h[s] = f[s]
    OBVIOUS
  <2>4. h \in [SUBSET (1 .. m) -> S]
    <3>1. ASSUME NEW s \in SUBSET (1 .. m) PROVE (IF m \in s THEN F[<<f[s \ {m}], w[m]>>] ELSE f[s]) \in S
      <4>1. CASE m \in s
        <5>1. f[s \ {m}] \in S
          BY <2>1, <2>2, <4>1, LastOf
        <5>. QED  BY <2>2, <4>1, <5>1
      <4>2. CASE m \notin s
        BY <2>1, <2>2, <4>2, LastOf
      <4>. QED  BY <4>1, <4>2
    <3>. QED  BY <3>1
  <2>. HIDE DEF h
  <2>5. ASSUME NEW s \in SUBSET (1 .. m)
        PROVE  h[s] = IF s = {} THEN b ELSE F[<<h[s \ {Max(s)}], w[Max(s)]>>]
    <3>1. CASE m \in s
      <4>1. s # {} /\ Max(s) = m /\ s \ {m} \in SUBSET (1 .. m - 1) /\ s \ {m} \in SUBSET (1 .. m)
        BY <2>2, <3>1, LastOf
      <4>2. h[s \ {m}] = f[s \ {m}]
        BY <2>3, <4>1
      <4>. QED  BY <2>3, <3>1, <4>1, <4>2
    <3>2. CASE m \notin s
      <4>1. s \in SUBSET (1 .. m - 1) /\ m \notin s \ {Max(s)} /\ s \ {Max(s)} \in SUBSET (1 .. m)
        BY <2>2, <3>2, LastOf
      <4>2. h[s] = f[s] /\ h[s \ {Max(s)}] = f[s \ {Max(s)}]
        BY <2>3, <3>2, <4>1
      <4>3. f[s] = IF s = {} THEN b ELSE F[<<f[s \ {Max(s)}], w[Max(s)]>>]
        BY <2>1, <4>1 DEF Folds
      <4>. QED  BY <4>2, <4>3
    <3>. QED  BY <3>1, <3>2
  <2>6. Folds(F, b, w, m, h)
    BY <2>5 DEF Folds
  <2>. QED  BY <2>4, <2>6
<1>. HIDE DEF Good
<1>3. Bad = {}
  <2>. SUFFICES ASSUME Bad # {} PROVE FALSE
    OBVIOUS
  <2>0. Bad \subseteq Nat
    OBVIOUS
  <2>. HIDE DEF Bad
  <2>1. PICK m \in Bad : \A k \in Bad : m =< k
    BY <2>0, SmallestExists
  <2>2. m \in 1 .. n /\ m - 1 \in 0 .. n /\ m - 1 \notin Bad
    BY <1>1, <2>1 DEF Bad
  <2>3. Good(m - 1) /\ ~Good(m)
    BY <2>1, <2>2 DEF Bad
  <2>. QED  BY <1>2, <2>2, <2>3
<1>4. Good(n)
  BY <1>3
<1>. QED  BY <1>4 DEF Good

\* What holds of the start of a fold and is kept by each element holds of its value.
LEMMA FoldStays ==
  ASSUME NEW S, NEW n \in Nat, NEW f, f[{}] \in S,
         \A s \in SUBSET (1 .. n) : s # {} /\ f[s \ {Max(s)}] \in S => f[s] \in S
  PROVE  f[1 .. n] \in S
<1>. DEFINE Good(m) == \A s \in SUBSET (1 .. m) : f[s] \in S
            Bad == {m \in 0 .. n : ~Good(m)}
<1>1. Good(0)
  <2>1. \A s \in SUBSET (1 .. 0) : s = {}
    OBVIOUS
  <2>. QED  BY <2>1
<1>2. ASSUME NEW m \in 1 .. n, Good(m - 1) PROVE Good(m)
  <2>. SUFFICES ASSUME NEW s \in SUBSET (1 .. m) PROVE f[s] \in S
    OBVIOUS
  <2>1. m \in Nat /\ m > 0 /\ s \in SUBSET (1 .. n)
    OBVIOUS
  <2>2. CASE m \in s
    <3>1. s # {} /\ s \ {Max(s)} \in SUBSET (1 .. m - 1)
      BY <2>1, <2>2, LastOf
    <3>. QED  BY <1>2, <2>1, <3>1
  <2>3. CASE m \notin s
    BY <1>2, <2>1, <2>3, LastOf
  <2>. QED  BY <2>2, <2>3
<1>. HIDE DEF Good
<1>3. Bad = {}
  <2>. SUFFICES ASSUME Bad # {} PROVE FALSE
    OBVIOUS
  <2>0. Bad \subseteq Nat
    OBVIOUS
  <2>. HIDE DEF Bad
  <2>1. PICK m \in Bad : \A k \in Bad : m =< k
    BY <2>0, SmallestExists
  <2>2. m \in 1 .. n /\ m - 1 \in 0 .. n /\ m - 1 \notin Bad
    BY <1>1, <2>1 DEF Bad
  <2>3. Good(m - 1) /\ ~Good(m)
    BY <2>1, <2>2 DEF Bad
  <2>. QED  BY <1>2, <2>2, <2>3
<1>4. Good(n)
  BY <1>3
<1>. QED  BY <1>4 DEF Good

\* The characters of a word are drawn one after the other, S being what each
\* keeps of the cursor: f maps positions to the cursor after them.
Draws(b, w, f) ==
  /\ FoldLeft(character, b, w) = f[1 .. Len(w)] /\ f[{}] = b
  /\ \A s \in SUBSET (1 .. Len(w)) : s # {} => f[s] = character(f[s \ {Max(s)}], w[Max(s)])

\* There is such an f for every word.
LEMMA DrawSteps ==
  ASSUME NEW S, NEW E, \A a \in S, e \in E : character(a, e) \in S, NEW b \in S, NEW w \in Seq(E)
  PROVE  \E f : Draws(b, w, f)
<1>. DEFINE n == Len(w)
            D == 1 .. n
            F == [z \in S \X E |-> character(z[1], z[2])]
            Eq(f) == f = [s \in SUBSET D |-> IF s = {} THEN b ELSE character(f[s \ {Max(s)}], w[Max(s)])]
<1>1. n \in Nat /\ DOMAIN w = D /\ \A k \in D : w[k] \in E
  OBVIOUS
<1>2. FoldLeft(character, b, w) = (CHOOSE f : Eq(f))[D]
  <2>1. FoldLeft(character, b, w)
        = (CHOOSE f : f = [s \in SUBSET DOMAIN w |->
                             IF s = {} THEN b ELSE character(f[s \ {Max(s)}], w[Max(s)])])[DOMAIN w]
    BY Zenon DEF FoldLeft, MapThenFoldSet
  <2>. QED  BY <1>1, <2>1
<1>3. \E f : Eq(f)
  <2>1. \A a \in S, e \in E : F[<<a, e>>] = character(a, e)
    OBVIOUS
  <2>. HIDE DEF F, D
  <2>2. \A a \in S, e \in E : F[<<a, e>>] \in S
    BY <2>1
  <2>3. PICK f \in [SUBSET D -> S] : Folds(F, b, w, n, f)
    BY <1>1, <2>2, FoldExists DEF D
  <2>4. ASSUME NEW s \in SUBSET D
        PROVE  f[s] = IF s = {} THEN b ELSE character(f[s \ {Max(s)}], w[Max(s)])
    <3>1. CASE s = {}
      BY <2>3, <3>1 DEF Folds, D
    <3>2. CASE s # {}
      <4>1. f[s] = F[<<f[s \ {Max(s)}], w[Max(s)]>>]
        BY <2>3, <3>2 DEF Folds, D
      <4>2. Max(s) \in D
        BY <1>1, <3>2, MaxOf DEF D
      <4>3. f[s \ {Max(s)}] \in S /\ w[Max(s)] \in E
        BY <1>1, <2>3, <4>2
      <4>. QED  BY <2>1, <3>2, <4>1, <4>3
    <3>. QED  BY <3>1, <3>2
  <2>5. Eq(f)
    BY <2>3, <2>4
  <2>. QED  BY <2>5
<1>. DEFINE f == CHOOSE h : Eq(h)
<1>4. Eq(f)
  BY <1>3
<1>. HIDE DEF f
<1>5. /\ f[{}] = b
      /\ \A s \in SUBSET D : s # {} => f[s] = character(f[s \ {Max(s)}], w[Max(s)])
  BY <1>4
<1>6. Draws(b, w, f)
  BY <1>1, <1>2, <1>5 DEF Draws, f
<1>. QED  BY <1>6

\* A word drawn by the driver.
LEMMA DrawFold ==
  ASSUME NEW S, NEW E, \A a \in S, e \in E : character(a, e) \in S, NEW b \in S, NEW w \in Seq(E)
  PROVE  FoldLeft(character, b, w) \in S
<1>1. PICK f : Draws(b, w, f)
  BY DrawSteps
<1>. DEFINE n == Len(w)
<1>2. n \in Nat /\ \A k \in 1 .. n : w[k] \in E
  OBVIOUS
<1>3. \A s \in SUBSET (1 .. n) : s # {} => w[Max(s)] \in E
  BY <1>2, MaxOf
<1>4. f[{}] \in S /\ \A s \in SUBSET (1 .. n) : s # {} /\ f[s \ {Max(s)}] \in S => f[s] \in S
  BY <1>1, <1>3 DEF Draws
<1>5. f[1 .. n] \in S
  <2>. HIDE DEF n
  <2>. QED  BY <1>2, <1>4, FoldStays
<1>. QED  BY <1>1, <1>5 DEF Draws

\* The cursor after k characters, one more than after k - 1.
LEMMA DrawnUpTo ==
  ASSUME NEW b, NEW w, NEW f, Draws(b, w, f), NEW k \in 1 .. Len(w), Len(w) \in Nat
  PROVE  f[1 .. k] = character(f[1 .. k - 1], w[k])
<1>. DEFINE s == 1 .. k
<1>1. k \in Nat /\ k > 0 /\ s \in SUBSET (1 .. k) /\ k \in s /\ s \in SUBSET (1 .. Len(w))
  OBVIOUS
<1>2. s # {} /\ Max(s) = k
  BY <1>1, LastOf
<1>3. s \ {k} = 1 .. k - 1
  OBVIOUS
<1>4. f[s] = character(f[s \ {k}], w[k])
  <2>. HIDE DEF s
  <2>. QED  BY <1>1, <1>2 DEF Draws
<1>. QED  BY <1>3, <1>4

Directions == {"UP", "DOWN", "STOP"}

\* read_key leaves one of the three directions, whatever the events.
LEMMA ReadKey ==
  ASSUME NEW b \in Directions, NEW up, NEW down, NEW E, NEW w \in Seq(E)
  PROVE  read_key(b, up, down, w) \in Directions
<1>0. \A a \in Directions, e \in E : Steer(a, up, down, e) \in Directions
  BY DEF Steer, Directions
<1>. DEFINE n == Len(w)
            D == 1 .. n
            F == [z \in Directions \X E |-> Steer(z[1], up, down, z[2])]
            Eq(f) == f = [s \in SUBSET D |-> IF s = {} THEN b ELSE Steer(f[s \ {Max(s)}], up, down, w[Max(s)])]
<1>1. n \in Nat /\ DOMAIN w = D /\ \A k \in D : w[k] \in E
  OBVIOUS
<1>2. read_key(b, up, down, w) = (CHOOSE f : Eq(f))[D]
  <2>1. read_key(b, up, down, w)
        = (CHOOSE f : f = [s \in SUBSET DOMAIN w |->
                             IF s = {} THEN b ELSE Steer(f[s \ {Max(s)}], up, down, w[Max(s)])])[DOMAIN w]
    BY Zenon DEF read_key, FoldLeft, MapThenFoldSet
  <2>. QED  BY <1>1, <2>1
<1>3. \E f : Eq(f)
  <2>1. \A a \in Directions, e \in E : F[<<a, e>>] = Steer(a, up, down, e)
    OBVIOUS
  <2>. HIDE DEF F, D
  <2>2. \A a \in Directions, e \in E : F[<<a, e>>] \in Directions
    BY <1>0, <2>1
  <2>3. PICK f \in [SUBSET D -> Directions] : Folds(F, b, w, n, f)
    BY <1>1, <2>2, FoldExists DEF D
  <2>4. ASSUME NEW s \in SUBSET D
        PROVE  f[s] = IF s = {} THEN b ELSE Steer(f[s \ {Max(s)}], up, down, w[Max(s)])
    <3>1. CASE s = {}
      BY <2>3, <3>1 DEF Folds, D
    <3>2. CASE s # {}
      <4>1. f[s] = F[<<f[s \ {Max(s)}], w[Max(s)]>>]
        BY <2>3, <3>2 DEF Folds, D
      <4>2. Max(s) \in D
        BY <1>1, <3>2, MaxOf DEF D
      <4>3. f[s \ {Max(s)}] \in Directions /\ w[Max(s)] \in E
        BY <1>1, <2>3, <4>2
      <4>. QED  BY <2>1, <3>2, <4>1, <4>3
    <3>. QED  BY <3>1, <3>2
  <2>5. Eq(f)
    BY <2>3, <2>4
  <2>. QED  BY <2>5
<1>. DEFINE f == CHOOSE h : Eq(h)
<1>4. Eq(f)
  BY <1>3
<1>. HIDE DEF f
<1>5. /\ f[{}] = b
      /\ \A s \in SUBSET D : s # {} => f[s] = Steer(f[s \ {Max(s)}], up, down, w[Max(s)])
  BY <1>4
<1>6. \A s \in SUBSET D : s # {} => w[Max(s)] \in E
  BY <1>1, MaxOf
<1>7. f[D] \in Directions
  <2>1. f[{}] \in Directions /\ \A s \in SUBSET D : s # {} /\ f[s \ {Max(s)}] \in Directions => f[s] \in Directions
    BY <1>0, <1>5, <1>6
  <2>2. n \in Nat
    BY <1>1
  <2>. HIDE DEF n
  <2>. QED  BY <2>1, <2>2, FoldStays
<1>. QED  BY <1>2, <1>7 DEF f

\* What each digit keeps of a number holds of what get_number returns.
LEMMA GetNumberIn ==
  ASSUME NEW S, 0 \in S, \A a \in S, e \in S : Typed(a, e) \in S, NEW w \in Seq(S)
  PROVE  get_number(w) \in S
<1>. DEFINE n == Len(w)
            D == 1 .. n
            F == [z \in S \X S |-> Typed(z[1], z[2])]
            Eq(f) == f = [s \in SUBSET D |-> IF s = {} THEN 0 ELSE Typed(f[s \ {Max(s)}], w[Max(s)])]
<1>1. n \in Nat /\ DOMAIN w = D /\ \A k \in D : w[k] \in S
  OBVIOUS
<1>2. get_number(w) = (CHOOSE f : Eq(f))[D]
  <2>1. get_number(w)
        = (CHOOSE f : f = [s \in SUBSET DOMAIN w |->
                             IF s = {} THEN 0 ELSE Typed(f[s \ {Max(s)}], w[Max(s)])])[DOMAIN w]
    BY Zenon DEF get_number, FoldLeft, MapThenFoldSet
  <2>. QED  BY <1>1, <2>1
<1>3. \E f : Eq(f)
  <2>1. \A a \in S, e \in S : F[<<a, e>>] = Typed(a, e)
    OBVIOUS
  <2>. HIDE DEF F, D
  <2>2. \A a \in S, e \in S : F[<<a, e>>] \in S
    BY <2>1
  <2>3. PICK f \in [SUBSET D -> S] : Folds(F, 0, w, n, f)
    BY <1>1, <2>2, FoldExists DEF D
  <2>4. ASSUME NEW s \in SUBSET D
        PROVE  f[s] = IF s = {} THEN 0 ELSE Typed(f[s \ {Max(s)}], w[Max(s)])
    <3>1. CASE s = {}
      BY <2>3, <3>1 DEF Folds, D
    <3>2. CASE s # {}
      <4>1. f[s] = F[<<f[s \ {Max(s)}], w[Max(s)]>>]
        BY <2>3, <3>2 DEF Folds, D
      <4>2. Max(s) \in D
        BY <1>1, <3>2, MaxOf DEF D
      <4>3. f[s \ {Max(s)}] \in S /\ w[Max(s)] \in S
        BY <1>1, <2>3, <4>2
      <4>. QED  BY <2>1, <3>2, <4>1, <4>3
    <3>. QED  BY <3>1, <3>2
  <2>5. Eq(f)
    BY <2>3, <2>4
  <2>. QED  BY <2>5
<1>. DEFINE f == CHOOSE h : Eq(h)
<1>4. Eq(f)
  BY <1>3
<1>. HIDE DEF f
<1>5. /\ f[{}] = 0
      /\ \A s \in SUBSET D : s # {} => f[s] = Typed(f[s \ {Max(s)}], w[Max(s)])
  BY <1>4
<1>6. \A s \in SUBSET D : s # {} => w[Max(s)] \in S
  BY <1>1, MaxOf
<1>7. f[D] \in S
  <2>1. f[{}] \in S /\ \A s \in SUBSET D : s # {} /\ f[s \ {Max(s)}] \in S => f[s] \in S
    BY <1>5, <1>6
  <2>2. n \in Nat
    BY <1>1
  <2>. HIDE DEF n
  <2>. QED  BY <2>1, <2>2, FoldStays
<1>. QED  BY <1>2, <1>7 DEF f

\* get_number returns an integer, whatever is typed.
LEMMA GetNumber ==
  ASSUME NEW w \in Seq(Int)
  PROVE  get_number(w) \in Int
<1>1. \A a \in Int, e \in Int : Typed(a, e) \in Int
  BY DEF Typed, BKSP
<1>2. 0 \in Int
  OBVIOUS
<1>. QED  BY <1>1, <1>2, GetNumberIn, Zenon

-----------------------------------------------------------------------------
(* The cursor. *)

Mult(w) == {c * w : c \in Nat}

\* Zero is a multiple of w, and so are the neighbours of a multiple.
LEMMA Multiples ==
  ASSUME NEW w \in Nat \ {0}, NEW a \in Mult(w)
  PROVE  /\ a \in Nat /\ 0 \in Mult(w) /\ a + w \in Mult(w)
         /\ a > 0 => a >= w /\ a - w \in Mult(w)
<1>1. PICK c \in Nat : a = c * w
  BY DEF Mult
<1>2. a \in Nat
  BY <1>1
<1>3. 0 \in Mult(w)
  <2>1. 0 = 0 * w
    OBVIOUS
  <2>. QED  BY <2>1 DEF Mult
<1>4. a + w \in Mult(w)
  <2>1. a + w = (c + 1) * w /\ c + 1 \in Nat
    BY <1>1
  <2>. QED  BY <2>1 DEF Mult
<1>5. ASSUME a > 0 PROVE a >= w /\ a - w \in Mult(w)
  <2>1. c > 0
    BY <1>1, <1>5
  <2>2. a - w = (c - 1) * w /\ c - 1 \in Nat
    BY <1>1, <2>1
  <2>3. (c - 1) * w \in Nat
    BY <2>2
  <2>4. a >= w
    BY <1>2, <2>2, <2>3
  <2>. QED  BY <2>2, <2>4 DEF Mult
<1>. QED  BY <1>2, <1>3, <1>4, <1>5

\* Of two multiples of w the larger is larger by at least w.
LEMMA MultiplesApart ==
  ASSUME NEW w \in Nat \ {0}, NEW a \in Mult(w), NEW b \in Mult(w), a < b
  PROVE  a + w =< b
<1>1. PICK c \in Nat : a = c * w
  BY DEF Mult
<1>2. PICK d \in Nat : b = d * w
  BY DEF Mult
<1>3. c < d
  <2>. SUFFICES ASSUME c >= d PROVE FALSE
    BY <1>1, <1>2
  <2>1. c - d \in Nat /\ a - b = (c - d) * w
    BY <1>1, <1>2
  <2>2. (c - d) * w \in Nat
    BY <2>1
  <2>. QED  BY <1>1, <1>2, <2>1, <2>2
<1>4. d - c - 1 \in Nat /\ b - a - w = (d - c - 1) * w
  BY <1>1, <1>2, <1>3
<1>5. (d - c - 1) * w \in Nat
  BY <1>4
<1>6. a \in Nat /\ b \in Nat
  BY <1>1, <1>2
<1>. QED  BY <1>4, <1>5, <1>6

\* A multiple of w plus k times w is a multiple of w.
LEMMA MultiplesAdd ==
  ASSUME NEW w \in Nat \ {0}, NEW a \in Mult(w), NEW k \in Nat
  PROVE  a + k * w \in Mult(w)
<1>1. PICK c \in Nat : a = c * w
  BY DEF Mult
<1>2. c + k \in Nat /\ a + k * w = (c + k) * w
  BY <1>1
<1>. QED  BY <1>2 DEF Mult

\* Counting modulo a multiple of w stays on the multiples of w.
LEMMA MultiplesMod ==
  ASSUME NEW w \in Nat \ {0}, NEW a \in Mult(w), NEW b \in Mult(w), b > 0
  PROVE  a % b \in Mult(w)
<1>1. PICK c \in Nat : a = c * w
  BY DEF Mult
<1>2. PICK d \in Nat : b = d * w
  BY DEF Mult
<1>3. a \in Nat /\ b \in Nat \ {0}
  BY <1>1, <1>2
<1>. DEFINE q == a \div b
            m == a % b
<1>4. q \in Int /\ m \in 0 .. b - 1 /\ a = b * q + m
  BY <1>3
<1>. HIDE DEF q, m
<1>5. m = (c - d * q) * w
  <2>1. m = c * w - (d * w) * q
    BY <1>1, <1>2, <1>4
  <2>2. (d * w) * q = (d * q) * w
    BY <1>4
  <2>3. d * q \in Int
    BY <1>4
  <2>. QED  BY <1>1, <2>1, <2>2, <2>3
<1>. DEFINE k == c - d * q
<1>6. k \in Int /\ m = k * w /\ m >= 0
  BY <1>4, <1>5
<1>. HIDE DEF k
<1>7. k >= 0
  <2>. SUFFICES ASSUME k < 0 PROVE FALSE
    BY <1>6
  <2>1. -k - 1 \in Nat /\ (-k - 1) * w = -(k * w) - w
    BY <1>6
  <2>2. (-k - 1) * w \in Nat
    BY <2>1
  <2>. QED  BY <1>6, <2>1, <2>2
<1>8. m \in Mult(w)
  BY <1>6, <1>7 DEF Mult
<1>. QED  BY <1>8 DEF m

\* A number without remainder is a multiple.
LEMMA NoRemainder ==
  ASSUME NEW w \in Nat \ {0}, NEW a \in Nat, a % w = 0
  PROVE  a \in Mult(w)
<1>. DEFINE q == a \div w
<1>1. q \in Int /\ a = w * q
  OBVIOUS
<1>2. q >= 0
  OBVIOUS
<1>. HIDE DEF q
<1>3. a = q * w
  BY <1>1
<1>. QED  BY <1>1, <1>2, <1>3 DEF Mult

\* What holds of the cursor at font size z: it lies on the grid of the font, in
\* a row of the screen.
Cursor == [x : Nat, y : Nat, size : Nat \ {0}, up : Nat]
OnGrid(s, w, h) == s.x \in Mult(w) /\ s.y \in Mult(h) /\ s.y + h =< SCREEN_HEIGHT
Page(z) == {s \in Cursor : s.size = z /\ OnGrid(s, z * GlyphW, z * GlyphH)}

\* Screen and word are multiples of the glyphs of every font.
LEMMA FontFits ==
  ASSUME NEW z \in FontSizes
  PROVE  /\ z \in Nat \ {0} /\ z * GlyphW \in Nat \ {0} /\ z * GlyphH \in Nat \ {0}
         /\ SCREEN_WIDTH \in Mult(z * GlyphW) /\ SCREEN_HEIGHT \in Mult(z * GlyphH)
         /\ Word \in Mult(z * GlyphW)
<1>1. z \in Nat \ {0} /\ GlyphW \in Nat \ {0} /\ GlyphH \in Nat \ {0}
  <2>1. z \in Nat \ {0}
    BY FontsFit, Zenon
  <2>2. GlyphW \in Nat \ {0} /\ GlyphH \in Nat \ {0}
    BY ScreenAssumption, Zenon
  <2>. QED  BY <2>1, <2>2
<1>. DEFINE w == z * GlyphW
            h == z * GlyphH
<1>2. w \in Nat \ {0} /\ h \in Nat \ {0}
  BY <1>1
<1>3. SCREEN_WIDTH % w = 0 /\ SCREEN_HEIGHT % h = 0 /\ Word % w = 0
  BY FontsFit
<1>. HIDE DEF w, h
<1>4. SCREEN_WIDTH \in Mult(w) /\ SCREEN_HEIGHT \in Mult(h) /\ Word \in Mult(w)
  BY <1>2, <1>3, NoRemainder, ScreenAssumption
<1>. QED  BY <1>1, <1>2, <1>4 DEF w, h

\* A small number is its own remainder.
LEMMA SmallMod ==
  ASSUME NEW a \in Nat, NEW b \in Nat, a < b
  PROVE  a % b = a
  OBVIOUS

\* The wrap and the scroll before a glyph.
LEMMA LineUp ==
  ASSUME NEW z \in FontSizes, NEW s \in Page(z)
  PROVE  LET t == check_line_up(s)
         IN  t \in Page(z) /\ t.x + z * GlyphW =< SCREEN_WIDTH
<1>. DEFINE w == z * GlyphW
            h == z * GlyphH
<1>1. /\ z \in Nat \ {0} /\ w \in Nat \ {0} /\ h \in Nat \ {0}
      /\ SCREEN_WIDTH \in Mult(w) /\ SCREEN_HEIGHT \in Mult(h)
  BY FontFits
<1>2. s \in Cursor /\ s.size = z /\ OnGrid(s, w, h) /\ Height(s) = h
  BY DEF Page, Height
<1>3. SCREEN_WIDTH \in Nat \ {0} /\ SCREEN_HEIGHT \in Nat \ {0} /\ Word \in Nat /\ Word > SCREEN_HEIGHT
  BY ScreenAssumption
<1>. HIDE DEF w, h
<1>. DEFINE r == IF s.x >= SCREEN_WIDTH THEN [s EXCEPT !.x = 0, !.y = s.y + h] ELSE s
            e == [r EXCEPT !.x = 0]
            t == check_line_up(s)
<1>4. /\ r \in Cursor /\ r.size = z /\ r.x \in Mult(w) /\ r.x + w =< SCREEN_WIDTH
      /\ r.y = s.y \/ (r.y = s.y + h /\ r.x = 0)
  <2>1. CASE s.x >= SCREEN_WIDTH
    <3>. DEFINE e1 == [s EXCEPT !.x = 0]
                e2 == [e1 EXCEPT !.y = s.y + h]
    <3>1. e1 \in Cursor /\ e1.x = 0 /\ e1.size = s.size
      BY <1>2 DEF Cursor
    <3>. HIDE DEF e1
    <3>2. s.y + h \in Nat
      BY <1>1, <1>2 DEF Cursor
    <3>3. e2 \in Cursor /\ e2.x = 0 /\ e2.y = s.y + h /\ e2.size = s.size
      BY <3>1, <3>2 DEF Cursor
    <3>4. r = e2
      BY <2>1 DEF e1
    <3>. HIDE DEF e2, r
    <3>5. 0 \in Mult(w) /\ w =< SCREEN_WIDTH
      BY <1>1, <1>3, Multiples
    <3>. QED  BY <1>1, <1>2, <3>3, <3>4, <3>5
  <2>2. CASE ~(s.x >= SCREEN_WIDTH)
    <3>1. r = s
      BY <2>2
    <3>2. s.x < SCREEN_WIDTH
      BY <1>2, <1>3, <2>2 DEF Cursor
    <3>. HIDE DEF r
    <3>. QED  BY <1>1, <1>2, <3>1, <3>2, MultiplesApart DEF OnGrid
  <2>. QED  BY <2>1, <2>2
<1>5. t = IF r.y >= SCREEN_HEIGHT THEN move_one_line_up(e) ELSE r
  BY <1>2 DEF check_line_up
<1>. HIDE DEF r, t
<1>6. r.y \in Mult(h) /\ r.y \in Nat
  BY <1>1, <1>2, <1>4, Multiples DEF OnGrid
<1>7. ASSUME r.y >= SCREEN_HEIGHT PROVE t \in Page(z) /\ t.x + w =< SCREEN_WIDTH
  <2>1. e \in Cursor /\ e.x = 0 /\ e.y = r.y /\ e.size = z /\ e.up = r.up
    BY <1>4 DEF Cursor
  <2>. HIDE DEF e
  <2>2. r.y = s.y + h /\ s.y \in Nat /\ s.y + h =< SCREEN_HEIGHT
    BY <1>1, <1>2, <1>3, <1>4, <1>7 DEF OnGrid, Cursor
  <2>3. Height(e) = h
    BY <2>1 DEF Height, h
  <2>4. (e.y - h) % Word = s.y
    <3>1. e.y - h = s.y /\ s.y < Word
      BY <1>1, <1>3, <2>1, <2>2
    <3>. QED  BY <1>3, <2>2, <3>1, SmallMod
  <2>. DEFINE u1 == [e EXCEPT !.y = s.y]
              u2 == [u1 EXCEPT !.up = e.up + 1]
  <2>5. t = u2
    BY <1>5, <1>7, <2>3, <2>4 DEF move_one_line_up
  <2>6. u1 \in Cursor /\ u1.x = 0 /\ u1.y = s.y /\ u1.size = z
    BY <2>1, <2>2 DEF Cursor
  <2>. HIDE DEF u1
  <2>7. e.up + 1 \in Nat
    BY <2>1 DEF Cursor
  <2>8. u2 \in Cursor /\ u2.x = 0 /\ u2.y = s.y /\ u2.size = z
    BY <2>6, <2>7 DEF Cursor
  <2>. HIDE DEF u2
  <2>9. 0 \in Mult(w) /\ w =< SCREEN_WIDTH
    BY <1>1, <1>3, Multiples
  <2>10. OnGrid(t, w, h) /\ t.x + w =< SCREEN_WIDTH
    BY <1>1, <1>2, <2>2, <2>5, <2>8, <2>9 DEF OnGrid
  <2>. QED  BY <2>5, <2>8, <2>10 DEF Page, w, h
<1>8. ASSUME ~(r.y >= SCREEN_HEIGHT) PROVE t \in Page(z) /\ t.x + w =< SCREEN_WIDTH
  <2>1. r.y < SCREEN_HEIGHT
    BY <1>3, <1>6, <1>8
  <2>2. OnGrid(r, w, h)
    BY <1>1, <1>4, <1>6, <2>1, MultiplesApart DEF OnGrid
  <2>3. t = r
    BY <1>5, <1>8
  <2>. QED  BY <1>4, <2>2, <2>3 DEF Page, w, h
<1>. QED  BY <1>7, <1>8 DEF t, w

\* Assignments to the cursor.
LEMMA SetX ==
  ASSUME NEW s \in Cursor, NEW v \in Nat
  PROVE  LET r == [s EXCEPT !.x = v] IN r \in Cursor /\ r.x = v /\ r.y = s.y /\ r.size = s.size /\ r.up = s.up
  BY DEF Cursor

\* The row of the cursor is set.
LEMMA SetY ==
  ASSUME NEW s \in Cursor, NEW v \in Nat
  PROVE  LET r == [s EXCEPT !.y = v] IN r \in Cursor /\ r.x = s.x /\ r.y = v /\ r.size = s.size /\ r.up = s.up
  BY DEF Cursor

\* The number of scrolls is set.
LEMMA SetUp ==
  ASSUME NEW s \in Cursor, NEW v \in Nat
  PROVE  LET r == [s EXCEPT !.up = v] IN r \in Cursor /\ r.x = s.x /\ r.y = s.y /\ r.size = s.size /\ r.up = v
  BY DEF Cursor

\* The cursor moves along its row.
LEMMA AlongRow ==
  ASSUME NEW z \in FontSizes, NEW s \in Page(z), NEW v \in Mult(z * GlyphW)
  PROVE  [s EXCEPT !.x = v] \in Page(z)
<1>. DEFINE r == [s EXCEPT !.x = v]
<1>0. z * GlyphW \in Nat \ {0}
  BY FontFits
<1>. DEFINE w == z * GlyphW
            h == z * GlyphH
<1>. HIDE DEF w, h
<1>1. v \in Nat
  BY <1>0, Multiples DEF w
<1>2. s \in Cursor /\ s.size = z /\ OnGrid(s, w, h)
  BY DEF Page, w, h
<1>3. r \in Cursor /\ r.x = v /\ r.y = s.y /\ r.size = s.size
  BY <1>1, <1>2, SetX
<1>. HIDE DEF r
<1>4. OnGrid(r, w, h)
  BY <1>2, <1>3 DEF OnGrid, w
<1>5. r \in Page(z)
  BY <1>2, <1>3, <1>4 DEF Page, w, h
<1>. QED  BY <1>5 DEF r

\* backspace and the unsigned subtraction of the width.
LEMMA BackspaceStays ==
  ASSUME NEW z \in FontSizes, NEW s \in Page(z)
  PROVE  backspace(s) \in Page(z)
<1>. DEFINE w == z * GlyphW
            h == z * GlyphH
<1>1. /\ w \in Nat \ {0} /\ h \in Nat \ {0} /\ Word \in Mult(w) /\ SCREEN_WIDTH \in Mult(w)
  BY FontFits
<1>2. s \in Cursor /\ s.size = z /\ OnGrid(s, w, h) /\ Height(s) = h /\ Width(s) = w
  BY DEF Page, Height, Width
<1>3. SCREEN_WIDTH \in Nat \ {0} /\ SCREEN_HEIGHT \in Nat \ {0} /\ Word \in Nat /\ Word > SCREEN_HEIGHT
  BY ScreenAssumption
<1>. HIDE DEF w, h
<1>4. CASE s.x > 0
  <2>. DEFINE a == s.x - w
              v == a % Word
  <2>1. a \in Mult(w)
    BY <1>1, <1>2, <1>4, Multiples DEF OnGrid
  <2>2. v \in Mult(w)
    <3>1. Word > 0
      BY <1>3
    <3>. HIDE DEF a
    <3>. QED  BY <1>1, <2>1, <3>1, MultiplesMod
  <2>3. backspace(s) = [s EXCEPT !.x = v]
    BY <1>2, <1>4 DEF backspace
  <2>. HIDE DEF v
  <2>. QED  BY <2>2, <2>3, AlongRow DEF w
<1>5. CASE ~(s.x > 0) /\ s.y > 0
  <2>1. s.y \in Nat /\ s.y >= h /\ s.y - h \in Mult(h) /\ s.y + h =< SCREEN_HEIGHT
    BY <1>1, <1>2, <1>5, Multiples DEF OnGrid
  <2>2. s.y - h \in Nat /\ s.y - h < Word /\ s.y - h + h =< SCREEN_HEIGHT
    BY <1>1, <1>3, <2>1
  <2>3. (s.y - h) % Word = s.y - h
    BY <1>3, <2>2, SmallMod
  <2>. DEFINE v == s.y - h
              u == SCREEN_WIDTH - w
              r == [s EXCEPT !.y = v]
              t == [r EXCEPT !.x = u]
  <2>4. backspace(s) = t
    BY <1>2, <1>5, <2>3 DEF backspace
  <2>5. u \in Mult(w)
    BY <1>1, <1>3, Multiples
  <2>. HIDE DEF v, u
  <2>6. r \in Cursor /\ r.size = z /\ r.x = s.x /\ r.y = v
    BY <1>2, <2>2, SetY DEF v
  <2>. HIDE DEF r
  <2>7. OnGrid(r, w, h)
    BY <1>2, <2>1, <2>2, <2>6 DEF OnGrid, v
  <2>8. r \in Page(z)
    BY <2>6, <2>7 DEF Page, w, h
  <2>9. t \in Page(z)
    BY <2>5, <2>8, AlongRow DEF w
  <2>. QED  BY <2>4, <2>9
<1>6. CASE ~(s.x > 0) /\ ~(s.y > 0)
  <2>1. backspace(s) = s
    BY <1>6 DEF backspace
  <2>. QED  BY <2>1
<1>. QED  BY <1>4, <1>5, <1>6

\* newline, from the grid to the grid.
LEMMA NewlineStays ==
  ASSUME NEW z \in FontSizes, NEW s \in Page(z)
  PROVE  newline(s) \in Page(z)
<1>. DEFINE w == z * GlyphW
            h == z * GlyphH
<1>1. w \in Nat \ {0} /\ h \in Nat \ {0} /\ SCREEN_HEIGHT \in Mult(h)
  BY FontFits
<1>2. s \in Cursor /\ s.size = z /\ OnGrid(s, w, h) /\ Height(s) = h
  BY DEF Page, Height
<1>3. SCREEN_WIDTH \in Nat \ {0} /\ SCREEN_HEIGHT \in Nat \ {0} /\ Word \in Nat /\ Word > SCREEN_HEIGHT
  BY ScreenAssumption
<1>. HIDE DEF w, h
<1>4. s.y \in Nat /\ s.y + h \in Mult(h) /\ s.y + h =< SCREEN_HEIGHT /\ 0 \in Mult(w)
  BY <1>1, <1>2, Multiples DEF OnGrid
<1>. DEFINE v == s.y + h
            r == [s EXCEPT !.x = 0]
            t == [r EXCEPT !.y = v]
<1>5. newline(s) = check_line_up(t)
  BY <1>2 DEF newline
<1>6. v \in Nat
  BY <1>1, <1>4
<1>. HIDE DEF v
<1>7. r \in Cursor /\ r.x = 0 /\ r.size = z /\ r.y = s.y /\ r.up = s.up
  BY <1>2, SetX
<1>. HIDE DEF r
<1>8. t \in Cursor /\ t.x = 0 /\ t.size = z /\ t.y = v
  BY <1>6, <1>7, SetY
<1>. HIDE DEF t
<1>9. CASE v < SCREEN_HEIGHT
  <2>1. v + h =< SCREEN_HEIGHT
    BY <1>1, <1>4, <1>9, MultiplesApart DEF v
  <2>2. OnGrid(t, w, h)
    BY <1>4, <1>8, <2>1 DEF OnGrid, v
  <2>3. t \in Page(z)
    BY <1>8, <2>2 DEF Page, w, h
  <2>. QED  BY <1>5, <2>3, LineUp
<1>10. CASE ~(v < SCREEN_HEIGHT)
  <2>1. check_line_up(t) = move_one_line_up([t EXCEPT !.x = 0])
    <3>1. ~(t.x >= SCREEN_WIDTH) /\ t.y >= SCREEN_HEIGHT
      BY <1>3, <1>6, <1>8, <1>10
    <3>. QED  BY <3>1 DEF check_line_up
  <2>. DEFINE e == [t EXCEPT !.x = 0]
              e1 == [e EXCEPT !.y = s.y]
              k == e.up + 1
              e2 == [e1 EXCEPT !.up = k]
  <2>2. e \in Cursor /\ e.x = 0 /\ e.y = v /\ e.size = z
    BY <1>8, SetX
  <2>. HIDE DEF e
  <2>3. Height(e) = h /\ k \in Nat
    BY <2>2 DEF Height, h, Cursor
  <2>. HIDE DEF k
  <2>4. (e.y - h) % Word = s.y
    <3>1. e.y - h = s.y /\ s.y < Word
      BY <1>1, <1>3, <1>4, <2>2 DEF v
    <3>. QED  BY <1>3, <1>4, <3>1, SmallMod
  <2>5. move_one_line_up(e) = e2
    BY <2>3, <2>4 DEF move_one_line_up, k
  <2>6. e1 \in Cursor /\ e1.x = 0 /\ e1.y = s.y /\ e1.size = z
    BY <1>4, <2>2, SetY
  <2>. HIDE DEF e1
  <2>7. e2 \in Cursor /\ e2.x = 0 /\ e2.y = s.y /\ e2.size = z
    BY <2>3, <2>6, SetUp
  <2>. HIDE DEF e2
  <2>8. OnGrid(e2, w, h)
    BY <1>2, <1>4, <2>7 DEF OnGrid
  <2>9. e2 \in Page(z)
    BY <2>7, <2>8 DEF Page, w, h
  <2>. QED  BY <1>5, <2>1, <2>5, <2>9 DEF e
<1>. QED  BY <1>9, <1>10

\* A character leaves the cursor on the grid of its font.
LEMMA CharacterStays ==
  ASSUME NEW z \in FontSizes, NEW s \in Page(z), NEW c
  PROVE  character(s, c) \in Page(z)
<1>. DEFINE w == z * GlyphW
<1>1. w \in Nat \ {0}
  BY FontFits
<1>2. s.size = z /\ s.x \in Mult(w) /\ s.x \in Nat /\ Width(s) = w
  BY DEF Page, OnGrid, Cursor, Width
<1>. HIDE DEF w
<1>3. CASE c = "BKSP"
  <2>1. character(s, c) = backspace(s)
    BY <1>3 DEF character
  <2>. QED  BY <2>1, BackspaceStays
<1>4. CASE c = "SP"
  <2>1. character(s, c) = [s EXCEPT !.x = s.x + w]
    BY <1>2, <1>4 DEF character
  <2>2. s.x + w \in Mult(w)
    BY <1>1, <1>2, Multiples
  <2>. QED  BY <2>1, <2>2, AlongRow DEF w
<1>5. CASE c = "ENTER"
  <2>1. character(s, c) = newline(s)
    BY <1>5 DEF character
  <2>. QED  BY <2>1, NewlineStays
<1>6. CASE c = "TAB"
  <2>. DEFINE k == TAB_WIDTH - ((s.x \div w) % TAB_WIDTH)
  <2>1. character(s, c) = [s EXCEPT !.x = s.x + k * w]
    BY <1>2, <1>6 DEF character, tab
  <2>2. k \in Nat
    <3>. DEFINE d == s.x \div w
    <3>1. d \in Int
      BY <1>1, <1>2
    <3>. HIDE DEF d
    <3>2. 5 - (d % 5) \in Nat
      BY <3>1
    <3>. QED  BY <3>2 DEF TAB_WIDTH, d
  <2>. HIDE DEF k
  <2>3. s.x + k * w \in Mult(w)
    BY <1>1, <1>2, <2>2, MultiplesAdd
  <2>. QED  BY <2>1, <2>3, AlongRow DEF w
<1>7. CASE c \notin {"BKSP", "SP", "ENTER", "TAB"}
  <2>. DEFINE t == check_line_up(s)
  <2>1. character(s, c) = [t EXCEPT !.x = t.x + w]
    BY <1>2, <1>7 DEF character
  <2>2. t \in Page(z)
    BY LineUp
  <2>. HIDE DEF t
  <2>3. t.x \in Mult(w)
    BY <2>2 DEF Page, OnGrid, w
  <2>4. t.x + w \in Mult(w)
    BY <1>1, <2>3, Multiples
  <2>. QED  BY <2>1, <2>2, <2>4, AlongRow DEF w
<1>. QED  BY <1>3, <1>4, <1>5, <1>6, <1>7

\* A word leaves the cursor on the grid of its font, with or without an end.
LEMMA WordStays ==
  ASSUME NEW z \in FontSizes, NEW s \in Page(z), NEW word \in Seq(Stored)
  PROVE  draw_word(s, word) \in Page(z)
<1>. DEFINE I == {k \in 1 .. Len(word) : word[k] = NUL}
            drawn == IF I # {} THEN Min(I) ELSE 0
            v == IF drawn = 0 THEN word ELSE SubSeq(word, 1, drawn - 1)
<1>1. draw_word(s, word) = FoldLeft(character, s, v)
  BY Zenon DEF draw_word, SelectInSeq
<1>2. drawn \in 0 .. Len(word)
  <2>1. CASE I = {}
    BY <2>1
  <2>2. CASE I # {}
    <3>1. I \subseteq Nat /\ I \subseteq 1 .. Len(word)
      OBVIOUS
    <3>. HIDE DEF I
    <3>2. \E x \in I : \A y \in I : x =< y
      BY <2>2, <3>1, SmallestExists
    <3>3. Min(I) \in I
      BY <3>2 DEF Min
    <3>4. drawn = Min(I)
      BY <2>2
    <3>. HIDE DEF drawn
    <3>5. Min(I) \in 1 .. Len(word)
      BY <3>1, <3>3
    <3>6. Len(word) \in Nat
      OBVIOUS
    <3>. QED  BY <3>4, <3>5, <3>6
  <2>. QED  BY <2>1, <2>2
<1>. HIDE DEF drawn
<1>3. v \in Seq(Stored)
  <2>1. CASE drawn = 0
    BY <2>1
  <2>2. CASE drawn # 0
    <3>1. drawn - 1 \in 0 .. Len(word)
      BY <1>2, <2>2
    <3>2. SubSeq(word, 1, drawn - 1) \in Seq(Stored)
      BY <3>1
    <3>. QED  BY <2>2, <3>2
  <2>. QED  BY <2>1, <2>2
<1>. HIDE DEF v
<1>4. \A a \in Page(z), e \in Stored : character(a, e) \in Page(z)
  BY CharacterStays
<1>. QED  BY <1>1, <1>3, <1>4, DrawFold

\* A word without a terminator is drawn to its end.
LEMMA DrawAll ==
  ASSUME NEW s, NEW w \in Seq(Stored), \A k \in 1 .. Len(w) : w[k] # NUL
  PROVE  draw_word(s, w) = FoldLeft(character, s, w)
<1>. DEFINE I == {k \in 1 .. Len(w) : w[k] = NUL}
            drawn == IF I # {} THEN Min(I) ELSE 0
<1>1. draw_word(s, w) = FoldLeft(character, s, IF drawn = 0 THEN w ELSE SubSeq(w, 1, drawn - 1))
  BY Zenon DEF draw_word, SelectInSeq
<1>2. drawn = 0
  OBVIOUS
<1>. QED  BY <1>1, <1>2

\* A word of one character.
LEMMA DrawOne ==
  ASSUME NEW z \in FontSizes, NEW s \in Page(z), NEW c \in Stored \ {NUL}
  PROVE  draw_word(s, <<c>>) = character(s, c)
<1>0. \A a \in Page(z), x \in Stored : character(a, x) \in Page(z)
  BY CharacterStays
<1>. DEFINE w == <<c>>
<1>1. w \in Seq(Stored) /\ Len(w) = 1 /\ w[1] = c
  OBVIOUS
<1>. HIDE DEF w
<1>2. PICK f : Draws(s, w, f)
  BY <1>0, <1>1, DrawSteps
<1>3. f[1 .. 1] = character(f[1 .. 0], c)
  <2>1. 1 \in 1 .. Len(w) /\ Len(w) \in Nat /\ 1 - 1 = 0
    BY <1>1
  <2>2. \A k \in 1 .. Len(w) : f[1 .. k] = character(f[1 .. k - 1], w[k])
    BY <1>2, <2>1, DrawnUpTo
  <2>. QED  BY <1>1, <2>1, <2>2
<1>4. 1 .. 0 = {}
  OBVIOUS
<1>5. FoldLeft(character, s, w) = character(s, c)
  BY <1>1, <1>2, <1>3, <1>4 DEF Draws
<1>6. draw_word(s, w) = FoldLeft(character, s, w)
  BY <1>1, DrawAll
<1>. QED  BY <1>5, <1>6 DEF w

\* The top left corner is on the grid of every font.
LEMMA CornerStays ==
  ASSUME NEW z \in FontSizes, NEW s \in Cursor, s.x = 0, s.y = 0, s.size = z
  PROVE  s \in Page(z)
<1>. DEFINE w == z * GlyphW
            h == z * GlyphH
<1>1. w \in Nat \ {0} /\ h \in Nat \ {0} /\ SCREEN_WIDTH \in Mult(w) /\ SCREEN_HEIGHT \in Mult(h)
  BY FontFits
<1>2. SCREEN_HEIGHT \in Nat \ {0}
  BY ScreenAssumption
<1>. HIDE DEF w, h
<1>3. 0 \in Mult(w) /\ 0 \in Mult(h) /\ h =< SCREEN_HEIGHT
  BY <1>1, <1>2, Multiples
<1>4. OnGrid(s, w, h)
  BY <1>1, <1>3 DEF OnGrid
<1>. QED  BY <1>4 DEF Page, w, h

\* The screen of any font.
Screens == UNION {Page(z) : z \in FontSizes}

\* clear_color leaves the cursor in the corner, on a page of the same font.
LEMMA ClearScreen ==
  ASSUME NEW s \in Screens
  PROVE  LET r == clear_color(s) IN r \in Screens /\ r.size = s.size /\ r.x = 0 /\ r.y = 0 /\ r.up = s.up
<1>1. PICK z \in FontSizes : s \in Page(z)
  BY DEF Screens
<1>2. s \in Cursor /\ s.size = z
  BY <1>1 DEF Page
<1>. DEFINE t == [s EXCEPT !.x = 0]
            r == [t EXCEPT !.y = 0]
<1>3. clear_color(s) = r
  BY DEF clear_color
<1>4. t \in Cursor /\ t.x = 0 /\ t.size = z /\ t.up = s.up
  BY <1>2, SetX
<1>. HIDE DEF t
<1>5. r \in Cursor /\ r.x = 0 /\ r.y = 0 /\ r.size = z /\ r.up = s.up
  BY <1>4, SetY
<1>. HIDE DEF r
<1>6. r \in Page(z)
  BY <1>5, CornerStays
<1>. QED  BY <1>2, <1>3, <1>5, <1>6 DEF Screens

\* A change of font leaves the corner a corner.
LEMMA SetFont ==
  ASSUME NEW s \in Screens, s.x = 0, s.y = 0, NEW z \in FontSizes
  PROVE  LET r == set_font_size(s, z) IN r \in Screens /\ r.size = z /\ r.x = 0 /\ r.y = 0
<1>1. s \in Cursor /\ z \in Nat \ {0}
  BY FontFits DEF Screens, Page
<1>. DEFINE r == [s EXCEPT !.size = z]
<1>2. r \in Cursor /\ r.x = 0 /\ r.y = 0 /\ r.size = z
  BY <1>1 DEF Cursor
<1>3. set_font_size(s, z) = r
  BY DEF set_font_size
<1>. HIDE DEF r
<1>4. r \in Page(z)
  BY <1>2, CornerStays
<1>. QED  BY <1>2, <1>3, <1>4 DEF Screens

\* A word drawn on any page leaves a page of the same font.
LEMMA DrawScreen ==
  ASSUME NEW s \in Screens, NEW word \in Seq(Stored)
  PROVE  LET r == draw_word(s, word) IN r \in Screens /\ r.size = s.size
<1>1. PICK z \in FontSizes : s \in Page(z)
  BY DEF Screens
<1>. DEFINE r == draw_word(s, word)
<1>2. r \in Page(z)
  BY <1>1, WordStays
<1>. HIDE DEF r
<1>3. r \in Screens /\ r.size = z /\ s.size = z
  BY <1>1, <1>2 DEF Screens, Page
<1>. QED  BY <1>3 DEF r

\* The history of the scrolls is no part of the grid.
LEMMA SetScrolls ==
  ASSUME NEW s \in Screens, NEW v \in Nat
  PROVE  [s EXCEPT !.up = v] \in Screens
<1>1. PICK z \in FontSizes : s \in Page(z)
  BY DEF Screens
<1>. DEFINE r == [s EXCEPT !.up = v]
<1>2. s \in Cursor /\ r \in Cursor /\ r.x = s.x /\ r.y = s.y /\ r.size = s.size
  BY <1>1, SetUp DEF Page
<1>. HIDE DEF r
<1>3. r \in Page(z)
  BY <1>1, <1>2 DEF Page, OnGrid
<1>4. r \in Screens
  BY <1>3 DEF Screens
<1>. QED  BY <1>4 DEF r

\* On the grid the next glyph lies inside the screen.
LEMMA GlyphFits ==
  ASSUME NEW s \in Screens
  PROVE  LET t == check_line_up(s) IN t.x + Width(t) =< SCREEN_WIDTH /\ t.y + Height(t) =< SCREEN_HEIGHT
<1>1. PICK z \in FontSizes : s \in Page(z)
  BY DEF Screens
<1>. DEFINE t == check_line_up(s)
<1>2. t \in Page(z) /\ t.x + z * GlyphW =< SCREEN_WIDTH
  BY <1>1, LineUp
<1>. HIDE DEF t
<1>3. t.x + Width(t) =< SCREEN_WIDTH /\ t.y + Height(t) =< SCREEN_HEIGHT
  BY <1>2 DEF Page, OnGrid, Width, Height
<1>. QED  BY <1>3 DEF t

-----------------------------------------------------------------------------
(* Pong. *)

Paddle == [x : Int, y : Int, width : Nat \ {0}, height : Nat \ {0}, speed : Nat \ {0}, direction : Directions]
Ball == [x : Int, y : Int, size : Nat \ {0}, speedX : Int, speedY : Int]
KeyNames == Rebinds \cup {"W", "S", "^", "v", "Y", "Z"}
Globals == [p1 : Paddle, p2 : Paddle, ball : Ball, up1 : KeyNames, down1 : KeyNames, up2 : KeyNames,
            down2 : KeyNames, BALL_SPEED : Nat \ {0}, BALL_SPEED_HORIZONTAL : Nat \ {0},
            score : Nat \ {0}, s1 : Nat, s2 : Nat]

InField(p) == BORDER_SIZE =< p.y /\ p.y + p.height =< SCREEN_HEIGHT - BORDER_SIZE

SamePaddle(p, r) == r \in Paddle /\ r.x = p.x /\ r.width = p.width /\ r.height = p.height /\ r.speed = p.speed

\* movePaddle changes y and direction, and leaves a paddle between the borders
\* that is no faster than a border is wide.
LEMMA MovePaddle ==
  ASSUME NEW p \in Paddle
  PROVE  /\ SamePaddle(p, movePaddle(p))
         /\ p.speed =< BORDER_SIZE /\ InField(p) => InField(movePaddle(p))
<1>1. BORDER_SIZE \in Nat \ {0} /\ SCREEN_HEIGHT \in Nat \ {0}
  BY PongAssumption, ScreenAssumption
<1>2. p.y \in Int /\ p.speed \in Nat \ {0} /\ p.height \in Nat \ {0} /\ p.direction \in Directions
  BY DEF Paddle
<1>3. ASSUME NEW v \in Int
      PROVE  /\ SamePaddle(p, [p EXCEPT !.y = v]) /\ [p EXCEPT !.y = v].y = v
             /\ SamePaddle(p, [p EXCEPT !.y = v, !.direction = "STOP"])
             /\ [p EXCEPT !.y = v, !.direction = "STOP"].y = v
  <2>. DEFINE r == [p EXCEPT !.y = v]
              t == [r EXCEPT !.direction = "STOP"]
  <2>1. SamePaddle(p, r) /\ r.y = v
    BY DEF SamePaddle, Paddle
  <2>. HIDE DEF r
  <2>2. SamePaddle(p, t) /\ t.y = v
    BY <2>1 DEF SamePaddle, Paddle, Directions
  <2>. QED  BY <2>1, <2>2 DEF r
<1>4. \E v \in Int : /\ movePaddle(p) = [p EXCEPT !.y = v] \/ movePaddle(p) = [p EXCEPT !.y = v, !.direction = "STOP"]
                     /\ p.speed =< BORDER_SIZE /\ InField(p) =>
                          BORDER_SIZE =< v /\ v + p.height =< SCREEN_HEIGHT - BORDER_SIZE
  <2>1. CASE p.direction = "UP"
    <3>1. CASE UGe(p.y - p.speed, BORDER_SIZE)
      <4>. DEFINE v == p.y - p.speed
      <4>1. movePaddle(p) = [p EXCEPT !.y = v]
        BY <2>1, <3>1 DEF movePaddle
      <4>2. /\ v \in Int
            /\ p.speed =< BORDER_SIZE /\ InField(p) => BORDER_SIZE =< v /\ v + p.height =< SCREEN_HEIGHT - BORDER_SIZE
        BY <1>1, <1>2, <3>1 DEF UGe, InField
      <4>. HIDE DEF v
      <4>. QED  BY <4>1, <4>2
    <3>2. CASE ~UGe(p.y - p.speed, BORDER_SIZE)
      <4>. DEFINE v == BORDER_SIZE
      <4>1. movePaddle(p) = [p EXCEPT !.y = v, !.direction = "STOP"]
        BY <2>1, <3>2 DEF movePaddle
      <4>2. v \in Int /\ (InField(p) => BORDER_SIZE =< v /\ v + p.height =< SCREEN_HEIGHT - BORDER_SIZE)
        BY <1>1, <1>2 DEF InField
      <4>. HIDE DEF v
      <4>. QED  BY <4>1, <4>2
    <3>. QED  BY <3>1, <3>2
  <2>2. CASE p.direction = "DOWN"
    <3>1. CASE ULe(p.y + p.speed + p.height, SCREEN_HEIGHT - BORDER_SIZE)
      <4>. DEFINE v == p.y + p.speed
      <4>1. movePaddle(p) = [p EXCEPT !.y = v]
        BY <2>2, <3>1 DEF movePaddle
      <4>2. v \in Int /\ (InField(p) => BORDER_SIZE =< v /\ v + p.height =< SCREEN_HEIGHT - BORDER_SIZE)
        BY <1>1, <1>2, <3>1 DEF ULe, InField
      <4>. HIDE DEF v
      <4>. QED  BY <4>1, <4>2
    <3>2. CASE ~ULe(p.y + p.speed + p.height, SCREEN_HEIGHT - BORDER_SIZE)
      <4>. DEFINE v == SCREEN_HEIGHT - BORDER_SIZE - p.height
      <4>1. movePaddle(p) = [p EXCEPT !.y = v, !.direction = "STOP"]
        BY <2>2, <3>2 DEF movePaddle
      <4>2. v \in Int /\ (InField(p) => BORDER_SIZE =< v /\ v + p.height =< SCREEN_HEIGHT - BORDER_SIZE)
        BY <1>1, <1>2 DEF InField
      <4>. HIDE DEF v
      <4>. QED  BY <4>1, <4>2
    <3>. QED  BY <3>1, <3>2
  <2>3. CASE p.direction = "STOP"
    <3>1. movePaddle(p) = p
      BY <2>3 DEF movePaddle
    <3>2. p = [p EXCEPT !.y = p.y]
      BY DEF Paddle
    <3>. QED  BY <1>2, <3>1, <3>2 DEF InField
  <2>. QED  BY <1>2, <2>1, <2>2, <2>3 DEF Directions
<1>5. PICK v \in Int : /\ movePaddle(p) = [p EXCEPT !.y = v] \/ movePaddle(p) = [p EXCEPT !.y = v, !.direction = "STOP"]
                       /\ p.speed =< BORDER_SIZE /\ InField(p) =>
                            BORDER_SIZE =< v /\ v + p.height =< SCREEN_HEIGHT - BORDER_SIZE
  BY <1>4
<1>. DEFINE r == movePaddle(p)
<1>6. SamePaddle(p, r) /\ r.y = v
  BY <1>3, <1>5
<1>. HIDE DEF r
<1>7. p.speed =< BORDER_SIZE /\ InField(p) => InField(r)
  BY <1>5, <1>6 DEF SamePaddle, InField
<1>. QED  BY <1>6, <1>7 DEF r

\* What stays of the globals when paddles and ball change.
SameRules(q, r) == /\ r.BALL_SPEED = q.BALL_SPEED /\ r.BALL_SPEED_HORIZONTAL = q.BALL_SPEED_HORIZONTAL
                   /\ r.score = q.score /\ r.up1 = q.up1 /\ r.down1 = q.down1 /\ r.up2 = q.up2 /\ r.down2 = q.down2
SameScores(q, r) == r.s1 = q.s1 /\ r.s2 = q.s2

\* Assignments to one of the globals.
LEMMA SetP1 ==
  ASSUME NEW q \in Globals, NEW p \in Paddle
  PROVE  LET r == [q EXCEPT !.p1 = p]
         IN  r \in Globals /\ r.p1 = p /\ r.p2 = q.p2 /\ r.ball = q.ball /\ SameRules(q, r) /\ SameScores(q, r)
  BY DEF Globals, SameRules, SameScores

\* Player 2 is set.
LEMMA SetP2 ==
  ASSUME NEW q \in Globals, NEW p \in Paddle
  PROVE  LET r == [q EXCEPT !.p2 = p]
         IN  r \in Globals /\ r.p2 = p /\ r.p1 = q.p1 /\ r.ball = q.ball /\ SameRules(q, r) /\ SameScores(q, r)
  BY DEF Globals, SameRules, SameScores

\* The ball is set.
LEMMA SetBall ==
  ASSUME NEW q \in Globals, NEW b \in Ball
  PROVE  LET r == [q EXCEPT !.ball = b]
         IN  r \in Globals /\ r.ball = b /\ r.p1 = q.p1 /\ r.p2 = q.p2 /\ SameRules(q, r) /\ SameScores(q, r)
  BY DEF Globals, SameRules, SameScores

\* Scores are set.
LEMMA SetScores ==
  ASSUME NEW q \in Globals
  PROVE  LET r == [q EXCEPT !.s1 = 0, !.s2 = 0]
         IN  r \in Globals /\ r.s1 = 0 /\ r.s2 = 0 /\ r.p1 = q.p1 /\ r.p2 = q.p2 /\ r.ball = q.ball /\ SameRules(q, r)
<1>. DEFINE t == [q EXCEPT !.s1 = 0]
            r == [t EXCEPT !.s2 = 0]
<1>1. t \in Globals /\ t.s1 = 0 /\ t.p1 = q.p1 /\ t.p2 = q.p2 /\ t.ball = q.ball /\ SameRules(q, t)
  BY DEF Globals, SameRules
<1>. HIDE DEF t
<1>2. r \in Globals /\ r.s1 = 0 /\ r.s2 = 0 /\ r.p1 = q.p1 /\ r.p2 = q.p2 /\ r.ball = q.ball /\ SameRules(q, r)
  BY <1>1 DEF Globals, SameRules
<1>. QED  BY <1>2 DEF t

\* reset_game: ball and paddles in the middle, the ball the other way.
LEMMA ResetGame ==
  ASSUME NEW q \in Globals
  PROVE  LET r == reset_game(q)
         IN  /\ r \in Globals /\ SameRules(q, r) /\ SameScores(q, r)
             /\ r.ball.x = (SCREEN_WIDTH \div 2) - (q.ball.size \div 2)
             /\ r.ball.y = (SCREEN_HEIGHT \div 2) - (q.ball.size \div 2)
             /\ r.ball.size = q.ball.size /\ r.ball.speedX = -q.ball.speedX /\ r.ball.speedY = 0
             /\ SamePaddle(q.p1, r.p1) /\ r.p1.y = (SCREEN_HEIGHT \div 2) - (q.p1.height \div 2)
             /\ SamePaddle(q.p2, r.p2) /\ r.p2.y = (SCREEN_HEIGHT \div 2) - (q.p2.height \div 2)
<1>. DEFINE a == (SCREEN_WIDTH \div 2) - (q.ball.size \div 2)
            b == (SCREEN_HEIGHT \div 2) - (q.ball.size \div 2)
            y1 == (SCREEN_HEIGHT \div 2) - (q.p1.height \div 2)
            y2 == (SCREEN_HEIGHT \div 2) - (q.p2.height \div 2)
            q1 == [q EXCEPT !.ball.x = a]
            q2 == [q1 EXCEPT !.ball.y = b]
            q3 == [q2 EXCEPT !.ball.speedX = -q.ball.speedX]
            q4 == [q3 EXCEPT !.ball.speedY = 0]
            q5 == [q4 EXCEPT !.p1.y = y1]
            q6 == [q5 EXCEPT !.p2.y = y2]
<1>1. reset_game(q) = q6
  BY DEF reset_game
<1>2. a \in Int /\ b \in Int /\ y1 \in Int /\ y2 \in Int
  BY ScreenAssumption DEF Globals, Paddle, Ball
<1>. HIDE DEF a, b, y1, y2
<1>. DEFINE Kept(t) == t \in Globals /\ SameRules(q, t) /\ SameScores(q, t) /\ t.ball.size = q.ball.size
<1>3. Kept(q1) /\ q1.ball.x = a /\ q1.ball.speedX = q.ball.speedX /\ q1.p1 = q.p1 /\ q1.p2 = q.p2
  BY <1>2 DEF Globals, Ball, SameRules, SameScores
<1>. HIDE DEF q1
<1>4. Kept(q2) /\ q2.ball.x = a /\ q2.ball.y = b /\ q2.ball.speedX = q.ball.speedX /\ q2.p1 = q.p1 /\ q2.p2 = q.p2
  BY <1>2, <1>3 DEF Globals, Ball, SameRules, SameScores
<1>. HIDE DEF q2
<1>5. Kept(q3) /\ q3.ball.x = a /\ q3.ball.y = b /\ q3.ball.speedX = -q.ball.speedX /\ q3.p1 = q.p1 /\ q3.p2 = q.p2
  BY <1>2, <1>4 DEF Globals, Ball, SameRules, SameScores
<1>. HIDE DEF q3
<1>6. /\ Kept(q4) /\ q4.ball.x = a /\ q4.ball.y = b /\ q4.ball.speedX = -q.ball.speedX /\ q4.ball.speedY = 0
      /\ q4.p1 = q.p1 /\ q4.p2 = q.p2
  BY <1>2, <1>5 DEF Globals, Ball, SameRules, SameScores
<1>. HIDE DEF q4
<1>7. /\ Kept(q5) /\ q5.ball = q4.ball /\ SamePaddle(q.p1, q5.p1) /\ q5.p1.y = y1 /\ q5.p2 = q.p2
  BY <1>2, <1>6 DEF Globals, Paddle, SameRules, SameScores, SamePaddle
<1>. HIDE DEF q5
<1>8. /\ Kept(q6) /\ q6.ball = q4.ball /\ q6.p1 = q5.p1 /\ SamePaddle(q.p2, q6.p2) /\ q6.p2.y = y2
  BY <1>2, <1>7 DEF Globals, Paddle, SameRules, SameScores, SamePaddle
<1>. HIDE DEF q6
<1>. QED  BY <1>1, <1>6, <1>7, <1>8 DEF a, b, y1, y2

\* The dimensions.
LEMMA Dimensions ==
  /\ BORDER_SIZE \in Nat \ {0} /\ SCREEN_HEIGHT \in Nat \ {0} /\ SCREEN_WIDTH \in Nat \ {0}
  /\ PADDLE_X \in Nat \ {0} /\ PADDLE_WIDTH \in Nat \ {0} /\ PADDLE_HEIGHT \in Nat \ {0}
  /\ PADDLE_SPEED \in Nat \ {0} /\ BALL_SIZE \in Nat \ {0} /\ InitialBallSpeed \in Nat \ {0}
  /\ InitialScore \in Nat \ {0} /\ SCORE_CARD_FONT_SIZE \in Nat \ {0}
<1>1. SCREEN_HEIGHT \in Nat \ {0} /\ SCREEN_WIDTH \in Nat \ {0}
  BY ScreenAssumption, Zenon
<1>2. /\ BORDER_SIZE \in Nat \ {0} /\ PADDLE_X \in Nat \ {0} /\ PADDLE_WIDTH \in Nat \ {0}
      /\ PADDLE_HEIGHT \in Nat \ {0} /\ PADDLE_SPEED \in Nat \ {0} /\ BALL_SIZE \in Nat \ {0}
      /\ InitialBallSpeed \in Nat \ {0} /\ InitialScore \in Nat \ {0} /\ SCORE_CARD_FONT_SIZE \in Nat \ {0}
  BY PongAssumption, Zenon
<1>. QED  BY <1>1, <1>2

\* Something of size b in the middle of a, with room for k before and l after.
LEMMA Middle ==
  ASSUME NEW a \in Nat, NEW b \in Nat, NEW k \in Nat, b + 2 * k < a
  PROVE  LET m == (a \div 2) - (b \div 2) IN m \in Int /\ k =< m /\ m + b =< a - k
  OBVIOUS

\* The ball: slow enough not to jump over a border and small enough to fit.
Slow(q) == q.BALL_SPEED_HORIZONTAL =< BORDER_SIZE /\ BallFits(q.ball.size)
Within(v, m) == -m =< v /\ v =< m
Gentle(v) == Within(v, BORDER_SIZE)
BallLow(b) == BORDER_SIZE =< b.x /\ BORDER_SIZE =< b.y /\ Gentle(b.speedX) /\ Gentle(b.speedY)
BallEnd(b) == b.x + b.size =< SCREEN_WIDTH - BORDER_SIZE /\ b.y + b.size =< SCREEN_HEIGHT - 2 * BORDER_SIZE

\* What holds in every phase after n options: one option can make a ball
\* slow or a paddle short that is in the field, a second one that has left it.
PaddleSafe(p, n) == /\ n =< 1 /\ p.speed =< BORDER_SIZE /\ p.height =< PADDLE_HEIGHT => InField(p)
                    /\ n = 0 => p.speed = PADDLE_SPEED /\ p.height = PADDLE_HEIGHT
BallSafe(q, n) == n =< 1 /\ Slow(q) => BallLow(q.ball)
BallHigh(q, n) == n =< 1 /\ Slow(q) => BallEnd(q.ball)
\* No ball is faster than after it met a paddle that stood still.
Paced(q) == Within(q.ball.speedX, q.BALL_SPEED_HORIZONTAL)
Untouched(q, n) == n = 0 => q.BALL_SPEED = InitialBallSpeed /\ q.ball.size = BALL_SIZE
Field(q, n) == /\ q \in Globals /\ q.BALL_SPEED_HORIZONTAL = 2 * q.BALL_SPEED
               /\ PaddleSafe(q.p1, n) /\ PaddleSafe(q.p2, n) /\ BallSafe(q, n) /\ Untouched(q, n) /\ Paced(q)

\* A paddle that moves as movePaddle lets it.
Moves(p, r) == SamePaddle(p, r) /\ (p.speed =< BORDER_SIZE /\ InField(p) => InField(r))

\* A safe paddle stays safe when it moves.
LEMMA MovesSafe ==
  ASSUME NEW p \in Paddle, NEW r, Moves(p, r), NEW n, PaddleSafe(p, n)
  PROVE  PaddleSafe(r, n)
  BY DEF Moves, SamePaddle, PaddleSafe

\* Two moves of a paddle are a move.
LEMMA MovesOn ==
  ASSUME NEW p, NEW r, NEW t, Moves(p, r), Moves(r, t)
  PROVE  Moves(p, t)
  BY DEF Moves, SamePaddle

\* Turning a paddle does not move it.
LEMMA TurnPaddle ==
  ASSUME NEW p \in Paddle, NEW d \in Directions
  PROVE  Moves(p, [p EXCEPT !.direction = d])
<1>. DEFINE r == [p EXCEPT !.direction = d]
<1>1. SamePaddle(p, r) /\ r.y = p.y
  BY DEF Paddle, SamePaddle
<1>. HIDE DEF r
<1>2. Moves(p, r)
  BY <1>1 DEF Moves, SamePaddle, InField
<1>. QED  BY <1>2 DEF r

\* movePaddle is such a move.
LEMMA PaddleMoves ==
  ASSUME NEW p \in Paddle
  PROVE  Moves(p, movePaddle(p)) /\ movePaddle(p) \in Paddle
  BY MovePaddle DEF Moves, SamePaddle

\* The field survives what only moves paddles.
Steps(q, r) == /\ r \in Globals /\ Moves(q.p1, r.p1) /\ Moves(q.p2, r.p2) /\ r.ball = q.ball
               /\ SameRules(q, r) /\ SameScores(q, r)

\* Paddle moves keep the field.
LEMMA StepsField ==
  ASSUME NEW q, NEW r, NEW n, Field(q, n), Steps(q, r)
  PROVE  Field(r, n)
<1>1. q.p1 \in Paddle /\ q.p2 \in Paddle
  BY DEF Field, Globals
<1>2. PaddleSafe(r.p1, n) /\ PaddleSafe(r.p2, n)
  BY <1>1, MovesSafe DEF Field, Steps
<1>3. BallSafe(r, n) /\ Untouched(r, n) /\ Paced(r)
  BY DEF Field, Steps, SameRules, BallSafe, Untouched, Slow, Paced
<1>. QED  BY <1>2, <1>3 DEF Field, Steps, SameRules

\* Two steps of the paddles are a step.
LEMMA StepsOn ==
  ASSUME NEW q, NEW r, NEW t, Steps(q, r), Steps(r, t)
  PROVE  Steps(q, t)
<1>1. Moves(q.p1, t.p1) /\ Moves(q.p2, t.p2)
  BY MovesOn DEF Steps
<1>. QED  BY <1>1 DEF Steps, SameRules, SameScores

\* A move of player 1 is a step of the paddles.
LEMMA StepP1 ==
  ASSUME NEW q \in Globals, NEW p, Moves(q.p1, p)
  PROVE  Steps(q, [q EXCEPT !.p1 = p])
<1>. DEFINE r == [q EXCEPT !.p1 = p]
<1>1. p \in Paddle
  BY DEF Moves, SamePaddle
<1>2. r \in Globals /\ r.p1 = p /\ r.p2 = q.p2 /\ r.ball = q.ball /\ SameRules(q, r) /\ SameScores(q, r)
  BY <1>1, SetP1
<1>. HIDE DEF r
<1>3. q.p2 \in Paddle
  BY DEF Globals
<1>4. Moves(q.p2, r.p2)
  BY <1>2, <1>3 DEF Moves, SamePaddle, InField
<1>5. Steps(q, r)
  BY <1>2, <1>4 DEF Steps
<1>. QED  BY <1>5 DEF r

\* A move of player 2 is a step of the paddles.
LEMMA StepP2 ==
  ASSUME NEW q \in Globals, NEW p, Moves(q.p2, p)
  PROVE  Steps(q, [q EXCEPT !.p2 = p])
<1>. DEFINE r == [q EXCEPT !.p2 = p]
<1>1. p \in Paddle
  BY DEF Moves, SamePaddle
<1>2. r \in Globals /\ r.p2 = p /\ r.p1 = q.p1 /\ r.ball = q.ball /\ SameRules(q, r) /\ SameScores(q, r)
  BY <1>1, SetP2
<1>. HIDE DEF r
<1>3. q.p1 \in Paddle
  BY DEF Globals
<1>4. Moves(q.p1, r.p1)
  BY <1>2, <1>3 DEF Moves, SamePaddle, InField
<1>5. Steps(q, r)
  BY <1>2, <1>4 DEF Steps
<1>. QED  BY <1>5 DEF r

\* reset_game puts paddles and ball into the field, or keeps what was not in it.
LEMMA ResetField ==
  ASSUME NEW q, NEW n, Field(q, n)
  PROVE  Field(reset_game(q), n) /\ BallHigh(reset_game(q), n) /\ SameScores(q, reset_game(q)) /\ SameRules(q, reset_game(q))
<1>. DEFINE r == reset_game(q)
<1>0. q \in Globals
  BY DEF Field
<1>1. /\ r \in Globals /\ SameRules(q, r) /\ SameScores(q, r)
      /\ r.ball.x = (SCREEN_WIDTH \div 2) - (q.ball.size \div 2)
      /\ r.ball.y = (SCREEN_HEIGHT \div 2) - (q.ball.size \div 2)
      /\ r.ball.size = q.ball.size /\ r.ball.speedX = -q.ball.speedX /\ r.ball.speedY = 0
      /\ SamePaddle(q.p1, r.p1) /\ r.p1.y = (SCREEN_HEIGHT \div 2) - (q.p1.height \div 2)
      /\ SamePaddle(q.p2, r.p2) /\ r.p2.y = (SCREEN_HEIGHT \div 2) - (q.p2.height \div 2)
  BY <1>0, ResetGame
<1>. HIDE DEF r
<1>2. ASSUME NEW p \in Paddle, NEW t, SamePaddle(p, t), t.y = (SCREEN_HEIGHT \div 2) - (p.height \div 2),
             PaddleSafe(p, n)
      PROVE  PaddleSafe(t, n)
  <2>1. CASE p.height =< PADDLE_HEIGHT
    <3>1. p.height \in Nat /\ p.height + 2 * BORDER_SIZE < SCREEN_HEIGHT
      BY <2>1, Dimensions, FieldAssumption DEF Paddle
    <3>2. BORDER_SIZE =< t.y /\ t.y + p.height =< SCREEN_HEIGHT - BORDER_SIZE
      BY <1>2, <3>1, Dimensions, Middle
    <3>. QED  BY <1>2, <3>2 DEF PaddleSafe, SamePaddle, InField
  <2>2. CASE ~(p.height =< PADDLE_HEIGHT)
    BY <1>2, <2>2, Dimensions DEF PaddleSafe, SamePaddle
  <2>. QED  BY <2>1, <2>2
<1>3. PaddleSafe(r.p1, n) /\ PaddleSafe(r.p2, n)
  <2>1. q.p1 \in Paddle /\ q.p2 \in Paddle
    BY <1>0 DEF Globals
  <2>. QED  BY <1>1, <1>2, <2>1 DEF Field
<1>4. ASSUME n =< 1, Slow(r) PROVE BallLow(r.ball) /\ BallEnd(r.ball)
  <2>1. Slow(q) /\ BallLow(q.ball)
    BY <1>1, <1>4 DEF Field, BallSafe, Slow, SameRules
  <2>2. q.ball.size \in Nat /\ q.ball.speedX \in Int
    BY <1>0 DEF Globals, Ball
  <2>3. q.ball.size + 4 * BORDER_SIZE < SCREEN_HEIGHT /\ q.ball.size + 2 * BORDER_SIZE < SCREEN_WIDTH
    BY <2>1 DEF Slow, BallFits
  <2>4. BORDER_SIZE =< r.ball.x /\ r.ball.x + q.ball.size =< SCREEN_WIDTH - BORDER_SIZE
    BY <1>1, <2>2, <2>3, Dimensions, Middle
  <2>5. 2 * BORDER_SIZE \in Nat /\ q.ball.size + 2 * (2 * BORDER_SIZE) < SCREEN_HEIGHT
    BY <2>2, <2>3, Dimensions
  <2>6. 2 * BORDER_SIZE =< r.ball.y /\ r.ball.y + q.ball.size =< SCREEN_HEIGHT - 2 * BORDER_SIZE
    BY <1>1, <2>2, <2>5, Dimensions, Middle
  <2>7. r.ball.y \in Int
    BY <1>1 DEF Globals, Ball
  <2>8. BORDER_SIZE =< r.ball.y
    BY <2>6, <2>7, Dimensions
  <2>9. Gentle(r.ball.speedX) /\ Gentle(r.ball.speedY)
    BY <1>1, <2>1, <2>2, Dimensions DEF BallLow, Gentle, Within
  <2>. QED  BY <1>1, <2>4, <2>6, <2>8, <2>9 DEF BallLow, BallEnd
<1>5. BallSafe(r, n) /\ BallHigh(r, n)
  BY <1>4 DEF BallSafe, BallHigh
<1>6. Untouched(r, n) /\ r.BALL_SPEED_HORIZONTAL = 2 * r.BALL_SPEED
  BY <1>1 DEF Field, Untouched, SameRules
<1>p. Paced(r)
  <2>1. q.ball.speedX \in Int /\ q.BALL_SPEED_HORIZONTAL \in Nat
    BY <1>0 DEF Globals, Ball
  <2>. QED  BY <1>1, <2>1 DEF Field, Paced, Within, SameRules
<1>7. Field(r, n) /\ BallHigh(r, n) /\ SameScores(q, r) /\ SameRules(q, r)
  BY <1>1, <1>3, <1>5, <1>6, <1>p DEF Field
<1>. QED  BY <1>7 DEF r

\* Scores are no part of the field.
LEMMA ScoreField ==
  ASSUME NEW q, NEW n, Field(q, n)
  PROVE  LET r == [q EXCEPT !.s1 = 0, !.s2 = 0]
         IN  Field(r, n) /\ r.s1 = 0 /\ r.s2 = 0 /\ SameRules(q, r)
<1>. DEFINE r == [q EXCEPT !.s1 = 0, !.s2 = 0]
<1>1. r \in Globals /\ r.s1 = 0 /\ r.s2 = 0 /\ r.p1 = q.p1 /\ r.p2 = q.p2 /\ r.ball = q.ball /\ SameRules(q, r)
  BY SetScores DEF Field
<1>. HIDE DEF r
<1>2. Field(r, n)
  BY <1>1 DEF Field, SameRules, BallSafe, Untouched, Slow, Paced
<1>3. Field(r, n) /\ r.s1 = 0 /\ r.s2 = 0 /\ SameRules(q, r)
  BY <1>1, <1>2
<1>. QED  BY <1>3 DEF r

\* update_score gives a point and keeps the field.
LEMMA UpdateScore ==
  ASSUME NEW q, NEW n, Field(q, n), NEW player
  PROVE  Field(update_score(q, player), n) /\ SameRules(q, update_score(q, player))
<1>1. q \in Globals /\ q.s1 \in Nat /\ q.s2 \in Nat
  BY DEF Field, Globals
<1>. DEFINE r == update_score(q, player)
<1>2. /\ r \in Globals /\ r.p1 = q.p1 /\ r.p2 = q.p2 /\ r.ball = q.ball /\ SameRules(q, r)
  <2>1. CASE player = 1
    <3>. DEFINE v == q.s1 + 1
                t == [q EXCEPT !.s1 = v]
    <3>1. v \in Nat
      BY <1>1
    <3>2. r = t
      BY <2>1 DEF update_score
    <3>. HIDE DEF v, r
    <3>3. t \in Globals /\ t.p1 = q.p1 /\ t.p2 = q.p2 /\ t.ball = q.ball /\ SameRules(q, t)
      BY <1>1, <3>1 DEF Globals, SameRules
    <3>. QED  BY <3>2, <3>3
  <2>2. CASE player # 1
    <3>. DEFINE v == q.s2 + 1
                t == [q EXCEPT !.s2 = v]
    <3>1. v \in Nat
      BY <1>1
    <3>2. r = t
      BY <2>2 DEF update_score
    <3>. HIDE DEF v, r
    <3>3. t \in Globals /\ t.p1 = q.p1 /\ t.p2 = q.p2 /\ t.ball = q.ball /\ SameRules(q, t)
      BY <1>1, <3>1 DEF Globals, SameRules
    <3>. QED  BY <3>2, <3>3
  <2>. QED  BY <2>1, <2>2
<1>. HIDE DEF r
<1>3. Field(r, n)
  BY <1>2 DEF Field, SameRules, BallSafe, Untouched, Slow, Paced
<1>. QED  BY <1>2, <1>3 DEF r

\* The ball bounces off a side: position and speed on that axis change.
LEMMA Sides ==
  ASSUME NEW b \in Ball
  PROVE  LET r == OffSides(b)
         IN  /\ r \in Ball /\ r.y = b.y /\ r.size = b.size /\ r.speedY = b.speedY
             /\ r.speedX = b.speedX \/ r.speedX = -b.speedX
             /\ 0 =< b.x /\ BallFits(b.size) => BORDER_SIZE =< r.x /\ r.x + b.size =< SCREEN_WIDTH - BORDER_SIZE
<1>. DEFINE r == OffSides(b)
<1>0. b.x \in Int /\ b.size \in Nat \ {0} /\ b.speedX \in Int /\ -b.speedX \in Int
  BY DEF Ball
<1>1. CASE ULe(b.x, BORDER_SIZE)
  <2>. DEFINE v == BORDER_SIZE
              u == -b.speedX
              m == [b EXCEPT !.x = v]
              t == [m EXCEPT !.speedX = u]
  <2>1. r = t
    BY <1>1 DEF OffSides
  <2>2. v \in Int /\ u \in Int
    BY <1>0, Dimensions
  <2>3. BallFits(b.size) => v + b.size =< SCREEN_WIDTH - BORDER_SIZE
    BY <1>0, Dimensions DEF BallFits
  <2>. HIDE DEF v, u, r
  <2>m. m \in Ball /\ m.x = v /\ m.y = b.y /\ m.size = b.size /\ m.speedY = b.speedY
    BY <2>2 DEF Ball
  <2>. HIDE DEF m
  <2>4. t \in Ball /\ t.x = v /\ t.y = b.y /\ t.size = b.size /\ t.speedX = u /\ t.speedY = b.speedY
    BY <2>2, <2>m DEF Ball
  <2>. HIDE DEF t
  <2>5. BORDER_SIZE =< v
    BY Dimensions DEF v
  <2>6. /\ r \in Ball /\ r.y = b.y /\ r.size = b.size /\ r.speedY = b.speedY
        /\ r.speedX = b.speedX \/ r.speedX = -b.speedX
        /\ 0 =< b.x /\ BallFits(b.size) => BORDER_SIZE =< r.x /\ r.x + b.size =< SCREEN_WIDTH - BORDER_SIZE
    BY <2>1, <2>3, <2>4, <2>5 DEF u
  <2>. QED  BY <2>6 DEF r
<1>2. CASE ~ULe(b.x, BORDER_SIZE) /\ UGe(b.x + b.size, SCREEN_WIDTH - BORDER_SIZE)
  <2>. DEFINE v == SCREEN_WIDTH - BORDER_SIZE - b.size
              u == -b.speedX
              m == [b EXCEPT !.x = v]
              t == [m EXCEPT !.speedX = u]
  <2>1. r = t
    BY <1>2 DEF OffSides
  <2>2. v \in Int /\ u \in Int
    BY <1>0, Dimensions
  <2>3. BallFits(b.size) => BORDER_SIZE =< v /\ v + b.size =< SCREEN_WIDTH - BORDER_SIZE
    BY <1>0, Dimensions DEF BallFits
  <2>. HIDE DEF v, u, r
  <2>m. m \in Ball /\ m.x = v /\ m.y = b.y /\ m.size = b.size /\ m.speedY = b.speedY
    BY <2>2 DEF Ball
  <2>. HIDE DEF m
  <2>4. t \in Ball /\ t.x = v /\ t.y = b.y /\ t.size = b.size /\ t.speedX = u /\ t.speedY = b.speedY
    BY <2>2, <2>m DEF Ball
  <2>. HIDE DEF t
  <2>6. /\ r \in Ball /\ r.y = b.y /\ r.size = b.size /\ r.speedY = b.speedY
        /\ r.speedX = b.speedX \/ r.speedX = -b.speedX
        /\ 0 =< b.x /\ BallFits(b.size) => BORDER_SIZE =< r.x /\ r.x + b.size =< SCREEN_WIDTH - BORDER_SIZE
    BY <2>1, <2>3, <2>4 DEF u
  <2>. QED  BY <2>6 DEF r
<1>3. CASE ~ULe(b.x, BORDER_SIZE) /\ ~UGe(b.x + b.size, SCREEN_WIDTH - BORDER_SIZE)
  <2>1. r = b
    BY <1>3 DEF OffSides
  <2>2. 0 =< b.x => BORDER_SIZE =< b.x /\ b.x + b.size =< SCREEN_WIDTH - BORDER_SIZE
    BY <1>0, <1>3, Dimensions DEF ULe, UGe
  <2>. HIDE DEF r
  <2>6. /\ r \in Ball /\ r.y = b.y /\ r.size = b.size /\ r.speedY = b.speedY
        /\ r.speedX = b.speedX \/ r.speedX = -b.speedX
        /\ 0 =< b.x /\ BallFits(b.size) => BORDER_SIZE =< r.x /\ r.x + b.size =< SCREEN_WIDTH - BORDER_SIZE
    BY <2>1, <2>2
  <2>. QED  BY <2>6 DEF r
<1>. QED  BY <1>1, <1>2, <1>3

\* The ball bounces off the top or the bottom.
LEMMA TopAndBottom ==
  ASSUME NEW b \in Ball
  PROVE  LET r == OffTopAndBottom(b)
         IN  /\ r \in Ball /\ r.x = b.x /\ r.size = b.size /\ r.speedX = b.speedX
             /\ r.speedY = b.speedY \/ r.speedY = -b.speedY
             /\ 0 =< b.y /\ BallFits(b.size) => BORDER_SIZE =< r.y /\ r.y + b.size =< SCREEN_HEIGHT - 2 * BORDER_SIZE
<1>. DEFINE r == OffTopAndBottom(b)
<1>0. b.y \in Int /\ b.size \in Nat \ {0} /\ b.speedY \in Int /\ -b.speedY \in Int
  BY DEF Ball
<1>1. CASE ULe(b.y, BORDER_SIZE)
  <2>. DEFINE v == BORDER_SIZE
              u == -b.speedY
              m == [b EXCEPT !.y = v]
              t == [m EXCEPT !.speedY = u]
  <2>1. r = t
    BY <1>1 DEF OffTopAndBottom
  <2>2. v \in Int /\ u \in Int
    BY <1>0, Dimensions
  <2>3. BallFits(b.size) => v + b.size =< SCREEN_HEIGHT - 2 * BORDER_SIZE
    BY <1>0, Dimensions DEF BallFits
  <2>. HIDE DEF v, u, r
  <2>m. m \in Ball /\ m.y = v /\ m.x = b.x /\ m.size = b.size /\ m.speedX = b.speedX
    BY <2>2 DEF Ball
  <2>. HIDE DEF m
  <2>4. t \in Ball /\ t.x = b.x /\ t.y = v /\ t.size = b.size /\ t.speedX = b.speedX /\ t.speedY = u
    BY <2>2, <2>m DEF Ball
  <2>. HIDE DEF t
  <2>5. BORDER_SIZE =< v
    BY Dimensions DEF v
  <2>6. /\ r \in Ball /\ r.x = b.x /\ r.size = b.size /\ r.speedX = b.speedX
        /\ r.speedY = b.speedY \/ r.speedY = -b.speedY
        /\ 0 =< b.y /\ BallFits(b.size) => BORDER_SIZE =< r.y /\ r.y + b.size =< SCREEN_HEIGHT - 2 * BORDER_SIZE
    BY <2>1, <2>3, <2>4, <2>5 DEF u
  <2>. QED  BY <2>6 DEF r
<1>2. CASE ~ULe(b.y, BORDER_SIZE) /\ UGe(b.y + b.size, SCREEN_HEIGHT - 2 * BORDER_SIZE)
  <2>. DEFINE v == SCREEN_HEIGHT - 2 * BORDER_SIZE - b.size
              u == -b.speedY
              m == [b EXCEPT !.y = v]
              t == [m EXCEPT !.speedY = u]
  <2>1. r = t
    BY <1>2 DEF OffTopAndBottom
  <2>2. v \in Int /\ u \in Int
    BY <1>0, Dimensions
  <2>3. BallFits(b.size) => BORDER_SIZE =< v /\ v + b.size =< SCREEN_HEIGHT - 2 * BORDER_SIZE
    BY <1>0, Dimensions DEF BallFits
  <2>. HIDE DEF v, u, r
  <2>m. m \in Ball /\ m.y = v /\ m.x = b.x /\ m.size = b.size /\ m.speedX = b.speedX
    BY <2>2 DEF Ball
  <2>. HIDE DEF m
  <2>4. t \in Ball /\ t.x = b.x /\ t.y = v /\ t.size = b.size /\ t.speedX = b.speedX /\ t.speedY = u
    BY <2>2, <2>m DEF Ball
  <2>. HIDE DEF t
  <2>6. /\ r \in Ball /\ r.x = b.x /\ r.size = b.size /\ r.speedX = b.speedX
        /\ r.speedY = b.speedY \/ r.speedY = -b.speedY
        /\ 0 =< b.y /\ BallFits(b.size) => BORDER_SIZE =< r.y /\ r.y + b.size =< SCREEN_HEIGHT - 2 * BORDER_SIZE
    BY <2>1, <2>3, <2>4 DEF u
  <2>. QED  BY <2>6 DEF r
<1>3. CASE ~ULe(b.y, BORDER_SIZE) /\ ~UGe(b.y + b.size, SCREEN_HEIGHT - 2 * BORDER_SIZE)
  <2>1. r = b
    BY <1>3 DEF OffTopAndBottom
  <2>2. 0 =< b.y => BORDER_SIZE =< b.y /\ b.y + b.size =< SCREEN_HEIGHT - 2 * BORDER_SIZE
    BY <1>0, <1>3, Dimensions DEF ULe, UGe
  <2>. HIDE DEF r
  <2>6. /\ r \in Ball /\ r.x = b.x /\ r.size = b.size /\ r.speedX = b.speedX
        /\ r.speedY = b.speedY \/ r.speedY = -b.speedY
        /\ 0 =< b.y /\ BallFits(b.size) => BORDER_SIZE =< r.y /\ r.y + b.size =< SCREEN_HEIGHT - 2 * BORDER_SIZE
    BY <2>1, <2>2
  <2>. QED  BY <2>6 DEF r
<1>. QED  BY <1>1, <1>2, <1>3

\* A paddle turns the ball and gives it one of the speeds of the game.
LEMMA PaddleBall ==
  ASSUME NEW q \in Globals, q.BALL_SPEED_HORIZONTAL = 2 * q.BALL_SPEED,
         NEW b \in Ball, NEW p \in Paddle, NEW side \in {1, -1}
  PROVE  LET r == OffPaddle(q, b, p, side)
         IN  /\ r \in Ball /\ r.x = b.x /\ r.y = b.y /\ r.size = b.size
             /\ q.BALL_SPEED_HORIZONTAL =< BORDER_SIZE /\ Gentle(b.speedX) /\ Gentle(b.speedY) =>
                  Gentle(r.speedX) /\ Gentle(r.speedY)
             /\ Within(b.speedX, q.BALL_SPEED_HORIZONTAL) => Within(r.speedX, q.BALL_SPEED_HORIZONTAL)
<1>. DEFINE r == OffPaddle(q, b, p, side)
            v == side * (IF p.direction = "STOP" THEN q.BALL_SPEED_HORIZONTAL ELSE q.BALL_SPEED)
            u == CASE p.direction = "UP" -> -q.BALL_SPEED [] p.direction = "DOWN" -> q.BALL_SPEED [] OTHER -> 0
            m == [b EXCEPT !.speedX = v]
            t == [m EXCEPT !.speedY = u]
<1>0. q.BALL_SPEED \in Nat \ {0} /\ p.direction \in Directions
  BY DEF Globals, Paddle
<1>1. CASE ~Hit(b, p)
  <2>1. r = b
    BY <1>1 DEF OffPaddle
  <2>. HIDE DEF r
  <2>2. /\ r \in Ball /\ r.x = b.x /\ r.y = b.y /\ r.size = b.size
        /\ q.BALL_SPEED_HORIZONTAL =< BORDER_SIZE /\ Gentle(b.speedX) /\ Gentle(b.speedY) =>
             Gentle(r.speedX) /\ Gentle(r.speedY)
        /\ Within(b.speedX, q.BALL_SPEED_HORIZONTAL) => Within(r.speedX, q.BALL_SPEED_HORIZONTAL)
    BY <2>1
  <2>. QED  BY <2>2 DEF r
<1>2. CASE Hit(b, p)
  <2>1. r = t
    BY <1>2 DEF OffPaddle
  <2>2. v \in Int /\ (q.BALL_SPEED_HORIZONTAL =< BORDER_SIZE => Gentle(v)) /\ Within(v, q.BALL_SPEED_HORIZONTAL)
    <3>1. v \in {q.BALL_SPEED, 2 * q.BALL_SPEED, -q.BALL_SPEED, -(2 * q.BALL_SPEED)}
      BY <1>0
    <3>. HIDE DEF v
    <3>. QED  BY <1>0, <3>1, Dimensions DEF Gentle, Within
  <2>3. u \in Int /\ (q.BALL_SPEED_HORIZONTAL =< BORDER_SIZE => Gentle(u))
    <3>1. u \in {q.BALL_SPEED, -q.BALL_SPEED, 0}
      BY <1>0 DEF Directions
    <3>. HIDE DEF u
    <3>. QED  BY <1>0, <3>1, Dimensions DEF Gentle, Within
  <2>. HIDE DEF v, u, r
  <2>4. m \in Ball /\ m.x = b.x /\ m.y = b.y /\ m.size = b.size /\ m.speedX = v
    BY <2>2 DEF Ball
  <2>. HIDE DEF m
  <2>5. t \in Ball /\ t.x = b.x /\ t.y = b.y /\ t.size = b.size /\ t.speedX = v /\ t.speedY = u
    BY <2>3, <2>4 DEF Ball
  <2>. HIDE DEF t
  <2>6. /\ r \in Ball /\ r.x = b.x /\ r.y = b.y /\ r.size = b.size
        /\ q.BALL_SPEED_HORIZONTAL =< BORDER_SIZE /\ Gentle(b.speedX) /\ Gentle(b.speedY) =>
             Gentle(r.speedX) /\ Gentle(r.speedY)
        /\ Within(b.speedX, q.BALL_SPEED_HORIZONTAL) => Within(r.speedX, q.BALL_SPEED_HORIZONTAL)
    BY <2>1, <2>2, <2>3, <2>5
  <2>. QED  BY <2>6 DEF r
<1>. QED  BY <1>1, <1>2

\* A frame of the ball leaves it in the field.
LEMMA MoveBall ==
  ASSUME NEW q, NEW n, Field(q, n)
  PROVE  Field(move_ball(q), n) /\ BallHigh(move_ball(q), n)
<1>1. CASE check_scored(q) # 0
  <2>. DEFINE t == update_score(q, check_scored(q))
  <2>1. move_ball(q) = reset_game(t)
    BY <1>1 DEF move_ball
  <2>2. Field(t, n)
    BY UpdateScore
  <2>. HIDE DEF t
  <2>. QED  BY <2>1, <2>2, ResetField
<1>2. CASE check_scored(q) = 0
  <2>0. /\ q \in Globals /\ q.BALL_SPEED_HORIZONTAL = 2 * q.BALL_SPEED /\ q.p1 \in Paddle /\ q.p2 \in Paddle
        /\ q.ball \in Ball
    BY DEF Field, Globals
  <2>. DEFINE a == q.ball.x + q.ball.speedX
              c == q.ball.y + q.ball.speedY
              b0 == [q.ball EXCEPT !.x = a]
              b1 == [b0 EXCEPT !.y = c]
              b2 == OffSides(b1)
              b3 == OffTopAndBottom(b2)
              b4 == OffPaddle(q, b3, q.p1, 1)
              b5 == OffPaddle(q, b4, q.p2, -1)
              r == [q EXCEPT !.ball = b5]
  <2>1. move_ball(q) = r
    BY <1>2 DEF move_ball
  <2>2. a \in Int /\ c \in Int
    BY <2>0 DEF Ball
  <2>. HIDE DEF a, c
  <2>3. b0 \in Ball /\ b0.x = a /\ b0.y = q.ball.y /\ b0.size = q.ball.size /\ b0.speedX = q.ball.speedX /\ b0.speedY = q.ball.speedY
    BY <2>0, <2>2 DEF Ball
  <2>. HIDE DEF b0
  <2>4. b1 \in Ball /\ b1.x = a /\ b1.y = c /\ b1.size = q.ball.size /\ b1.speedX = q.ball.speedX /\ b1.speedY = q.ball.speedY
    BY <2>2, <2>3 DEF Ball
  <2>. HIDE DEF b1
  <2>5. /\ b2 \in Ball /\ b2.y = b1.y /\ b2.size = b1.size /\ b2.speedY = b1.speedY
        /\ b2.speedX = b1.speedX \/ b2.speedX = -b1.speedX
        /\ 0 =< b1.x /\ BallFits(b1.size) => BORDER_SIZE =< b2.x /\ b2.x + b1.size =< SCREEN_WIDTH - BORDER_SIZE
    BY <2>4, Sides
  <2>. HIDE DEF b2
  <2>6. /\ b3 \in Ball /\ b3.x = b2.x /\ b3.size = b2.size /\ b3.speedX = b2.speedX
        /\ b3.speedY = b2.speedY \/ b3.speedY = -b2.speedY
        /\ 0 =< b2.y /\ BallFits(b2.size) => BORDER_SIZE =< b3.y /\ b3.y + b2.size =< SCREEN_HEIGHT - 2 * BORDER_SIZE
    BY <2>5, TopAndBottom
  <2>. HIDE DEF b3
  <2>7. /\ b4 \in Ball /\ b4.x = b3.x /\ b4.y = b3.y /\ b4.size = b3.size
        /\ q.BALL_SPEED_HORIZONTAL =< BORDER_SIZE /\ Gentle(b3.speedX) /\ Gentle(b3.speedY) =>
             Gentle(b4.speedX) /\ Gentle(b4.speedY)
        /\ Within(b3.speedX, q.BALL_SPEED_HORIZONTAL) => Within(b4.speedX, q.BALL_SPEED_HORIZONTAL)
    BY <2>0, <2>6, PaddleBall
  <2>. HIDE DEF b4
  <2>8. /\ b5 \in Ball /\ b5.x = b4.x /\ b5.y = b4.y /\ b5.size = b4.size
        /\ q.BALL_SPEED_HORIZONTAL =< BORDER_SIZE /\ Gentle(b4.speedX) /\ Gentle(b4.speedY) =>
             Gentle(b5.speedX) /\ Gentle(b5.speedY)
        /\ Within(b4.speedX, q.BALL_SPEED_HORIZONTAL) => Within(b5.speedX, q.BALL_SPEED_HORIZONTAL)
    BY <2>0, <2>7, PaddleBall
  <2>. HIDE DEF b5
  <2>9. r \in Globals /\ r.ball = b5 /\ r.p1 = q.p1 /\ r.p2 = q.p2 /\ SameRules(q, r)
    BY <2>0, <2>8, SetBall
  <2>. HIDE DEF r
  <2>10. b5.size = q.ball.size
    BY <2>4, <2>5, <2>6, <2>7, <2>8
  <2>11. ASSUME n =< 1, Slow(r) PROVE BallLow(r.ball) /\ BallEnd(r.ball)
    <3>1. BallLow(q.ball) /\ BallFits(q.ball.size) /\ q.BALL_SPEED_HORIZONTAL =< BORDER_SIZE
      BY <2>9, <2>10, <2>11 DEF Field, BallSafe, Slow, SameRules
    <3>2. q.ball.x \in Int /\ q.ball.y \in Int /\ q.ball.speedX \in Int /\ q.ball.speedY \in Int
      BY <2>0 DEF Ball
    <3>3. 0 =< a /\ 0 =< c
      BY <3>1, <3>2, Dimensions DEF BallLow, Gentle, Within, a, c
    <3>4. Gentle(b3.speedX) /\ Gentle(b3.speedY)
      <4>1. Gentle(q.ball.speedX) /\ Gentle(-q.ball.speedX) /\ Gentle(q.ball.speedY) /\ Gentle(-q.ball.speedY)
        BY <3>1, <3>2, Dimensions DEF BallLow, Gentle, Within
      <4>. QED  BY <2>4, <2>5, <2>6, <4>1
    <3>5. BORDER_SIZE =< b2.x /\ b2.x + q.ball.size =< SCREEN_WIDTH - BORDER_SIZE
      BY <2>4, <2>5, <3>1, <3>3
    <3>6. BORDER_SIZE =< b3.y /\ b3.y + q.ball.size =< SCREEN_HEIGHT - 2 * BORDER_SIZE
      BY <2>4, <2>5, <2>6, <3>1, <3>3
    <3>7. Gentle(b5.speedX) /\ Gentle(b5.speedY)
      BY <2>7, <2>8, <3>1, <3>4
    <3>. QED  BY <2>6, <2>7, <2>8, <2>9, <2>10, <3>5, <3>6, <3>7 DEF BallLow, BallEnd
  <2>12. BallSafe(r, n) /\ BallHigh(r, n)
    BY <2>11 DEF BallSafe, BallHigh
  <2>p. Paced(r)
    <3>. DEFINE h == q.BALL_SPEED_HORIZONTAL
                v == q.ball.speedX
    <3>1. v \in Int /\ h \in Nat /\ Within(v, h)
      BY <2>0 DEF Globals, Ball, Field, Paced
    <3>2. b3.speedX = v \/ b3.speedX = -v
      BY <2>4, <2>5, <2>6
    <3>. HIDE DEF h, v
    <3>3. Within(b3.speedX, h)
      BY <3>1, <3>2 DEF Within
    <3>4. Within(b5.speedX, h)
      BY <2>7, <2>8, <3>3 DEF h
    <3>. QED  BY <2>9, <3>4 DEF Paced, SameRules, h
  <2>13. Field(r, n)
    BY <2>9, <2>10, <2>12, <2>p DEF Field, SameRules, Untouched
  <2>. QED  BY <2>1, <2>12, <2>13
<1>. QED  BY <1>1, <1>2

\* The computer only turns player 2.
LEMMA TrainingSteps ==
  ASSUME NEW q \in Globals
  PROVE  Steps(q, training(q))
<1>. DEFINE middle == q.p2.y + (q.p2.height \div 2)
            d == IF q.ball.y + q.ball.size < middle THEN "UP" ELSE IF q.ball.y > middle THEN "DOWN" ELSE "STOP"
            p == [q.p2 EXCEPT !.direction = d]
            t == movePaddle(p)
<1>1. training(q) = [q EXCEPT !.p2 = t]
  BY DEF training
<1>2. d \in Directions /\ q.p2 \in Paddle
  BY DEF Directions, Globals
<1>. HIDE DEF d
<1>3. Moves(q.p2, p)
  BY <1>2, TurnPaddle
<1>. HIDE DEF p
<1>4. Moves(p, t)
  BY <1>3, PaddleMoves DEF Moves, SamePaddle
<1>. HIDE DEF t
<1>5. Moves(q.p2, t)
  BY <1>3, <1>4, MovesOn
<1>. QED  BY <1>1, <1>5, StepP2

\* Reading the keys, the computer and the paddles.
LEMMA SteerSteps ==
  ASSUME NEW q \in Globals, NEW E, NEW ks \in Seq(E), NEW tr \in BOOLEAN
  PROVE  LET steered == [q EXCEPT !.p1.direction = read_key(@, q.up1, q.down1, ks),
                                  !.p2.direction = IF tr THEN @ ELSE read_key(@, q.up2, q.down2, ks)]
             led == IF tr THEN training(steered) ELSE steered
         IN  Steps(q, [led EXCEPT !.p1 = movePaddle(@), !.p2 = movePaddle(@)])
<1>. DEFINE d1 == read_key(q.p1.direction, q.up1, q.down1, ks)
            d2 == IF tr THEN q.p2.direction ELSE read_key(q.p2.direction, q.up2, q.down2, ks)
            a1 == [q.p1 EXCEPT !.direction = d1]
            a2 == [q.p2 EXCEPT !.direction = d2]
            t1 == [q EXCEPT !.p1 = a1]
            t2 == [t1 EXCEPT !.p2 = a2]
            led == IF tr THEN training(t2) ELSE t2
            m1 == movePaddle(led.p1)
            m2 == movePaddle(led.p2)
            t3 == [led EXCEPT !.p1 = m1]
            t4 == [t3 EXCEPT !.p2 = m2]
<1>1. t2 = [q EXCEPT !.p1.direction = read_key(@, q.up1, q.down1, ks),
                     !.p2.direction = IF tr THEN @ ELSE read_key(@, q.up2, q.down2, ks)]
  OBVIOUS
<1>2. q.p1 \in Paddle /\ q.p2 \in Paddle /\ q.p1.direction \in Directions /\ q.p2.direction \in Directions
  BY DEF Globals, Paddle
<1>3. d1 \in Directions /\ d2 \in Directions
  BY <1>2, ReadKey
<1>. HIDE DEF d1, d2
<1>4. Moves(q.p1, a1) /\ Moves(q.p2, a2)
  BY <1>2, <1>3, TurnPaddle
<1>. HIDE DEF a1, a2
<1>5. Steps(q, t1) /\ t1 \in Globals /\ t1.p2 = q.p2
  <2>1. Steps(q, t1)
    BY <1>4, StepP1
  <2>2. t1.p2 = q.p2
    BY DEF Globals
  <2>. QED  BY <2>1, <2>2 DEF Steps
<1>. HIDE DEF t1
<1>6. Steps(t1, t2)
  BY <1>4, <1>5, StepP2
<1>. HIDE DEF t2
<1>7. Steps(q, t2) /\ t2 \in Globals
  BY <1>5, <1>6, StepsOn DEF Steps
<1>8. Steps(q, led) /\ led \in Globals
  <2>1. CASE tr
    BY <1>7, <2>1, TrainingSteps, StepsOn DEF Steps
  <2>2. CASE ~tr
    BY <1>7, <2>2
  <2>. QED  BY <2>1, <2>2
<1>9. t4 = [led EXCEPT !.p1 = movePaddle(@), !.p2 = movePaddle(@)]
  <2>. HIDE DEF led
  <2>. QED  OBVIOUS
<1>10. Steps(q, t4)
  <2>. HIDE DEF led
  <2>1. led.p1 \in Paddle /\ led.p2 \in Paddle
    BY <1>8 DEF Globals
  <2>2. Moves(led.p1, m1) /\ Moves(led.p2, m2)
    BY <2>1, PaddleMoves
  <2>. HIDE DEF m1, m2
  <2>3. Steps(led, t3)
    BY <1>8, <2>2, StepP1
  <2>4. t3.p2 = led.p2
    BY <1>8 DEF Globals
  <2>. HIDE DEF t3
  <2>5. t3 \in Globals
    BY <2>3 DEF Steps
  <2>6. Steps(t3, t4)
    BY <2>2, <2>4, <2>5, StepP2
  <2>. QED  BY <1>8, <2>3, <2>6, StepsOn
<1>. QED  BY <1>1, <1>9, <1>10

\* A frame of the game.
LEMMA FrameField ==
  ASSUME NEW q, NEW n, Field(q, n), NEW E, NEW ks \in Seq(E), loc.Training \in BOOLEAN
  PROVE  Field(FrameOf(q, ks), n) /\ BallHigh(FrameOf(q, ks), n)
<1>. DEFINE tr == loc.Training
            steered == [q EXCEPT !.p1.direction = read_key(@, q.up1, q.down1, ks),
                                 !.p2.direction = IF tr THEN @ ELSE read_key(@, q.up2, q.down2, ks)]
            led == IF tr THEN training(steered) ELSE steered
            t == [led EXCEPT !.p1 = movePaddle(@), !.p2 = movePaddle(@)]
<1>1. FrameOf(q, ks) = move_ball(t)
  BY DEF FrameOf
<1>2. Steps(q, t)
  BY SteerSteps DEF Field
<1>. HIDE DEF t
<1>3. Field(t, n)
  BY <1>2, StepsField
<1>. QED  BY <1>1, <1>3, MoveBall

-----------------------------------------------------------------------------
(* The configuration. *)

\* What an option may change: speeds, sizes, keys and the score to win.
Adjusted(q, r) == /\ r \in Globals /\ SameScores(q, r) /\ r.BALL_SPEED_HORIZONTAL = 2 * r.BALL_SPEED
                  /\ r.p1.y = q.p1.y /\ r.p2.y = q.p2.y /\ r.ball.x = q.ball.x /\ r.ball.y = q.ball.y
                  /\ r.ball.speedY = q.ball.speedY
                  /\ (r.ball.speedX = q.ball.speedX /\ r.BALL_SPEED = q.BALL_SPEED) \/ r.ball.speedX = r.BALL_SPEED

\* A paddle of another size or speed that has not moved.
LEMMA PaddleOption ==
  ASSUME NEW p \in Paddle, NEW r \in Paddle, r.y = p.y, NEW n \in Nat, PaddleSafe(p, n)
  PROVE  PaddleSafe(r, n + 1)
<1>1. CASE n = 0
  <2>1. InField(p) /\ p.height = PADDLE_HEIGHT
    BY <1>1, FieldAssumption, Dimensions DEF PaddleSafe
  <2>2. r.height =< PADDLE_HEIGHT => InField(r)
    BY <2>1, Dimensions DEF InField, Paddle
  <2>. QED  BY <1>1, <2>2 DEF PaddleSafe
<1>2. CASE n > 0
  BY <1>2 DEF PaddleSafe
<1>. QED  BY <1>1, <1>2

\* An option leaves a field, with one more option counted.
LEMMA AdjustedField ==
  ASSUME NEW q, NEW n \in Nat, Field(q, n), NEW r, Adjusted(q, r)
  PROVE  Field(r, n + 1)
<1>0. q \in Globals /\ r \in Globals /\ q.p1 \in Paddle /\ q.p2 \in Paddle /\ r.p1 \in Paddle /\ r.p2 \in Paddle
  BY DEF Field, Adjusted, Globals
<1>1. PaddleSafe(r.p1, n + 1) /\ PaddleSafe(r.p2, n + 1)
  BY <1>0, PaddleOption DEF Field, Adjusted
<1>2. ASSUME n + 1 =< 1, Slow(r) PROVE BallLow(r.ball)
  <2>1. n = 0
    BY <1>2
  <2>2. q.BALL_SPEED = InitialBallSpeed /\ q.ball.size = BALL_SIZE /\ q.BALL_SPEED_HORIZONTAL = 2 * q.BALL_SPEED
    BY <2>1 DEF Field, Untouched
  <2>3. Slow(q)
    BY <2>2, FieldAssumption DEF Slow
  <2>4. BallLow(q.ball)
    BY <2>1, <2>3 DEF Field, BallSafe
  <2>5. r.BALL_SPEED \in Nat /\ 2 * r.BALL_SPEED =< BORDER_SIZE
    BY <1>0, <1>2 DEF Slow, Adjusted, Globals
  <2>6. Gentle(r.BALL_SPEED)
    BY <2>5, Dimensions DEF Gentle, Within
  <2>. QED  BY <2>4, <2>6 DEF Adjusted, BallLow
<1>3. BallSafe(r, n + 1)
  BY <1>2 DEF BallSafe
<1>4. Untouched(r, n + 1)
  BY DEF Untouched
<1>5. Paced(r)
  <2>1. r.BALL_SPEED \in Nat /\ r.BALL_SPEED_HORIZONTAL = 2 * r.BALL_SPEED
    BY <1>0 DEF Globals, Adjusted
  <2>2. CASE r.ball.speedX = r.BALL_SPEED
    BY <2>1, <2>2 DEF Paced, Within
  <2>3. CASE r.ball.speedX = q.ball.speedX /\ r.BALL_SPEED = q.BALL_SPEED
    BY <2>1, <2>3 DEF Field, Paced
  <2>. QED  BY <2>2, <2>3 DEF Adjusted
<1>. QED  BY <1>0, <1>1, <1>3, <1>4, <1>5 DEF Field, Adjusted

\* One number.
LEMMA SetNumberAdjusts ==
  ASSUME NEW q \in Globals, NEW t, Adjusted(q, t), NEW o \in {"1", "2", "4", "6", "6b", "7", "S"}, NEW k \in Int
  PROVE  Adjusted(q, SetNumber(t, o, k))
<1>. DEFINE r == SetNumber(t, o, k)
<1>0. t \in Globals
  BY DEF Adjusted
<1>1. ASSUME ~Accept(k) PROVE Adjusted(q, r)
  <2>1. r = t
    BY <1>1 DEF SetNumber
  <2>. QED  BY <2>1
<1>2. ASSUME Accept(k) PROVE Adjusted(q, r)
  <2>0. k \in Nat \ {0}
    BY <1>2 DEF Accept
  <2>1. ASSUME o = "1" PROVE Adjusted(q, r)
    <3>. DEFINE h == 2 * k
                t1 == [t EXCEPT !.BALL_SPEED_HORIZONTAL = h]
                t2 == [t1 EXCEPT !.BALL_SPEED = k]
                b == [t.ball EXCEPT !.speedX = k]
                t3 == [t2 EXCEPT !.ball = b]
    <3>1. r = t3
      BY <1>2, <2>1 DEF SetNumber
    <3>2. h \in Nat \ {0} /\ h = 2 * k
      BY <2>0
    <3>. HIDE DEF h, r
    <3>3. t1 \in Globals /\ SameScores(t, t1) /\ t1.BALL_SPEED_HORIZONTAL = h /\ t1.p1 = t.p1 /\ t1.p2 = t.p2
      BY <1>0, <3>2 DEF Globals, SameScores
    <3>. HIDE DEF t1
    <3>4. t2 \in Globals /\ SameScores(t, t2) /\ t2.BALL_SPEED_HORIZONTAL = h /\ t2.BALL_SPEED = k /\ t2.p1 = t.p1 /\ t2.p2 = t.p2
      BY <2>0, <3>3 DEF Globals, SameScores
    <3>. HIDE DEF t2
    <3>5. b \in Ball /\ b.x = t.ball.x /\ b.y = t.ball.y /\ b.speedX = k /\ b.speedY = t.ball.speedY
      BY <1>0, <2>0 DEF Globals, Ball
    <3>. HIDE DEF b
    <3>6. t3 \in Globals /\ t3.ball = b /\ t3.p1 = t2.p1 /\ t3.p2 = t2.p2 /\ SameRules(t2, t3) /\ SameScores(t2, t3)
      BY <3>4, <3>5, SetBall
    <3>. HIDE DEF t3
    <3>. QED  BY <3>1, <3>2, <3>3, <3>4, <3>5, <3>6 DEF Adjusted, SameScores, SameRules
  <2>2. ASSUME o = "2" PROVE Adjusted(q, r)
    <3>. DEFINE p == [t.p1 EXCEPT !.speed = k]
                s == [t.p2 EXCEPT !.speed = k]
                t1 == [t EXCEPT !.p1 = p]
                t2 == [t1 EXCEPT !.p2 = s]
    <3>1. r = t2
      BY <1>2, <2>2 DEF SetNumber
    <3>. HIDE DEF r
    <3>2. p \in Paddle /\ p.y = t.p1.y /\ s \in Paddle /\ s.y = t.p2.y
      BY <1>0, <2>0 DEF Globals, Paddle
    <3>. HIDE DEF p, s
    <3>3. t1 \in Globals /\ t1.p1 = p /\ t1.p2 = t.p2 /\ t1.ball = t.ball /\ SameRules(t, t1) /\ SameScores(t, t1)
      BY <1>0, <3>2, SetP1
    <3>. HIDE DEF t1
    <3>4. t2 \in Globals /\ t2.p2 = s /\ t2.p1 = t1.p1 /\ t2.ball = t1.ball /\ SameRules(t1, t2) /\ SameScores(t1, t2)
      BY <3>2, <3>3, SetP2
    <3>. HIDE DEF t2
    <3>. QED  BY <3>1, <3>2, <3>3, <3>4 DEF Adjusted, SameScores, SameRules
  <2>3. ASSUME o = "4" PROVE Adjusted(q, r)
    <3>. DEFINE b == [t.ball EXCEPT !.size = k]
                t1 == [t EXCEPT !.ball = b]
    <3>1. r = t1
      BY <1>2, <2>3 DEF SetNumber
    <3>. HIDE DEF r
    <3>2. b \in Ball /\ b.x = t.ball.x /\ b.y = t.ball.y /\ b.speedX = t.ball.speedX /\ b.speedY = t.ball.speedY
      BY <1>0, <2>0 DEF Globals, Ball
    <3>. HIDE DEF b
    <3>3. t1 \in Globals /\ t1.ball = b /\ t1.p1 = t.p1 /\ t1.p2 = t.p2 /\ SameRules(t, t1) /\ SameScores(t, t1)
      BY <1>0, <3>2, SetBall
    <3>. HIDE DEF t1
    <3>. QED  BY <3>1, <3>2, <3>3 DEF Adjusted, SameScores, SameRules
  <2>4. ASSUME NEW p \in Paddle, p.y = t.p1.y, r = [t EXCEPT !.p1 = p] PROVE Adjusted(q, r)
    <3>. DEFINE t1 == [t EXCEPT !.p1 = p]
    <3>3. t1 \in Globals /\ t1.p1 = p /\ t1.p2 = t.p2 /\ t1.ball = t.ball /\ SameRules(t, t1) /\ SameScores(t, t1)
      BY <1>0, SetP1
    <3>. HIDE DEF t1, r
    <3>1. r = t1
      BY <2>4 DEF t1
    <3>. QED  BY <2>4, <3>1, <3>3 DEF Adjusted, SameScores, SameRules
  <2>5. ASSUME o = "6" PROVE Adjusted(q, r)
    <3>. DEFINE p == [t.p1 EXCEPT !.height = k]
    <3>1. r = [t EXCEPT !.p1 = p]
      BY <1>2, <2>5 DEF SetNumber
    <3>2. p \in Paddle /\ p.y = t.p1.y
      BY <1>0, <2>0 DEF Globals, Paddle
    <3>. HIDE DEF p, r
    <3>. QED  BY <2>4, <3>1, <3>2
  <2>6. ASSUME o = "7" PROVE Adjusted(q, r)
    <3>. DEFINE p == [t.p1 EXCEPT !.width = k]
    <3>1. r = [t EXCEPT !.p1 = p]
      BY <1>2, <2>6 DEF SetNumber
    <3>2. p \in Paddle /\ p.y = t.p1.y
      BY <1>0, <2>0 DEF Globals, Paddle
    <3>. HIDE DEF p, r
    <3>. QED  BY <2>4, <3>1, <3>2
  <2>7. ASSUME o = "6b" PROVE Adjusted(q, r)
    <3>. DEFINE p == [t.p2 EXCEPT !.height = k]
                t1 == [t EXCEPT !.p2 = p]
    <3>1. r = t1
      BY <1>2, <2>7 DEF SetNumber
    <3>. HIDE DEF r
    <3>2. p \in Paddle /\ p.y = t.p2.y
      BY <1>0, <2>0 DEF Globals, Paddle
    <3>. HIDE DEF p
    <3>3. t1 \in Globals /\ t1.p2 = p /\ t1.p1 = t.p1 /\ t1.ball = t.ball /\ SameRules(t, t1) /\ SameScores(t, t1)
      BY <1>0, <3>2, SetP2
    <3>. HIDE DEF t1
    <3>. QED  BY <3>1, <3>2, <3>3 DEF Adjusted, SameScores, SameRules
  <2>8. ASSUME o = "S" PROVE Adjusted(q, r)
    <3>. DEFINE t1 == [t EXCEPT !.score = k]
    <3>1. r = t1
      BY <1>2, <2>8 DEF SetNumber
    <3>. HIDE DEF r
    <3>2. /\ t1 \in Globals /\ SameScores(t, t1) /\ t1.p1 = t.p1 /\ t1.p2 = t.p2 /\ t1.ball = t.ball
          /\ t1.BALL_SPEED = t.BALL_SPEED /\ t1.BALL_SPEED_HORIZONTAL = t.BALL_SPEED_HORIZONTAL
      BY <1>0, <2>0 DEF Globals, SameScores
    <3>. HIDE DEF t1
    <3>. QED  BY <3>1, <3>2 DEF Adjusted, SameScores
  <2>. HIDE DEF r
  <2>. QED  BY <2>1, <2>2, <2>3, <2>5, <2>6, <2>7, <2>8
<1>. QED  BY <1>1, <1>2

\* Two keys.
LEMMA SetKeysAdjusts ==
  ASSUME NEW q \in Globals, q.BALL_SPEED_HORIZONTAL = 2 * q.BALL_SPEED,
         NEW o, NEW c \in Rebinds, NEW d \in Rebinds
  PROVE  Adjusted(q, SetKeys(q, o, c, d))
<1>. DEFINE r == SetKeys(q, o, c, d)
<1>1. \A old \in KeyNames, e \in Rebinds : Bound(old, e) \in KeyNames
  BY DEF Bound, ascii_to_key_code, KeyNames
<1>2. q.up1 \in KeyNames /\ q.down1 \in KeyNames /\ q.up2 \in KeyNames /\ q.down2 \in KeyNames
  BY DEF Globals
<1>3. CASE o = "C"
  <2>. DEFINE a == Bound(q.up1, c)
              b == Bound(q.down1, d)
              t1 == [q EXCEPT !.up1 = a]
              t2 == [t1 EXCEPT !.down1 = b]
  <2>1. r = t2
    BY <1>3 DEF SetKeys
  <2>2. a \in KeyNames /\ b \in KeyNames
    BY <1>1, <1>2
  <2>. HIDE DEF a, b, r
  <2>3. /\ t1 \in Globals /\ SameScores(q, t1) /\ t1.p1 = q.p1 /\ t1.p2 = q.p2 /\ t1.ball = q.ball
        /\ t1.BALL_SPEED = q.BALL_SPEED /\ t1.BALL_SPEED_HORIZONTAL = q.BALL_SPEED_HORIZONTAL
    BY <2>2 DEF Globals, SameScores
  <2>. HIDE DEF t1
  <2>4. /\ t2 \in Globals /\ SameScores(q, t2) /\ t2.p1 = q.p1 /\ t2.p2 = q.p2 /\ t2.ball = q.ball
        /\ t2.BALL_SPEED = q.BALL_SPEED /\ t2.BALL_SPEED_HORIZONTAL = q.BALL_SPEED_HORIZONTAL
    BY <2>2, <2>3 DEF Globals, SameScores
  <2>. HIDE DEF t2
  <2>5. Adjusted(q, r)
    BY <2>1, <2>4 DEF Adjusted
  <2>. QED  BY <2>5 DEF r
<1>4. CASE o # "C"
  <2>. DEFINE a == Bound(q.up2, c)
              b == Bound(q.down2, d)
              t1 == [q EXCEPT !.up2 = a]
              t2 == [t1 EXCEPT !.down2 = b]
  <2>1. r = t2
    BY <1>4 DEF SetKeys
  <2>2. a \in KeyNames /\ b \in KeyNames
    BY <1>1, <1>2
  <2>. HIDE DEF a, b, r
  <2>3. /\ t1 \in Globals /\ SameScores(q, t1) /\ t1.p1 = q.p1 /\ t1.p2 = q.p2 /\ t1.ball = q.ball
        /\ t1.BALL_SPEED = q.BALL_SPEED /\ t1.BALL_SPEED_HORIZONTAL = q.BALL_SPEED_HORIZONTAL
    BY <2>2 DEF Globals, SameScores
  <2>. HIDE DEF t1
  <2>4. /\ t2 \in Globals /\ SameScores(q, t2) /\ t2.p1 = q.p1 /\ t2.p2 = q.p2 /\ t2.ball = q.ball
        /\ t2.BALL_SPEED = q.BALL_SPEED /\ t2.BALL_SPEED_HORIZONTAL = q.BALL_SPEED_HORIZONTAL
    BY <2>2, <2>3 DEF Globals, SameScores
  <2>. HIDE DEF t2
  <2>5. Adjusted(q, r)
    BY <2>1, <2>4 DEF Adjusted
  <2>. QED  BY <2>5 DEF r
<1>. QED  BY <1>3, <1>4

\* The globals before the first defaults, which the image holds as zeros.
RawPaddles == Paddle \cup {0}
RawBalls == Ball \cup {0}
RawKeys == KeyNames \cup {""}
Raw == [p1 : RawPaddles, p2 : RawPaddles, ball : RawBalls, up1 : RawKeys, down1 : RawKeys, up2 : RawKeys, down2 : RawKeys,
        BALL_SPEED : Nat \ {0}, BALL_SPEED_HORIZONTAL : Nat \ {0}, score : Nat \ {0}, s1 : Nat, s2 : Nat]

\* Zeroed memory holds more than the globals do.
LEMMA RawSets == Paddle \subseteq RawPaddles /\ Ball \subseteq RawBalls /\ KeyNames \subseteq RawKeys
  BY Zenon DEF RawPaddles, RawBalls, RawKeys

\* The globals are among the contents of that memory.
LEMMA GlobalsRaw == Globals \subseteq Raw
  BY RawSets DEF Globals, Raw

\* A default paddle is in the middle of the screen.
LEMMA DefaultPaddle ==
  ASSUME NEW px \in Int, NEW n
  PROVE  set_paddle(px) \in Paddle /\ PaddleSafe(set_paddle(px), n)
<1>. DEFINE p == set_paddle(px)
            y == (SCREEN_HEIGHT \div 2) - (PADDLE_HEIGHT \div 2)
<1>1. y \in Int /\ BORDER_SIZE =< y /\ y + PADDLE_HEIGHT =< SCREEN_HEIGHT - BORDER_SIZE
  BY Dimensions, FieldAssumption, Middle
<1>. HIDE DEF y
<1>2. p = [x |-> px, y |-> y, width |-> PADDLE_WIDTH, height |-> PADDLE_HEIGHT, speed |-> PADDLE_SPEED, direction |-> "STOP"]
  BY DEF set_paddle, y
<1>. HIDE DEF p
<1>3. p \in Paddle
  BY <1>1, <1>2, Dimensions DEF Paddle, Directions
<1>4. p.y = y /\ p.height = PADDLE_HEIGHT /\ p.speed = PADDLE_SPEED
  BY <1>2
<1>5. PaddleSafe(p, n)
  BY <1>1, <1>4 DEF PaddleSafe, InField
<1>. QED  BY <1>3, <1>5 DEF p

\* A default ball is inside the field.
LEMMA DefaultBall ==
  ASSUME NEW v \in Nat \ {0}
  PROVE  LET b == set_ball(v) IN b \in Ball /\ b.size = BALL_SIZE /\ b.speedX = v /\ (2 * v =< BORDER_SIZE => BallLow(b))
<1>. DEFINE b == set_ball(v)
            x == (SCREEN_WIDTH \div 2) - (BALL_SIZE \div 2)
            y == (SCREEN_HEIGHT \div 2) - (BALL_SIZE \div 2)
<1>0. BALL_SIZE + 2 * BORDER_SIZE < SCREEN_HEIGHT /\ BALL_SIZE + 2 * BORDER_SIZE < SCREEN_WIDTH
  BY Dimensions, FieldAssumption DEF BallFits
<1>1. x \in Int /\ BORDER_SIZE =< x
  BY <1>0, Dimensions, Middle
<1>2. y \in Int /\ BORDER_SIZE =< y
  BY <1>0, Dimensions, Middle
<1>3. b = [x |-> x, y |-> y, size |-> BALL_SIZE, speedX |-> v, speedY |-> v]
  BY DEF set_ball
<1>. HIDE DEF x, y, b
<1>4. b \in Ball
  BY <1>1, <1>2, <1>3, Dimensions DEF Ball
<1>5. b.x = x /\ b.y = y /\ b.size = BALL_SIZE /\ b.speedX = v /\ b.speedY = v
  BY <1>3
<1>6. 2 * v =< BORDER_SIZE => Gentle(v)
  BY Dimensions DEF Gentle, Within
<1>7. b \in Ball /\ b.size = BALL_SIZE /\ b.speedX = v /\ (2 * v =< BORDER_SIZE => BallLow(b))
  BY <1>1, <1>2, <1>4, <1>5, <1>6 DEF BallLow
<1>. QED  BY <1>7 DEF b

\* The default values, over whatever was there.
LEMMA DefaultsField ==
  ASSUME NEW q \in Raw, q.BALL_SPEED_HORIZONTAL = 2 * q.BALL_SPEED, NEW n, n = 0 => q.BALL_SPEED = InitialBallSpeed
  PROVE  LET r == Defaults(q) IN Field(r, n) /\ SameScores(q, r) /\ r.score = q.score
<1>. DEFINE pa == set_paddle(PADDLE_X)
            pb == set_paddle(SCREEN_WIDTH - PADDLE_X - PADDLE_WIDTH)
            b == set_ball(q.BALL_SPEED)
            q1 == [q EXCEPT !.p1 = pa]
            q2 == [q1 EXCEPT !.p2 = pb]
            q3 == [q2 EXCEPT !.ball = b]
            q4 == [q3 EXCEPT !.up1 = "W"]
            q5 == [q4 EXCEPT !.down1 = "S"]
            q6 == [q5 EXCEPT !.up2 = "^"]
            r == [q6 EXCEPT !.down2 = "v"]
<1>1. Defaults(q) = r
  BY DEF Defaults
<1>2. pa \in Paddle /\ PaddleSafe(pa, n) /\ pb \in Paddle /\ PaddleSafe(pb, n)
  <2>1. PADDLE_X \in Int /\ SCREEN_WIDTH - PADDLE_X - PADDLE_WIDTH \in Int
    BY Dimensions
  <2>. QED  BY <2>1, DefaultPaddle
<1>3. b \in Ball /\ b.size = BALL_SIZE /\ b.speedX = q.BALL_SPEED /\ (2 * q.BALL_SPEED =< BORDER_SIZE => BallLow(b))
  <2>1. q.BALL_SPEED \in Nat \ {0}
    BY DEF Raw
  <2>. QED  BY <2>1, DefaultBall
<1>. HIDE DEF pa, pb, b
<1>r. pa \in RawPaddles /\ pb \in RawPaddles /\ b \in RawBalls
  BY <1>2, <1>3, RawSets, Zenon
<1>. DEFINE Kept(t) == /\ t \in Raw /\ SameScores(q, t) /\ t.score = q.score /\ t.BALL_SPEED = q.BALL_SPEED
                       /\ t.BALL_SPEED_HORIZONTAL = q.BALL_SPEED_HORIZONTAL
<1>4. Kept(q1) /\ q1.p1 = pa
  BY <1>r DEF Raw, SameScores
<1>. HIDE DEF q1
<1>5. Kept(q2) /\ q2.p1 = pa /\ q2.p2 = pb
  BY <1>r, <1>4 DEF Raw, SameScores
<1>. HIDE DEF q2
<1>6. Kept(q3) /\ q3.p1 = pa /\ q3.p2 = pb /\ q3.ball = b
  BY <1>r, <1>5 DEF Raw, SameScores
<1>. HIDE DEF q3
<1>k. /\ "W" \in KeyNames /\ "S" \in KeyNames /\ "^" \in KeyNames /\ "v" \in KeyNames
      /\ "W" \in RawKeys /\ "S" \in RawKeys /\ "^" \in RawKeys /\ "v" \in RawKeys
  BY Zenon DEF KeyNames, RawKeys
<1>7. Kept(q4) /\ q4.p1 = pa /\ q4.p2 = pb /\ q4.ball = b /\ q4.up1 \in KeyNames
  BY <1>k, <1>6 DEF Raw, SameScores
<1>. HIDE DEF q4
<1>8. Kept(q5) /\ q5.p1 = pa /\ q5.p2 = pb /\ q5.ball = b /\ q5.up1 \in KeyNames /\ q5.down1 \in KeyNames
  BY <1>k, <1>7 DEF Raw, SameScores
<1>. HIDE DEF q5
<1>9. /\ Kept(q6) /\ q6.p1 = pa /\ q6.p2 = pb /\ q6.ball = b /\ q6.up1 \in KeyNames /\ q6.down1 \in KeyNames
      /\ q6.up2 \in KeyNames
  BY <1>k, <1>8 DEF Raw, SameScores
<1>. HIDE DEF q6
<1>10. /\ Kept(r) /\ r.p1 = pa /\ r.p2 = pb /\ r.ball = b /\ r.up1 \in KeyNames /\ r.down1 \in KeyNames
       /\ r.up2 \in KeyNames /\ r.down2 \in KeyNames
  BY <1>k, <1>9 DEF Raw, SameScores
<1>. HIDE DEF r
<1>11. r \in Globals
  BY <1>2, <1>3, <1>10 DEF Raw, Globals
<1>12. BallSafe(r, n) /\ Untouched(r, n)
  BY <1>3, <1>10 DEF BallSafe, Untouched, Slow
<1>p. Paced(r)
  <2>1. q.BALL_SPEED \in Nat
    BY DEF Raw
  <2>. QED  BY <1>3, <1>10, <2>1 DEF Paced, Within
<1>13. Field(r, n) /\ SameScores(q, r) /\ r.score = q.score
  BY <1>2, <1>10, <1>11, <1>12, <1>p DEF Field
<1>. QED  BY <1>1, <1>13

\* The defaults over the globals of an earlier run.
LEMMA DefaultsAgain ==
  ASSUME NEW q, NEW n, Field(q, n)
  PROVE  Field(Defaults(q), n) /\ SameScores(q, Defaults(q))
<1>1. q \in Raw /\ q.BALL_SPEED_HORIZONTAL = 2 * q.BALL_SPEED /\ (n = 0 => q.BALL_SPEED = InitialBallSpeed)
  BY GlobalsRaw DEF Field, Untouched
<1>. QED  BY <1>1, DefaultsField

\* The globals after the defaults that the first run sets.
LEMMA LoadedField == Field(Loaded, 0) /\ Loaded.s1 = 0 /\ Loaded.s2 = 0
<1>. DEFINE q == [p1 |-> 0, p2 |-> 0, ball |-> 0, up1 |-> "", down1 |-> "", up2 |-> "", down2 |-> "",
                  BALL_SPEED |-> InitialBallSpeed, BALL_SPEED_HORIZONTAL |-> 2 * InitialBallSpeed,
                  score |-> InitialScore, s1 |-> 0, s2 |-> 0]
            r == Defaults(q)
<1>1. q \in Raw
  <2>1. 0 \in RawPaddles /\ 0 \in RawBalls /\ "" \in RawKeys
    BY Zenon DEF RawPaddles, RawBalls, RawKeys
  <2>2. ASSUME NEW P \in RawPaddles, NEW B \in RawBalls, NEW K \in RawKeys, NEW v \in Nat \ {0}, NEW h \in Nat \ {0},
               NEW sc \in Nat \ {0}, NEW a \in Nat
        PROVE  [p1 |-> P, p2 |-> P, ball |-> B, up1 |-> K, down1 |-> K, up2 |-> K, down2 |-> K, BALL_SPEED |-> v,
                BALL_SPEED_HORIZONTAL |-> h, score |-> sc, s1 |-> a, s2 |-> a] \in Raw
    BY DEF Raw
  <2>3. InitialBallSpeed \in Nat \ {0} /\ 2 * InitialBallSpeed \in Nat \ {0} /\ InitialScore \in Nat \ {0} /\ 0 \in Nat
    BY Dimensions
  <2>. QED  BY <2>1, <2>2, <2>3, Zenon
<1>2. q.BALL_SPEED_HORIZONTAL = 2 * q.BALL_SPEED /\ q.BALL_SPEED = InitialBallSpeed /\ q.s1 = 0 /\ q.s2 = 0
  OBVIOUS
<1>3. Loaded = r
  BY DEF Loaded
<1>. HIDE DEF q
<1>4. Field(r, 0) /\ SameScores(q, r)
  BY <1>1, <1>2, DefaultsField
<1>. HIDE DEF r
<1>. QED  BY <1>2, <1>3, <1>4 DEF SameScores

\* A number typed into the configuration is an integer.
LEMMA TypedNumber ==
  ASSUME NEW o \in {"1", "2", "4", "6", "7", "S"}, NEW w \in Entries[o]
  PROVE  get_number(w) \in Int
<1>1. w \in Seq(Int)
  BY PongAssumption
<1>. QED  BY <1>1, GetNumber

\* Any option of the configuration.
LEMMA ChosenField ==
  ASSUME NEW q, NEW n \in Nat, Field(q, n), NEW r \in Chosen(q)
  PROVE  Field(r, n + 1) /\ SameScores(q, r)
<1>0. q \in Globals /\ q.BALL_SPEED_HORIZONTAL = 2 * q.BALL_SPEED /\ Adjusted(q, q)
  BY DEF Field, Adjusted, SameScores
<1>1. \A t : Adjusted(q, t) => Field(t, n + 1) /\ SameScores(q, t)
  BY AdjustedField DEF Adjusted
<1>2. ASSUME NEW o \in {"1", "2", "4"}, NEW w \in Entries[o], r = SetNumber(q, o, get_number(w))
      PROVE  Field(r, n + 1) /\ SameScores(q, r)
  <2>1. get_number(w) \in Int
    BY TypedNumber
  <2>2. Adjusted(q, r)
    BY <1>0, <1>2, <2>1, SetNumberAdjusts
  <2>. QED  BY <1>1, <2>2
<1>3. ASSUME NEW v \in Entries["6"], NEW w \in Entries["6"],
             r = SetNumber(SetNumber(q, "6", get_number(w)), "6b", get_number(v))
      PROVE  Field(r, n + 1) /\ SameScores(q, r)
  <2>1. get_number(w) \in Int /\ get_number(v) \in Int
    BY TypedNumber
  <2>. DEFINE t == SetNumber(q, "6", get_number(w))
  <2>2. Adjusted(q, t)
    BY <1>0, <2>1, SetNumberAdjusts
  <2>. HIDE DEF t
  <2>3. Adjusted(q, SetNumber(t, "6b", get_number(v)))
    BY <1>0, <2>1, <2>2, SetNumberAdjusts
  <2>. QED  BY <1>1, <1>3, <2>3 DEF t
<1>4. ASSUME NEW v \in Entries["7"], NEW w \in Entries["7"],
             r = SetNumber(SetNumber(q, "7", get_number(w)), "7", get_number(v))
      PROVE  Field(r, n + 1) /\ SameScores(q, r)
  <2>1. get_number(w) \in Int /\ get_number(v) \in Int
    BY TypedNumber
  <2>. DEFINE t == SetNumber(q, "7", get_number(w))
  <2>2. Adjusted(q, t)
    BY <1>0, <2>1, SetNumberAdjusts
  <2>. HIDE DEF t
  <2>3. Adjusted(q, SetNumber(t, "7", get_number(v)))
    BY <1>0, <2>1, <2>2, SetNumberAdjusts
  <2>. QED  BY <1>1, <1>4, <2>3 DEF t
<1>5. ASSUME NEW o \in {"C", "K"}, NEW c \in Rebinds, NEW d \in Rebinds, r = SetKeys(q, o, c, d)
      PROVE  Field(r, n + 1) /\ SameScores(q, r)
  BY <1>0, <1>1, <1>5, SetKeysAdjusts
<1>6. ASSUME NEW w \in Entries["S"], r = Defaults(SetNumber(q, "S", get_number(w)))
      PROVE  Field(r, n + 1) /\ SameScores(q, r)
  <2>1. get_number(w) \in Int
    BY TypedNumber
  <2>. DEFINE t == SetNumber(q, "S", get_number(w))
  <2>2. Adjusted(q, t)
    BY <1>0, <2>1, SetNumberAdjusts
  <2>. HIDE DEF t
  <2>3. Field(t, n + 1) /\ SameScores(q, t)
    BY <1>1, <2>2
  <2>4. Field(Defaults(t), n + 1) /\ SameScores(t, Defaults(t))
    BY <2>3, DefaultsAgain
  <2>. QED  BY <1>6, <2>3, <2>4 DEF t, SameScores
<1>7. ASSUME r = Defaults(q) PROVE Field(r, n + 1) /\ SameScores(q, r)
  <2>1. Field(q, n + 1)
    BY <1>0, <1>1
  <2>. QED  BY <1>7, <2>1, DefaultsAgain
<1>. DEFINE A1 == UNION {{SetNumber(q, o, get_number(w)) : w \in Entries[o]} : o \in {"1", "2", "4"}}
            A2 == {SetNumber(SetNumber(q, "6", get_number(w)), "6b", get_number(v)) : v, w \in Entries["6"]}
            A3 == {SetNumber(SetNumber(q, "7", get_number(w)), "7", get_number(v)) : v, w \in Entries["7"]}
            A4 == {SetKeys(q, o, c, d) : o \in {"C", "K"}, c, d \in Rebinds}
            A5 == {Defaults(SetNumber(q, "S", get_number(w))) : w \in Entries["S"]}
<1>8. r \in A1 \/ r \in A2 \/ r \in A3 \/ r \in A4 \/ r \in A5 \/ r = Defaults(q)
  <2>1. Chosen(q) = A1 \cup A2 \cup A3 \cup A4 \cup A5 \cup {Defaults(q)}
    BY DEF Chosen
  <2>. HIDE DEF A1, A2, A3, A4, A5
  <2>. QED  BY <2>1
<1>9. /\ r \in A1 => \E o \in {"1", "2", "4"} : \E w \in Entries[o] : r = SetNumber(q, o, get_number(w))
  OBVIOUS
<1>10. r \in A2 => \E v, w \in Entries["6"] : r = SetNumber(SetNumber(q, "6", get_number(w)), "6b", get_number(v))
  OBVIOUS
<1>11. r \in A3 => \E v, w \in Entries["7"] : r = SetNumber(SetNumber(q, "7", get_number(w)), "7", get_number(v))
  OBVIOUS
<1>12. r \in A4 => \E o \in {"C", "K"} : \E c, d \in Rebinds : r = SetKeys(q, o, c, d)
  OBVIOUS
<1>13. r \in A5 => \E w \in Entries["S"] : r = Defaults(SetNumber(q, "S", get_number(w)))
  OBVIOUS
<1>. HIDE DEF A1, A2, A3, A4, A5
<1>. QED  BY <1>2, <1>3, <1>4, <1>5, <1>6, <1>7, <1>8, <1>9, <1>10, <1>11, <1>12, <1>13, Zenon

-----------------------------------------------------------------------------
(* Every step of the game. *)

KeysOfPong == {"C", "T", "A", "P", "X", "R", "W", "S", "^", "v", "Z"}
Events == [key : KeysOfPong, make : BOOLEAN]
Locs == [Training : BOOLEAN, c : BOOLEAN, pending : Seq(Events), caller : {"menu", "pause"},
         options : 0 .. MaxConfig, left : BOOLEAN]
Phases == {"off", "refresh", "menu", "config", "play", "pause", "over", "returned"}

\* Nobody has won yet; between matches nobody has scored.
Scores(p, q, l) ==
  ~l.left => /\ p \in {"play", "pause"} => ~Over(q)
             /\ p \in {"off", "refresh", "menu", "returned"} \/ (p = "config" /\ l.caller = "menu") => q.s1 = 0 /\ q.s2 = 0

\* The cursor is in the corner outside the configuration, and the default font
\* is back wherever the game can be left.
Drawn(p, s) == /\ s \in Screens
               /\ p \notin {"off", "config"} => s.x = 0 /\ s.y = 0
               /\ p \in {"pause", "over", "returned"} => s.size = DEFAULT_FONT_SIZE

\* The inductive invariant, on the values of ph, g, loc and scr.
Good(p, q, l, s) == /\ p \in Phases /\ l \in Locs /\ Drawn(p, s)
                    /\ Field(q, l.options) /\ (p = "play" => BallHigh(q, l.options)) /\ Scores(p, q, l)

PongInv == Good(ph, g, loc, scr)

\* The key events of a frame have a key and a kind.
LEMMA EventOK ==
  ASSUME NEW k \in KeysOfPong, NEW b \in BOOLEAN
  PROVE  Event(k, b) \in Events /\ <<Event(k, b)>> \in Seq(Events)
<1>1. Event(k, b) \in Events
  BY DEF Event, Events
<1>2. \A e \in Events : <<e>> \in Seq(Events)
  OBVIOUS
<1>. QED  BY <1>1, <1>2, Zenon

\* Assignments to the locals.
LocsSame(l, r) == r \in Locs /\ r.options = l.options /\ r.caller = l.caller /\ (r.left => l.left) /\ (l.left => r.left)

\* The key c is set.
LEMMA SetC ==
  ASSUME NEW l \in Locs, NEW b \in BOOLEAN
  PROVE  LocsSame(l, [l EXCEPT !.c = b])
  BY DEF Locs, LocsSame

\* The pending events are set.
LEMMA SetPending ==
  ASSUME NEW l \in Locs, NEW w \in Seq(Events)
  PROVE  LocsSame(l, [l EXCEPT !.pending = w])
  BY DEF Locs, LocsSame

\* The kind of match is set.
LEMMA SetTraining ==
  ASSUME NEW l \in Locs, NEW b \in BOOLEAN
  PROVE  LocsSame(l, [l EXCEPT !.Training = b])
  BY DEF Locs, LocsSame

\* The screen that entered the configuration is set.
LEMMA SetCaller ==
  ASSUME NEW l \in Locs, NEW b \in {"menu", "pause"}
  PROVE  LET r == [l EXCEPT !.caller = b]
         IN  r \in Locs /\ r.options = l.options /\ r.caller = b /\ (r.left => l.left) /\ (l.left => r.left)
  BY DEF Locs

\* Whether the final screen was left is set.
LEMMA SetLeft ==
  ASSUME NEW l \in Locs, NEW b \in BOOLEAN
  PROVE  LET r == [l EXCEPT !.left = b]
         IN  r \in Locs /\ r.options = l.options /\ r.caller = l.caller /\ (r.left => b) /\ (b => r.left)
  BY DEF Locs

\* An option is counted.
LEMMA SetOptions ==
  ASSUME NEW l \in Locs, NEW v \in 0 .. MaxConfig
  PROVE  LET r == [l EXCEPT !.options = v]
         IN  r \in Locs /\ r.options = v /\ r.caller = l.caller /\ (r.left => l.left) /\ (l.left => r.left)
  BY DEF Locs

\* A turn of the loop.
LEMMA FrameGood ==
  ASSUME NEW s \in Screens, s.x = 0, s.y = 0, NEW q, NEW k \in Locs, Field(q, k.options), NEW ks \in Seq(Events),
         loc.Training \in BOOLEAN, Frame(s, q, ks, k)
  PROVE  Good(ph', g', loc', scr')
<1>. DEFINE b == ks # << >> /\ Last(ks) = Event("P", TRUE)
            r == FrameOf(q, ks)
            l0 == [k EXCEPT !.c = b]
            l == [l0 EXCEPT !.pending = << >>]
<1>1. /\ g' = r /\ loc' = l
      /\ IF Over(r) THEN ph' = "over" /\ scr' = set_font_size(clear_color(s), DEFAULT_FONT_SIZE) ELSE Turn(s, b)
  BY DEF Frame
<1>2. b \in BOOLEAN
  OBVIOUS
<1>. HIDE DEF b
<1>3. Field(r, k.options) /\ BallHigh(r, k.options)
  BY FrameField
<1>. HIDE DEF r
<1>4. LocsSame(k, l0) /\ l0 \in Locs
  BY <1>2, SetC DEF LocsSame
<1>. HIDE DEF l0
<1>5. << >> \in Seq(Events)
  OBVIOUS
<1>6. LocsSame(l0, l)
  BY <1>4, <1>5, SetPending
<1>. HIDE DEF l
<1>7. l \in Locs /\ l.options = k.options
  BY <1>4, <1>6 DEF LocsSame
<1>f. DEFAULT_FONT_SIZE \in FontSizes /\ SCORE_CARD_FONT_SIZE \in FontSizes
  BY FontsFit, PongScreen
<1>8. CASE Over(r)
  <2>. DEFINE s1 == clear_color(s)
              s2 == set_font_size(s1, DEFAULT_FONT_SIZE)
  <2>1. s1 \in Screens /\ s1.x = 0 /\ s1.y = 0
    BY ClearScreen
  <2>. HIDE DEF s1
  <2>2. s2 \in Screens /\ s2.size = DEFAULT_FONT_SIZE /\ s2.x = 0 /\ s2.y = 0
    BY <1>f, <2>1, SetFont
  <2>3. ph' = "over" /\ scr' = s2
    BY <1>1, <1>8 DEF s1
  <2>. HIDE DEF s2
  <2>4. Drawn("over", s2)
    BY <2>2 DEF Drawn
  <2>5. Scores("over", r, l)
    BY DEF Scores
  <2>6. Good("over", r, l, s2)
    BY <1>3, <1>7, <2>4, <2>5 DEF Good, Phases
  <2>. QED  BY <1>1, <2>3, <2>6
<1>9. CASE ~Over(r)
  <2>. DEFINE z == IF b THEN DEFAULT_FONT_SIZE ELSE SCORE_CARD_FONT_SIZE
              p == IF b THEN "pause" ELSE "play"
              s2 == set_font_size(s, z)
  <2>1. ph' = p /\ scr' = s2
    BY <1>1, <1>9 DEF Turn
  <2>2. z \in FontSizes /\ p \in Phases /\ p \in {"play", "pause"} /\ (p = "pause" => z = DEFAULT_FONT_SIZE)
    BY <1>f DEF Phases
  <2>. HIDE DEF z, p
  <2>3. s2 \in Screens /\ s2.size = z /\ s2.x = 0 /\ s2.y = 0
    BY <2>2, SetFont
  <2>. HIDE DEF s2
  <2>4. Drawn(p, s2)
    BY <2>2, <2>3 DEF Drawn
  <2>5. Scores(p, r, l)
    BY <1>9, <2>2 DEF Scores
  <2>6. Good(p, r, l, s2)
    BY <1>3, <1>7, <2>2, <2>4, <2>5 DEF Good
  <2>. QED  BY <1>1, <2>1, <2>6
<1>. QED  BY <1>8, <1>9

\* A match begins.
LEMMA BeginGood ==
  ASSUME PongInv, ph \in {"menu", "config"}, ph = "config" => loc.caller = "menu", NEW t \in KeysOfPong, Begin(t)
  PROVE  PongInv'
<1>. DEFINE tr == (t = "T")
            w == <<Event(t, TRUE)>>
            r == reset_game(g)
            l0 == [loc EXCEPT !.Training = tr]
            l == [l0 EXCEPT !.pending = w]
            s1 == clear_color(scr)
            s2 == set_font_size(s1, SCORE_CARD_FONT_SIZE)
<1>1. ph' = "play" /\ g' = r /\ loc' = l /\ scr' = s2
  BY DEF Begin
<1>2. tr \in BOOLEAN /\ w \in Seq(Events)
  BY EventOK
<1>. HIDE DEF tr, w
<1>3. loc \in Locs /\ scr \in Screens /\ Field(g, loc.options) /\ Scores(ph, g, loc)
  BY DEF PongInv, Good, Drawn
<1>4. LocsSame(loc, l0) /\ l0 \in Locs
  BY <1>2, <1>3, SetTraining DEF LocsSame
<1>. HIDE DEF l0
<1>5. LocsSame(l0, l)
  BY <1>2, <1>4, SetPending
<1>. HIDE DEF l
<1>6. l \in Locs /\ l.options = loc.options /\ (loc.left => l.left)
  BY <1>4, <1>5 DEF LocsSame
<1>7. Field(r, l.options) /\ BallHigh(r, l.options) /\ SameScores(g, r) /\ SameRules(g, r)
  BY <1>3, <1>6, ResetField
<1>. HIDE DEF r
<1>8. s1 \in Screens /\ s1.x = 0 /\ s1.y = 0
  BY <1>3, ClearScreen
<1>. HIDE DEF s1
<1>9. s2 \in Screens /\ s2.x = 0 /\ s2.y = 0
  BY <1>8, SetFont, FontsFit, PongScreen
<1>. HIDE DEF s2
<1>10. Scores("play", r, l)
  <2>. SUFFICES ASSUME ~l.left PROVE ~Over(r)
    BY DEF Scores
  <2>1. g.s1 = 0 /\ g.s2 = 0
    BY <1>3, <1>6 DEF Scores
  <2>2. r.s1 = 0 /\ r.s2 = 0 /\ r.score \in Nat \ {0}
    BY <1>7, <2>1 DEF SameScores, Field, Globals
  <2>. QED  BY <2>2 DEF Over
<1>11. Good("play", r, l, s2)
  BY <1>6, <1>7, <1>9, <1>10 DEF Good, Drawn, Phases
<1>. QED  BY <1>1, <1>11 DEF PongInv

\* A new match after a match or a pause.
LEMMA NewMatchField ==
  ASSUME NEW q, NEW n, Field(q, n)
  PROVE  LET r == NewMatch(q) IN Field(r, n) /\ BallHigh(r, n) /\ ~Over(r)
<1>. DEFINE t == [q EXCEPT !.s1 = 0, !.s2 = 0]
            r == NewMatch(q)
<1>1. r = reset_game(t)
  BY DEF NewMatch
<1>2. Field(t, n) /\ t.s1 = 0 /\ t.s2 = 0
  BY ScoreField, Zenon
<1>. HIDE DEF t, r
<1>3. Field(r, n) /\ BallHigh(r, n) /\ SameScores(t, r)
  BY <1>1, <1>2, ResetField
<1>4. r.s1 = 0 /\ r.s2 = 0 /\ r.score \in Nat \ {0}
  BY <1>2, <1>3 DEF SameScores, Field, Globals
<1>5. ~Over(r)
  BY <1>4 DEF Over
<1>. QED  BY <1>3, <1>5 DEF r

\* The configuration is entered from the menu or the pause.
LEMMA ConfigureGood ==
  ASSUME PongInv, NEW caller \in {"menu", "pause"}, caller = "menu" => ph = "menu", Configure(caller)
  PROVE  PongInv'
<1>. DEFINE l == [loc EXCEPT !.caller = caller]
            s1 == clear_color(scr)
            w == <<"A", "ENTER">>
            s2 == draw_word(s1, w)
<1>1. ph' = "config" /\ g' = g /\ loc' = l /\ scr' = s2
  BY DEF Configure
<1>2. loc \in Locs /\ scr \in Screens /\ Field(g, loc.options) /\ Scores(ph, g, loc)
  BY DEF PongInv, Good, Drawn
<1>3. l \in Locs /\ l.options = loc.options /\ l.caller = caller /\ (loc.left => l.left)
  BY <1>2, SetCaller
<1>. HIDE DEF l
<1>4. w \in Seq(Stored)
  BY DEF Stored
<1>. HIDE DEF w
<1>5. s1 \in Screens
  BY <1>2, ClearScreen
<1>. HIDE DEF s1
<1>6. s2 \in Screens
  BY <1>4, <1>5, DrawScreen
<1>. HIDE DEF s2
<1>7. Scores("config", g, l)
  BY <1>2, <1>3 DEF Scores
<1>8. Good("config", g, l, s2)
  BY <1>2, <1>3, <1>6, <1>7 DEF Good, Drawn, Phases
<1>. QED  BY <1>1, <1>8 DEF PongInv

\* An option of the configuration.
LEMMA OptionGood ==
  ASSUME PongInv, configuration
  PROVE  PongInv'
<1>. DEFINE v == loc.options + 1
            l == [loc EXCEPT !.options = v]
            s1 == clear_color(scr)
            w == <<"A", "ENTER">>
            s2 == draw_word(s1, w)
<1>1. ph = "config" /\ ph' = "config" /\ g' \in Chosen(g) /\ loc' = l /\ scr' = s2 /\ loc.options < MaxConfig
  BY DEF configuration
<1>2. loc \in Locs /\ scr \in Screens /\ Field(g, loc.options) /\ Scores(ph, g, loc)
  BY DEF PongInv, Good, Drawn
<1>3. v \in 0 .. MaxConfig /\ loc.options \in Nat
  <2>1. loc.options \in 0 .. MaxConfig
    BY <1>2 DEF Locs
  <2>2. MaxConfig \in Nat
    BY PongAssumption
  <2>. QED  BY <1>1, <2>1, <2>2
<1>4. Field(g', v) /\ SameScores(g, g')
  BY <1>1, <1>2, <1>3, ChosenField
<1>. HIDE DEF v
<1>5. l \in Locs /\ l.options = v /\ l.caller = loc.caller /\ (loc.left => l.left)
  BY <1>2, <1>3, SetOptions
<1>. HIDE DEF l
<1>6. w \in Seq(Stored)
  BY DEF Stored
<1>. HIDE DEF w
<1>7. s1 \in Screens
  BY <1>2, ClearScreen
<1>. HIDE DEF s1
<1>8. s2 \in Screens
  BY <1>6, <1>7, DrawScreen
<1>. HIDE DEF s2
<1>9. Scores("config", g', l)
  BY <1>1, <1>2, <1>4, <1>5 DEF Scores, SameScores
<1>10. Good("config", g', l, s2)
  BY <1>4, <1>5, <1>8, <1>9 DEF Good, Drawn, Phases
<1>. QED  BY <1>1, <1>10 DEF PongInv

\* The configuration returns to the menu or to the pause.
LEMMA LeaveConfigGood ==
  ASSUME PongInv, LeaveConfig
  PROVE  PongInv'
<1>1. loc \in Locs /\ scr \in Screens /\ Field(g, loc.options) /\ ph = "config"
  BY DEF PongInv, Good, Drawn, LeaveConfig
<1>2. CASE loc.caller = "menu"
  <2>1. Begin("X")
    BY <1>2 DEF LeaveConfig
  <2>2. "X" \in KeysOfPong
    BY DEF KeysOfPong
  <2>. QED  BY <1>1, <1>2, <2>1, <2>2, BeginGood
<1>3. CASE loc.caller # "menu"
  <2>. DEFINE s == clear_color(scr)
              e == <<Event("X", TRUE)>>
              ks == loc.pending \o e
  <2>1. Frame(s, g, ks, loc)
    BY <1>3 DEF LeaveConfig
  <2>2. e \in Seq(Events)
    <3>1. "X" \in KeysOfPong
      BY DEF KeysOfPong
    <3>. QED  BY <3>1, EventOK
  <2>3. loc.pending \in Seq(Events) /\ loc.Training \in BOOLEAN
    BY <1>1 DEF Locs
  <2>. HIDE DEF e
  <2>4. ks \in Seq(Events)
    BY <2>2, <2>3
  <2>5. s \in Screens /\ s.x = 0 /\ s.y = 0
    BY <1>1, ClearScreen
  <2>. HIDE DEF s, ks
  <2>. QED  BY <1>1, <2>1, <2>3, <2>4, <2>5, FrameGood DEF PongInv
<1>. QED  BY <1>2, <1>3

\* The keys of a frame are events of the game.
LEMMA BurstOK ==
  ASSUME NEW ks \in Bursts
  PROVE  ks \in Seq(Events)
<1>. DEFINE A == {<<Event(k, b)>> : k \in {"W", "S", "^", "v", "Z"}, b \in BOOLEAN}
<1>1. ks = << >> \/ ks \in A \/ ks = <<Event("P", TRUE)>>
  <2>1. Bursts = {<< >>} \cup A \cup {<<Event("P", TRUE)>>}
    BY DEF Bursts
  <2>. HIDE DEF A
  <2>. QED  BY <2>1, Zenon
<1>2. ks \in A => \E k \in {"W", "S", "^", "v", "Z"} : \E b \in BOOLEAN : ks = <<Event(k, b)>>
  OBVIOUS
<1>. HIDE DEF A
<1>3. "P" \in KeysOfPong /\ \A k \in {"W", "S", "^", "v", "Z"} : k \in KeysOfPong
  BY DEF KeysOfPong
<1>4. << >> \in Seq(Events) /\ TRUE \in BOOLEAN
  OBVIOUS
<1>. QED  BY <1>1, <1>2, <1>3, <1>4, EventOK, Zenon

\* A frame of a match, its end included.
LEMMA PlayGood ==
  ASSUME PongInv, NEW ks \in Bursts, PlayFrame(ks)
  PROVE  PongInv'
<1>1. /\ loc \in Locs /\ scr \in Screens /\ Field(g, loc.options) /\ ph = "play" /\ scr.x = 0 /\ scr.y = 0
  BY DEF PongInv, Good, Drawn, PlayFrame
<1>. DEFINE w == loc.pending \o ks
<1>2. Frame(scr, g, w, loc)
  BY DEF PlayFrame
<1>3. ks \in Seq(Events)
  BY BurstOK
<1>4. loc.pending \in Seq(Events) /\ loc.Training \in BOOLEAN
  BY <1>1 DEF Locs
<1>5. w \in Seq(Events)
  BY <1>3, <1>4
<1>. HIDE DEF w
<1>. QED  BY <1>1, <1>2, <1>4, <1>5, FrameGood DEF PongInv

\* The locals of a new process.
LEMMA LocalsOK == Locals \in Locs /\ Locals.options = 0
<1>1. MaxConfig \in Nat
  BY PongAssumption
<1>2. << >> \in Seq(Events)
  OBVIOUS
<1>. QED  BY <1>1, <1>2 DEF Locals, Locs

\* What each key does in a pause.
LEMMA PauseGood ==
  ASSUME PongInv, NEW p \in {"X", "C", "R", "P", "W"}, PauseKey(p)
  PROVE  PongInv'
<1>1. /\ loc \in Locs /\ scr \in Screens /\ Field(g, loc.options) /\ ph = "pause"
      /\ scr.x = 0 /\ scr.y = 0 /\ scr.size = DEFAULT_FONT_SIZE
  BY DEF PongInv, Good, Drawn, PauseKey
<1>. DEFINE e == <<Event(p, TRUE)>>
            ks == loc.pending \o e
<1>2. p \in KeysOfPong
  BY DEF KeysOfPong
<1>3. loc.pending \in Seq(Events) /\ loc.Training \in BOOLEAN
  BY <1>1 DEF Locs
<1>4. e \in Seq(Events)
  BY <1>2, EventOK
<1>5. CASE p = "X"
  <2>. DEFINE r == [g EXCEPT !.s1 = 0, !.s2 = 0]
              l == [loc EXCEPT !.left = FALSE]
              s == clear_color(scr)
  <2>1. ph' = "returned" /\ g' = r /\ loc' = l /\ scr' = s
    BY <1>5 DEF PauseKey
  <2>2. Field(r, loc.options) /\ r.s1 = 0 /\ r.s2 = 0
    BY <1>1, ScoreField, Zenon
  <2>. HIDE DEF r
  <2>3. l \in Locs /\ l.options = loc.options
    BY <1>1, SetLeft
  <2>. HIDE DEF l
  <2>4. s \in Screens /\ s.x = 0 /\ s.y = 0 /\ s.size = scr.size
    BY <1>1, ClearScreen
  <2>. HIDE DEF s
  <2>5. Scores("returned", r, l)
    BY <2>2 DEF Scores
  <2>6. Good("returned", r, l, s)
    BY <1>1, <2>2, <2>3, <2>4, <2>5 DEF Good, Drawn, Phases
  <2>. QED  BY <2>1, <2>6 DEF PongInv
<1>6. CASE p = "C"
  <2>1. Configure("pause")
    BY <1>6 DEF PauseKey
  <2>. QED  BY <2>1, ConfigureGood
<1>. HIDE DEF e
<1>7. ks \in Seq(Events)
  BY <1>3, <1>4
<1>8. CASE p = "R"
  <2>. DEFINE s == clear_color(scr)
              r == NewMatch(g)
              l == [loc EXCEPT !.left = FALSE]
  <2>1. Frame(s, r, ks, l)
    BY <1>8 DEF PauseKey, e
  <2>. HIDE DEF ks
  <2>2. s \in Screens /\ s.x = 0 /\ s.y = 0
    BY <1>1, ClearScreen
  <2>. HIDE DEF s
  <2>3. l \in Locs /\ l.options = loc.options
    BY <1>1, SetLeft
  <2>. HIDE DEF l
  <2>4. Field(r, l.options)
    BY <1>1, <2>3, NewMatchField
  <2>. HIDE DEF r
  <2>. QED  BY <1>3, <1>7, <2>1, <2>2, <2>3, <2>4, FrameGood DEF PongInv
<1>9. CASE p \notin {"X", "C", "R"}
  <2>1. Frame(scr, g, ks, loc)
    BY <1>9 DEF PauseKey, e
  <2>. HIDE DEF ks
  <2>. QED  BY <1>1, <1>3, <1>7, <2>1, FrameGood DEF PongInv
<1>. QED  BY <1>5, <1>6, <1>8, <1>9

\* What each key does on the final screen.
LEMMA OverGood ==
  ASSUME PongInv, NEW p \in {"X", "C", "R", "P", "W"}, OverKey(p)
  PROVE  PongInv'
<1>1. /\ loc \in Locs /\ scr \in Screens /\ Field(g, loc.options) /\ ph = "over"
      /\ scr.x = 0 /\ scr.y = 0 /\ scr.size = DEFAULT_FONT_SIZE
  BY DEF PongInv, Good, Drawn, OverKey
<1>. DEFINE s == clear_color(scr)
<1>2. s \in Screens /\ s.x = 0 /\ s.y = 0 /\ s.size = scr.size
  BY <1>1, ClearScreen
<1>3. CASE p = "X"
  <2>. DEFINE l == [loc EXCEPT !.left = TRUE]
  <2>1. ph' = "returned" /\ g' = g /\ loc' = l /\ scr' = s
    BY <1>3 DEF OverKey
  <2>2. l \in Locs /\ l.options = loc.options /\ l.left
    BY <1>1, SetLeft
  <2>. HIDE DEF l, s
  <2>3. Scores("returned", g, l)
    BY <2>2 DEF Scores
  <2>4. Good("returned", g, l, s)
    BY <1>1, <1>2, <2>2, <2>3 DEF Good, Drawn, Phases
  <2>. QED  BY <2>1, <2>4 DEF PongInv
<1>4. CASE p # "X"
  <2>. DEFINE r == NewMatch(g)
              e == <<Event(p, TRUE)>>
              l0 == [loc EXCEPT !.pending = e]
              l == [l0 EXCEPT !.left = FALSE]
              z == IF loc.c THEN DEFAULT_FONT_SIZE ELSE SCORE_CARD_FONT_SIZE
              h == IF loc.c THEN "pause" ELSE "play"
              s2 == set_font_size(s, z)
  <2>1. ph' = h /\ g' = r /\ loc' = l /\ scr' = s2
    BY <1>4 DEF OverKey, Turn
  <2>2. z \in FontSizes /\ h \in Phases /\ h \in {"play", "pause"} /\ (h = "pause" => z = DEFAULT_FONT_SIZE)
    BY FontsFit, PongScreen DEF Phases
  <2>. HIDE DEF z, h, s
  <2>3. s2 \in Screens /\ s2.size = z /\ s2.x = 0 /\ s2.y = 0
    BY <1>2, <2>2, SetFont
  <2>. HIDE DEF s2
  <2>4. e \in Seq(Events)
    <3>1. p \in KeysOfPong
      BY DEF KeysOfPong
    <3>. QED  BY <3>1, EventOK
  <2>. HIDE DEF e
  <2>5. l0 \in Locs /\ l0.options = loc.options
    BY <1>1, <2>4, SetPending DEF LocsSame
  <2>. HIDE DEF l0
  <2>6. l \in Locs /\ l.options = loc.options
    BY <2>5, SetLeft
  <2>. HIDE DEF l
  <2>7. Field(r, l.options) /\ BallHigh(r, l.options) /\ ~Over(r)
    BY <1>1, <2>6, NewMatchField
  <2>. HIDE DEF r
  <2>8. Scores(h, r, l)
    BY <2>2, <2>7 DEF Scores
  <2>9. Good(h, r, l, s2)
    BY <2>2, <2>3, <2>6, <2>7, <2>8 DEF Good, Drawn
  <2>. QED  BY <2>1, <2>9 DEF PongInv
<1>. QED  BY <1>3, <1>4

\* pong starts with the scores of its last run.
LEMMA PongGood ==
  ASSUME PongInv, pong
  PROVE  PongInv'
<1>1. loc \in Locs /\ scr \in Screens /\ Field(g, loc.options) /\ ph \in {"off", "returned"} /\ Scores(ph, g, loc)
  BY DEF PongInv, Good, Drawn, pong
<1>. DEFINE r == Defaults(g)
            n == loc.options
            f == loc.left
            l0 == [Locals EXCEPT !.options = n]
            l == [l0 EXCEPT !.left = f]
            s1 == clear_color(scr)
            s2 == set_font_size(s1, DEFAULT_FONT_SIZE)
<1>2. ph' = "refresh" /\ g' = r /\ loc' = l /\ scr' = s2
  BY DEF pong
<1>3. Field(r, n) /\ SameScores(g, r)
  BY <1>1, DefaultsAgain
<1>. HIDE DEF r
<1>4. s1 \in Screens /\ s1.x = 0 /\ s1.y = 0
  BY <1>1, ClearScreen
<1>. HIDE DEF s1
<1>5. s2 \in Screens /\ s2.x = 0 /\ s2.y = 0
  BY <1>4, SetFont, FontsFit, PongScreen
<1>. HIDE DEF s2
<1>6. Locals \in Locs
  BY LocalsOK
<1>7. n \in 0 .. MaxConfig /\ f \in BOOLEAN
  BY <1>1 DEF Locs
<1>8. l0 \in Locs /\ l0.options = n
  BY <1>6, <1>7, SetOptions
<1>. HIDE DEF l0
<1>9. l \in Locs /\ l.options = n /\ (f => l.left)
  BY <1>7, <1>8, SetLeft
<1>. HIDE DEF l
<1>10. Scores("refresh", r, l)
  BY <1>1, <1>3, <1>9 DEF Scores, SameScores
<1>11. Good("refresh", r, l, s2)
  BY <1>3, <1>5, <1>9, <1>10 DEF Good, Drawn, Phases
<1>. QED  BY <1>2, <1>11 DEF PongInv

\* The menus of the game.
LEMMA GameGood ==
  ASSUME PongInv, PongStep
  PROVE  PongInv'
<1>1. CASE RefreshKey
  <2>. DEFINE s == clear_color(scr)
  <2>1. ph = "refresh" /\ ph' = "menu" /\ scr' = s /\ g' = g /\ loc' = loc
    BY <1>1 DEF RefreshKey
  <2>2. scr \in Screens
    BY DEF PongInv, Good, Drawn
  <2>3. s \in Screens /\ s.x = 0 /\ s.y = 0
    BY <2>2, ClearScreen
  <2>. HIDE DEF s
  <2>4. Good("menu", g, loc, s)
    BY <2>1, <2>3 DEF PongInv, Good, Drawn, Scores, Phases
  <2>. QED  BY <2>1, <2>4 DEF PongInv
<1>2. CASE configuration
  BY <1>2, OptionGood
<1>3. CASE LeaveConfig
  BY <1>3, LeaveConfigGood
<1>4. ASSUME NEW t \in {"C", "T", "A", "P"}, MenuKey(t) PROVE PongInv'
  <2>1. ph = "menu" /\ (IF t = "C" THEN Configure("menu") ELSE Begin(t))
    BY <1>4 DEF MenuKey
  <2>2. t \in KeysOfPong
    BY DEF KeysOfPong
  <2>3. CASE t = "C"
    BY <2>1, <2>3, ConfigureGood
  <2>4. CASE t # "C"
    BY <2>1, <2>2, <2>4, BeginGood
  <2>. QED  BY <2>3, <2>4
<1>5. ASSUME NEW ks \in Bursts, PlayFrame(ks) PROVE PongInv'
  BY <1>5, PlayGood
<1>6. ASSUME NEW p \in {"X", "C", "R", "P", "W"}, PauseKey(p) \/ OverKey(p) PROVE PongInv'
  BY <1>6, PauseGood, OverGood
<1>. QED  BY <1>1, <1>2, <1>3, <1>4, <1>5, <1>6 DEF PongStep

\* Ctrl-C leaves the screen and the points as they are.
LEMMA KillGood ==
  ASSUME PongInv, kill_foreground_process
  PROVE  PongInv'
<1>1. loc \in Locs /\ scr \in Screens /\ Field(g, loc.options)
  BY DEF PongInv, Good, Drawn
<1>. DEFINE r == Defaults(g)
            n == loc.options
            f == g.s1 # 0 \/ g.s2 # 0
            l0 == [Locals EXCEPT !.options = n]
            l == [l0 EXCEPT !.left = f]
<1>2. ph' = "off" /\ g' = r /\ loc' = l /\ scr' = scr
  BY DEF kill_foreground_process
<1>3. Field(r, n) /\ SameScores(g, r)
  BY <1>1, DefaultsAgain
<1>. HIDE DEF r
<1>4. Locals \in Locs
  BY LocalsOK
<1>5. n \in 0 .. MaxConfig /\ f \in BOOLEAN
  BY <1>1 DEF Locs
<1>6. l0 \in Locs /\ l0.options = n
  BY <1>4, <1>5, SetOptions
<1>. HIDE DEF l0
<1>7. l \in Locs /\ l.options = n /\ (f => l.left)
  BY <1>5, <1>6, SetLeft
<1>. HIDE DEF l
<1>8. Scores("off", r, l)
  BY <1>3, <1>7 DEF Scores, SameScores
<1>9. Good("off", r, l, scr)
  BY <1>1, <1>3, <1>7, <1>8 DEF Good, Drawn, Phases
<1>. QED  BY <1>2, <1>9 DEF PongInv

\* The game keeps its invariant, from one run to the next.
THEOREM GameInvariant == PongSpec => []PongInv
<1>1. PongInit => PongInv
  <2>. SUFFICES ASSUME PongInit PROVE PongInv
    OBVIOUS
  <2>1. ph = "off" /\ g = Loaded /\ loc = Locals /\ scr = [x |-> 0, y |-> 0, size |-> DEFAULT_FONT_SIZE, up |-> 0]
    BY DEF PongInit
  <2>2. loc \in Locs /\ loc.options = 0 /\ Field(g, loc.options) /\ g.s1 = 0 /\ g.s2 = 0
    BY <2>1, LocalsOK, LoadedField
  <2>3. scr \in Cursor /\ scr.x = 0 /\ scr.y = 0 /\ scr.size = DEFAULT_FONT_SIZE
    BY <2>1 DEF Cursor, DEFAULT_FONT_SIZE
  <2>4. scr \in Screens
    BY <2>3, FontsFit, CornerStays DEF Screens
  <2>5. Drawn(ph, scr) /\ Scores(ph, g, loc)
    BY <2>1, <2>2, <2>3, <2>4 DEF Drawn, Scores
  <2>. QED  BY <2>1, <2>2, <2>5 DEF PongInv, Good, Phases
<1>2. PongInv /\ [PongNext]_<<scr, pongvars>> => PongInv'
  <2>1. PongInv /\ UNCHANGED <<scr, pongvars>> => PongInv'
    <3>. SUFFICES ASSUME PongInv, UNCHANGED <<scr, pongvars>> PROVE PongInv'
      OBVIOUS
    <3>1. ph' = ph /\ g' = g /\ loc' = loc /\ scr' = scr
      BY DEF pongvars
    <3>. QED  BY <3>1 DEF PongInv
  <2>. QED  BY <2>1, PongGood, GameGood, KillGood DEF PongNext
<1>. QED  BY <1>1, <1>2, PTL DEF PongSpec

\* When pong returns, by a key of the pause or of the final screen, it gives the
\* screen back empty and in the default font.
THEOREM ScreenIsBack == PongSpec => []ScreenHandedBack
<1>1. PongInv => ScreenHandedBack
  BY DEF PongInv, Good, Drawn, ScreenHandedBack
<1>. QED  BY <1>1, GameInvariant, PTL

\* Nobody has won a match that is being played.
THEOREM MatchesAreOpen == PongSpec => []MatchIsOpen
<1>1. PongInv => MatchIsOpen
  BY DEF PongInv, Good, Scores, MatchIsOpen
<1>. QED  BY <1>1, GameInvariant, PTL

\* The ball stays between the borders.
THEOREM BallStays == PongSpec => []BallInField
<1>1. PongInv => BallInField
  BY DEF PongInv, Good, Field, BallSafe, BallHigh, BallLow, BallEnd, Slow, BallInField
<1>. QED  BY <1>1, GameInvariant, PTL

\* The paddles stay between the borders.
THEOREM PaddlesStay == PongSpec => []PaddlesInField
<1>1. PongInv => PaddlesInField
  BY DEF PongInv, Good, Field, PaddleSafe, InField, PaddlesInField
<1>. QED  BY <1>1, GameInvariant, PTL

\* The type of the game.
THEOREM PongTypes == PongSpec => []PongTypeOK
<1>1. PongInv => PongTypeOK
  <2>. SUFFICES ASSUME PongInv PROVE PongTypeOK
    OBVIOUS
  <2>1. ph \in Phases /\ loc \in Locs /\ g \in Globals
    BY DEF PongInv, Good, Field
  <2>2. g.p1 \in Paddle /\ g.p2 \in Paddle /\ g.ball \in Ball
    BY <2>1 DEF Globals
  <2>3. DOMAIN g.p1 = Fields /\ DOMAIN g.p2 = Fields
    BY <2>2 DEF Paddle, Fields
  <2>4. /\ g.p1.direction \in {"UP", "DOWN", "STOP"} /\ g.p2.direction \in {"UP", "DOWN", "STOP"}
        /\ g.p1.y \in Int /\ g.p2.y \in Int
    BY <2>2 DEF Paddle, Directions
  <2>5. /\ g.ball.x \in Int /\ g.ball.y \in Int /\ g.ball.speedX \in Int /\ g.ball.speedY \in Int
        /\ g.ball.size \in Nat
    BY <2>2 DEF Ball
  <2>6. g.score \in Nat /\ g.s1 \in Nat /\ g.s2 \in Nat /\ g.BALL_SPEED \in Nat /\ g.BALL_SPEED_HORIZONTAL \in Nat
    BY <2>1 DEF Globals
  <2>7. loc.Training \in BOOLEAN /\ loc.c \in BOOLEAN /\ loc.left \in BOOLEAN /\ loc.options \in 0 .. MaxConfig
    BY <2>1 DEF Locs
  <2>. QED  BY <2>1, <2>3, <2>4, <2>5, <2>6, <2>7, Zenon DEF PongTypeOK, Phases
<1>. QED  BY <1>1, GameInvariant, PTL

-----------------------------------------------------------------------------
(* A save is not a goal. *)
\* Where a side leaves the ball.
LEMMA SideOf ==
  ASSUME NEW b \in Ball, 0 =< b.x
  PROVE  LET r == OffSides(b)
         IN  \/ r.x = b.x
             \/ b.x =< BORDER_SIZE /\ r.x = BORDER_SIZE
             \/ r.x = SCREEN_WIDTH - BORDER_SIZE - b.size /\ r.x =< b.x
<1>. DEFINE r == OffSides(b)
            v == SCREEN_WIDTH - BORDER_SIZE - b.size
<1>0. b.x \in Int /\ b.size \in Nat \ {0} /\ -b.speedX \in Int
  BY DEF Ball
<1>1. CASE ULe(b.x, BORDER_SIZE)
  <2>. DEFINE m == [b EXCEPT !.x = BORDER_SIZE]
  <2>1. r = [m EXCEPT !.speedX = -b.speedX]
    BY <1>1 DEF OffSides
  <2>2. r.x = BORDER_SIZE
    BY <2>1, Dimensions DEF Ball
  <2>3. b.x =< BORDER_SIZE
    BY <1>0, <1>1, Dimensions DEF ULe
  <2>. QED  BY <2>2, <2>3
<1>2. CASE ~ULe(b.x, BORDER_SIZE) /\ UGe(b.x + b.size, SCREEN_WIDTH - BORDER_SIZE)
  <2>. DEFINE m == [b EXCEPT !.x = v]
  <2>1. r = [m EXCEPT !.speedX = -b.speedX]
    BY <1>2 DEF OffSides
  <2>2. r.x = v
    BY <1>0, <2>1, Dimensions DEF Ball
  <2>3. v =< b.x
    BY <1>0, <1>2, Dimensions DEF UGe
  <2>. QED  BY <2>2, <2>3
<1>3. CASE ~ULe(b.x, BORDER_SIZE) /\ ~UGe(b.x + b.size, SCREEN_WIDTH - BORDER_SIZE)
  <2>1. r = b
    BY <1>3 DEF OffSides
  <2>. QED  BY <2>1
<1>. QED  BY <1>1, <1>2, <1>3

\* A frame without a goal moves the ball by its speed, less what a side takes.
LEMMA BallAfter ==
  ASSUME NEW q, NEW n, Field(q, n), check_scored(q) = 0, Savable(q)
  PROVE  LET r == move_ball(q)
         IN  /\ r.p1 = q.p1 /\ r.p2 = q.p2 /\ r.ball \in Ball /\ r.ball.size = q.ball.size
             /\ q.ball.x - q.BALL_SPEED_HORIZONTAL =< r.ball.x
             /\ r.ball.x =< q.ball.x + q.BALL_SPEED_HORIZONTAL
<1>0. /\ q \in Globals /\ q.BALL_SPEED_HORIZONTAL = 2 * q.BALL_SPEED /\ q.p1 \in Paddle /\ q.p2 \in Paddle
      /\ q.ball \in Ball /\ q.BALL_SPEED_HORIZONTAL \in Nat
  BY DEF Field, Globals
<1>. DEFINE a == q.ball.x + q.ball.speedX
            c == q.ball.y + q.ball.speedY
            b0 == [q.ball EXCEPT !.x = a]
            b1 == [b0 EXCEPT !.y = c]
            b2 == OffSides(b1)
            b3 == OffTopAndBottom(b2)
            b4 == OffPaddle(q, b3, q.p1, 1)
            b5 == OffPaddle(q, b4, q.p2, -1)
            r == [q EXCEPT !.ball = b5]
<1>1. move_ball(q) = r
  BY DEF move_ball
<1>2. a \in Int /\ c \in Int
  BY <1>0 DEF Ball
<1>h. /\ q.ball.x \in Int /\ q.ball.size \in Nat /\ 0 =< a
      /\ q.ball.x - q.BALL_SPEED_HORIZONTAL =< a /\ a =< q.ball.x + q.BALL_SPEED_HORIZONTAL
  <2>1. q.ball.x \in Int /\ q.ball.speedX \in Int /\ q.ball.size \in Nat
    BY <1>0 DEF Ball
  <2>2. Within(q.ball.speedX, q.BALL_SPEED_HORIZONTAL)
    BY DEF Field, Paced
  <2>. QED  BY <1>0, <2>1, <2>2, Dimensions DEF Within, Savable
<1>. HIDE DEF a, c
<1>3. b0 \in Ball /\ b0.x = a /\ b0.size = q.ball.size
  BY <1>0, <1>2 DEF Ball
<1>. HIDE DEF b0
<1>4. b1 \in Ball /\ b1.x = a /\ b1.size = q.ball.size
  BY <1>2, <1>3 DEF Ball
<1>. HIDE DEF b1
<1>5. b2 \in Ball /\ b2.size = b1.size
  BY <1>4, Sides
<1>6. \/ b2.x = b1.x
      \/ b1.x =< BORDER_SIZE /\ b2.x = BORDER_SIZE
      \/ b2.x = SCREEN_WIDTH - BORDER_SIZE - b1.size /\ b2.x =< b1.x
  BY <1>4, <1>h, SideOf
<1>. HIDE DEF b2
<1>7. b3 \in Ball /\ b3.x = b2.x /\ b3.size = b2.size
  BY <1>5, TopAndBottom
<1>. HIDE DEF b3
<1>8. b4 \in Ball /\ b4.x = b3.x /\ b4.size = b3.size
  BY <1>0, <1>7, PaddleBall
<1>. HIDE DEF b4
<1>9. b5 \in Ball /\ b5.x = b4.x /\ b5.size = b4.size
  BY <1>0, <1>8, PaddleBall
<1>. HIDE DEF b5
<1>10. r \in Globals /\ r.ball = b5 /\ r.p1 = q.p1 /\ r.p2 = q.p2
  BY <1>0, <1>9, SetBall
<1>. HIDE DEF r
<1>11. b5.size = q.ball.size /\ b5.x = b2.x
  BY <1>4, <1>5, <1>7, <1>8, <1>9
<1>12. q.ball.x - q.BALL_SPEED_HORIZONTAL =< b2.x /\ b2.x =< q.ball.x + q.BALL_SPEED_HORIZONTAL
  BY <1>0, <1>2, <1>4, <1>6, <1>h, Dimensions DEF Savable
<1>. QED  BY <1>1, <1>9, <1>10, <1>11, <1>12

\* The ball that was in front of a paddle, after its frame.
LEMMA SavedBall ==
  ASSUME NEW q, NEW n, Field(q, n), Savable(q)
  PROVE  LET r == move_ball(q)
         IN  /\ q.ball.x > q.p1.x + q.p1.width => check_scored(r) # 2
             /\ q.ball.x + q.ball.size < q.p2.x => check_scored(r) # 1
<1>. DEFINE r == move_ball(q)
            k == q.ball.size \div 2
            half == SCREEN_WIDTH \div 2
            e == q.p1.x + q.p1.width
<1>0. /\ q \in Globals /\ q.ball \in Ball /\ q.p1 \in Paddle /\ q.p2 \in Paddle /\ q.BALL_SPEED_HORIZONTAL \in Nat
      /\ q.ball.x \in Int /\ q.ball.size \in Nat /\ q.p1.x \in Int /\ q.p1.width \in Int /\ q.p2.x \in Int
  BY DEF Field, Globals, Ball, Paddle
<1>1. k \in Nat /\ 2 * k =< q.ball.size /\ half \in Int /\ e \in Int
  BY <1>0, Dimensions
<1>2. k >= q.BALL_SPEED_HORIZONTAL - 1 /\ e =< half /\ half =< q.p2.x
  BY DEF Savable
<1>3. ASSUME NEW c \in Int, r.ball.x + (r.ball.size \div 2) = c, r.p1.x + r.p1.width = e, r.p2.x = q.p2.x
      PROVE  (c >= e => check_scored(r) # 2) /\ (c =< q.p2.x => check_scored(r) # 1)
  <2>. HIDE DEF r, e
  <2>. QED  BY <1>0, <1>1, <1>3 DEF check_scored
<1>4. CASE check_scored(q) # 0
  <2>. DEFINE t == update_score(q, check_scored(q))
  <2>1. r = reset_game(t)
    BY <1>4 DEF move_ball
  <2>2. t \in Globals /\ t.ball = q.ball /\ t.p1 = q.p1 /\ t.p2 = q.p2
    <3>1. CASE check_scored(q) = 1
      BY <1>0, <3>1 DEF update_score, Globals
    <3>2. CASE check_scored(q) # 1
      BY <1>0, <3>2 DEF update_score, Globals
    <3>. QED  BY <3>1, <3>2
  <2>. HIDE DEF t
  <2>3. /\ r.ball.x = half - k /\ r.ball.size = q.ball.size
        /\ SamePaddle(t.p1, r.p1) /\ SamePaddle(t.p2, r.p2)
    BY <2>1, <2>2, ResetGame
  <2>. HIDE DEF r
  <2>4. r.ball.x + (r.ball.size \div 2) = half
    BY <1>1, <2>3
  <2>5. r.p1.x + r.p1.width = e /\ r.p2.x = q.p2.x
    BY <2>2, <2>3 DEF SamePaddle
  <2>6. half >= e
    BY <1>1, <1>2
  <2>7. check_scored(r) # 2 /\ check_scored(r) # 1
    BY <1>1, <1>2, <1>3, <2>4, <2>5, <2>6 DEF r
  <2>. QED  BY <2>7 DEF r
<1>5. CASE check_scored(q) = 0
  <2>1. /\ r.p1 = q.p1 /\ r.p2 = q.p2 /\ r.ball \in Ball /\ r.ball.size = q.ball.size
        /\ q.ball.x - q.BALL_SPEED_HORIZONTAL =< r.ball.x
        /\ r.ball.x =< q.ball.x + q.BALL_SPEED_HORIZONTAL
    BY <1>5, BallAfter
  <2>. DEFINE c == r.ball.x + k
  <2>2. r.ball.x \in Int /\ c \in Int
    <3>. HIDE DEF r, k
    <3>. QED  BY <1>1, <2>1 DEF Ball
  <2>3. (c >= e => check_scored(r) # 2) /\ (c =< q.p2.x => check_scored(r) # 1)
    <3>1. r.ball.x + (r.ball.size \div 2) = c /\ r.p1.x + r.p1.width = e /\ r.p2.x = q.p2.x
      BY <2>1
    <3>. QED  BY <1>3, <2>2, <3>1
  <2>. HIDE DEF r
  <2>4. (q.ball.x > e => c >= e) /\ (q.ball.x + q.ball.size < q.p2.x => c =< q.p2.x)
    <3>. HIDE DEF k, e
    <3>. QED  BY <1>0, <1>1, <1>2, <2>1, <2>2
  <2>5. (q.ball.x > e => check_scored(r) # 2) /\ (q.ball.x + q.ball.size < q.p2.x => check_scored(r) # 1)
    BY <2>3, <2>4
  <2>. QED  BY <2>5 DEF r
<1>. QED  BY <1>4, <1>5

\* Nor after the paddles moved, which stay on their line.
LEMMA SavedFrame ==
  ASSUME NEW q, NEW n, Field(q, n), Savable(q), NEW E, NEW ks \in Seq(E), loc.Training \in BOOLEAN
  PROVE  LET r == FrameOf(q, ks)
         IN  /\ q.ball.x > q.p1.x + q.p1.width => check_scored(r) # 2
             /\ q.ball.x + q.ball.size < q.p2.x => check_scored(r) # 1
<1>. DEFINE tr == loc.Training
            steered == [q EXCEPT !.p1.direction = read_key(@, q.up1, q.down1, ks),
                                 !.p2.direction = IF tr THEN @ ELSE read_key(@, q.up2, q.down2, ks)]
            led == IF tr THEN training(steered) ELSE steered
            t == [led EXCEPT !.p1 = movePaddle(@), !.p2 = movePaddle(@)]
<1>1. FrameOf(q, ks) = move_ball(t)
  BY DEF FrameOf
<1>2. Steps(q, t)
  BY SteerSteps DEF Field
<1>. HIDE DEF t
<1>3. Field(t, n)
  BY <1>2, StepsField
<1>4. /\ t.ball = q.ball /\ t.p1.x = q.p1.x /\ t.p1.width = q.p1.width /\ t.p2.x = q.p2.x
      /\ t.BALL_SPEED_HORIZONTAL = q.BALL_SPEED_HORIZONTAL
  BY <1>2 DEF Steps, Moves, SamePaddle, SameRules
<1>5. Savable(t)
  BY <1>4 DEF Savable
<1>6. LET r == move_ball(t)
      IN  /\ t.ball.x > t.p1.x + t.p1.width => check_scored(r) # 2
          /\ t.ball.x + t.ball.size < t.p2.x => check_scored(r) # 1
  BY <1>3, <1>5, SavedBall
<1>. QED  BY <1>1, <1>4, <1>6

\* A match goes on in a frame of it only.
LEMMA PlayOn ==
  ASSUME [PongNext]_<<scr, pongvars>>, ph = "play", ph' = "play"
  PROVE  \/ ph' = ph /\ g' = g /\ loc' = loc
         \/ \E ks \in Bursts : PlayFrame(ks)
<1>1. CASE PongStep
  <2>1. ~RefreshKey /\ ~configuration /\ ~LeaveConfig
    BY DEF RefreshKey, configuration, LeaveConfig
  <2>2. \A t : ~MenuKey(t) /\ ~PauseKey(t) /\ ~OverKey(t)
    BY DEF MenuKey, PauseKey, OverKey
  <2>. QED  BY <1>1, <2>1, <2>2 DEF PongStep
<1>2. CASE pong \/ kill_foreground_process
  BY <1>2 DEF pong, kill_foreground_process
<1>3. CASE UNCHANGED <<scr, pongvars>>
  BY <1>3 DEF pongvars
<1>. QED  BY <1>1, <1>2, <1>3 DEF PongNext

\* A ball in front of a paddle is met by it before check_scored can find it
\* behind: for every size, speed and paddle that Savable allows.
THEOREM SavesHold == PongSpec => SavedBallDoesNotScore
<1>. DEFINE Saved == /\ g.ball.x > g.p1.x + g.p1.width => check_scored(g') # 2
                     /\ g.ball.x + g.ball.size < g.p2.x => check_scored(g') # 1
<1>1. PongInv /\ [PongNext]_<<scr, pongvars>> => [ph = "play" /\ ph' = "play" /\ Savable(g) => Saved]_pongvars
  <2>. SUFFICES ASSUME PongInv, [PongNext]_<<scr, pongvars>>, ~(UNCHANGED pongvars), ph = "play", ph' = "play", Savable(g)
                PROVE  Saved
    OBVIOUS
  <2>1. ~(ph' = ph /\ g' = g /\ loc' = loc)
    BY DEF pongvars
  <2>2. PICK ks \in Bursts : PlayFrame(ks)
    BY <2>1, PlayOn
  <2>. DEFINE w == loc.pending \o ks
  <2>3. g' = FrameOf(g, w)
    BY <2>2 DEF PlayFrame, Frame
  <2>4. loc \in Locs /\ Field(g, loc.options)
    BY DEF PongInv, Good
  <2>5. loc.Training \in BOOLEAN /\ loc.pending \in Seq(Events)
    BY <2>4 DEF Locs
  <2>6. w \in Seq(Events)
    BY <2>5, BurstOK
  <2>. HIDE DEF w
  <2>7. LET r == FrameOf(g, w)
        IN  /\ g.ball.x > g.p1.x + g.p1.width => check_scored(r) # 2
            /\ g.ball.x + g.ball.size < g.p2.x => check_scored(r) # 1
    BY <2>4, <2>5, <2>6, SavedFrame
  <2>. QED  BY <2>3, <2>7
<1>. QED  BY <1>1, GameInvariant, PTL DEF PongSpec, SavedBallDoesNotScore

-----------------------------------------------------------------------------
(* Pong as a program on the shell's screen. *)

\* Nothing printed.
LEMMA PrintNothing ==
  ASSUME NEW s \in Screens
  PROVE  s \in Printed(s)
<1>1. PICK z \in FontSizes : s \in Page(z)
  BY DEF Screens
<1>2. \A a \in Page(z), x \in Stored : character(a, x) \in Page(z)
  BY CharacterStays
<1>. DEFINE w == << >>
<1>3. w \in Seq(Stored) /\ Len(w) = 0 /\ w \in Outputs
  BY OutputsAssumption
<1>. HIDE DEF w
<1>4. PICK f : Draws(s, w, f)
  BY <1>1, <1>2, <1>3, DrawSteps
<1>5. 1 .. 0 = {}
  OBVIOUS
<1>6. FoldLeft(character, s, w) = s
  BY <1>3, <1>4, <1>5 DEF Draws
<1>7. draw_word(s, w) = FoldLeft(character, s, w)
  <2>1. \A k \in 1 .. Len(w) : w[k] # NUL
    BY <1>3, <1>5
  <2>. QED  BY <1>3, <2>1, DrawAll
<1>. QED  BY <1>3, <1>6, <1>7 DEF Printed

\* A screen cleared, and the font chosen on it, with a word or without.
LEMMA Repaint ==
  ASSUME NEW s \in Screens, NEW z \in FontSizes
  PROVE  set_font_size(clear_color(s), z) \in Repainted(s)
<1>. DEFINE r == set_font_size(clear_color(s), z)
<1>1. r \in Screens
  BY ClearScreen, SetFont
<1>2. r \in Printed(r)
  BY <1>1, PrintNothing
<1>. QED  BY <1>2 DEF Repainted

\* clear_color keeps the font.
LEMMA FontKept ==
  ASSUME NEW s \in Screens
  PROVE  s.size \in FontSizes /\ set_font_size(clear_color(s), s.size) = clear_color(s)
<1>1. s \in Cursor /\ s.size \in FontSizes
  BY DEF Screens, Page
<1>2. clear_color(s) \in Cursor /\ clear_color(s).size = s.size
  <2>1. clear_color(s) \in Screens /\ clear_color(s).size = s.size
    BY ClearScreen
  <2>. QED  BY <2>1 DEF Screens, Page
<1>. DEFINE r == clear_color(s)
<1>. HIDE DEF r
<1>3. [r EXCEPT !.size = r.size] = r
  BY <1>2 DEF Cursor, r
<1>4. set_font_size(r, s.size) = r
  BY <1>2, <1>3 DEF set_font_size, r
<1>. QED  BY <1>1, <1>4 DEF r

\* A screen with the cursor in its corner is as good as cleared.
LEMMA CornerIsClear ==
  ASSUME NEW s \in Screens, s.x = 0, s.y = 0
  PROVE  clear_color(s) = s
<1>1. s \in Cursor
  BY DEF Screens, Page
<1>. QED  BY <1>1 DEF Cursor, clear_color

\* So whatever a phase does to the screen repaints it.
LEMMA Corner ==
  ASSUME scr \in Screens, NEW s, s = clear_color(scr) \/ (s = scr /\ scr.x = 0 /\ scr.y = 0)
  PROVE  /\ \A z \in FontSizes : set_font_size(s, z) \in Repainted(scr)
         /\ \A z \in FontSizes : set_font_size(clear_color(s), z) \in Repainted(scr)
         /\ s \in Repainted(scr)
<1>. DEFINE c == clear_color(scr)
<1>1. c \in Screens /\ c.x = 0 /\ c.y = 0
  BY ClearScreen
<1>2. s = c
  BY CornerIsClear
<1>3. clear_color(c) = c
  BY <1>1, CornerIsClear
<1>4. \A z \in FontSizes : set_font_size(c, z) \in Repainted(scr)
  BY Repaint
<1>. HIDE DEF c
<1>5. c \in Repainted(scr)
  BY <1>4, FontKept DEF c
<1>. QED  BY <1>2, <1>3, <1>4, <1>5

\* A frame changes the font and clears the screen.
LEMMA FrameDraws ==
  ASSUME scr \in Screens, NEW s, s = clear_color(scr) \/ (s = scr /\ scr.x = 0 /\ scr.y = 0),
         NEW q, NEW ks, NEW k, Frame(s, q, ks, k)
  PROVE  scr' \in Repainted(scr)
<1>1. DEFAULT_FONT_SIZE \in FontSizes /\ SCORE_CARD_FONT_SIZE \in FontSizes
  BY FontsFit, PongScreen
<1>2. \/ scr' = set_font_size(clear_color(s), DEFAULT_FONT_SIZE)
      \/ scr' = set_font_size(s, DEFAULT_FONT_SIZE)
      \/ scr' = set_font_size(s, SCORE_CARD_FONT_SIZE)
  BY DEF Frame, Turn
<1>3. /\ \A z \in FontSizes : set_font_size(s, z) \in Repainted(scr)
      /\ \A z \in FontSizes : set_font_size(clear_color(s), z) \in Repainted(scr)
  BY Corner
<1>. QED  BY <1>1, <1>2, <1>3

\* Configuration, from the menu or the pause.
LEMMA OptionsDraw ==
  ASSUME scr \in Screens, scr' = draw_word(clear_color(scr), <<"A", "ENTER">>)
  PROVE  scr' \in Repainted(scr)
<1>. DEFINE c == clear_color(scr)
            w == <<"A", "ENTER">>
<1>1. scr.size \in FontSizes /\ set_font_size(c, scr.size) = c
  BY FontKept
<1>2. w \in Outputs
  BY PongScreen
<1>3. scr' = draw_word(c, w)
  OBVIOUS
<1>. HIDE DEF c, w
<1>4. scr' \in Printed(c)
  BY <1>2, <1>3 DEF Printed
<1>5. scr' \in Printed(set_font_size(c, scr.size))
  BY <1>1, <1>4
<1>. QED  BY <1>1, <1>5 DEF Repainted, c

\* A match begins on an empty screen.
LEMMA BeginDraws ==
  ASSUME scr \in Screens, NEW t, Begin(t)
  PROVE  scr' \in Repainted(scr)
<1>1. scr' = set_font_size(clear_color(scr), SCORE_CARD_FONT_SIZE)
  BY DEF Begin
<1>. QED  BY <1>1, Repaint, PongScreen

\* The keys of the pause and of the final screen.
LEMMA PauseDraws ==
  ASSUME PongInv, NEW p, PauseKey(p) \/ OverKey(p)
  PROVE  scr' \in Repainted(scr)
<1>. DEFINE c == clear_color(scr)
<1>1. scr \in Screens /\ scr.x = 0 /\ scr.y = 0
  BY DEF PongInv, Good, Drawn, PauseKey, OverKey
<1>2. c \in Repainted(scr) /\ \A z \in FontSizes : set_font_size(c, z) \in Repainted(scr)
  BY <1>1, Corner
<1>3. CASE PauseKey(p)
  <2>. DEFINE ks == loc.pending \o <<Event(p, TRUE)>>
  <2>1. \/ scr' = c
        \/ Configure("pause")
        \/ Frame(c, NewMatch(g), ks, [loc EXCEPT !.left = FALSE])
        \/ Frame(scr, g, ks, loc)
    BY <1>3 DEF PauseKey
  <2>2. CASE scr' = c
    BY <1>2, <2>2
  <2>3. CASE Configure("pause")
    BY <1>1, <2>3, OptionsDraw DEF Configure
  <2>. HIDE DEF ks
  <2>4. CASE Frame(c, NewMatch(g), ks, [loc EXCEPT !.left = FALSE])
    BY <1>1, <2>4, FrameDraws
  <2>5. CASE Frame(scr, g, ks, loc)
    BY <1>1, <2>5, FrameDraws
  <2>. QED  BY <2>1, <2>2, <2>3, <2>4, <2>5
<1>4. CASE OverKey(p)
  <2>1. DEFAULT_FONT_SIZE \in FontSizes /\ SCORE_CARD_FONT_SIZE \in FontSizes
    BY FontsFit, PongScreen
  <2>2. scr' = c \/ scr' = set_font_size(c, DEFAULT_FONT_SIZE) \/ scr' = set_font_size(c, SCORE_CARD_FONT_SIZE)
    BY <1>4 DEF OverKey, Turn
  <2>. QED  BY <1>2, <2>1, <2>2
<1>. QED  BY <1>3, <1>4

\* Pong, killed and started again at any moment, uses the screen as Terminal
\* expects of a program: it chooses another font on an empty screen only.
THEOREM DrawsLikeAProgram == PongSpec => DrawsAsProgram
<1>1. PongInv /\ [PongNext]_<<scr, pongvars>>
        => [ph # "off" \/ ph' # "off" => ProgramDraws]_<<scr, pongvars>>
  <2>. SUFFICES ASSUME PongInv, PongNext PROVE scr' \in Printed(scr) \cup Repainted(scr)
    BY DEF ProgramDraws
  <2>0. scr \in Screens
    BY DEF PongInv, Good, Drawn
  <2>. DEFINE c == clear_color(scr)
  <2>c. c \in Repainted(scr) /\ \A z \in FontSizes : set_font_size(c, z) \in Repainted(scr)
    BY <2>0, Corner
  <2>1. CASE pong
    <3>1. scr' = set_font_size(c, DEFAULT_FONT_SIZE)
      BY <2>1 DEF pong
    <3>. QED  BY <2>c, <3>1, FontsFit
  <2>2. CASE kill_foreground_process
    <3>1. scr' = scr
      BY <2>2 DEF kill_foreground_process
    <3>. QED  BY <2>0, <3>1, PrintNothing
  <2>3. CASE RefreshKey
    BY <2>c, <2>3 DEF RefreshKey
  <2>4. CASE configuration
    BY <2>0, <2>4, OptionsDraw DEF configuration
  <2>5. CASE LeaveConfig
    <3>. DEFINE ks == loc.pending \o <<Event("X", TRUE)>>
    <3>1. Begin("X") \/ Frame(c, g, ks, loc)
      BY <2>5 DEF LeaveConfig
    <3>. HIDE DEF ks
    <3>. QED  BY <2>0, <3>1, BeginDraws, FrameDraws
  <2>6. ASSUME NEW t, MenuKey(t) PROVE scr' \in Repainted(scr)
    <3>1. Configure("menu") \/ Begin(t)
      BY <2>6 DEF MenuKey
    <3>2. CASE Configure("menu")
      BY <2>0, <3>2, OptionsDraw DEF Configure
    <3>3. CASE Begin(t)
      BY <2>0, <3>3, BeginDraws
    <3>. QED  BY <3>1, <3>2, <3>3
  <2>7. ASSUME NEW ks, PlayFrame(ks) PROVE scr' \in Repainted(scr)
    <3>. DEFINE w == loc.pending \o ks
    <3>1. scr.x = 0 /\ scr.y = 0 /\ Frame(scr, g, w, loc)
      BY <2>7 DEF PlayFrame, PongInv, Good, Drawn
    <3>. HIDE DEF w
    <3>. QED  BY <2>0, <3>1, FrameDraws
  <2>8. ASSUME NEW p, PauseKey(p) \/ OverKey(p) PROVE scr' \in Repainted(scr)
    BY <2>8, PauseDraws
  <2>. QED  BY <2>1, <2>2, <2>3, <2>4, <2>5, <2>6, <2>7, <2>8 DEF PongNext, PongStep
<1>. QED  BY <1>1, GameInvariant, PTL DEF PongSpec, DrawsAsProgram

-----------------------------------------------------------------------------
(* The shell's screen. *)

\* What a program in the foreground prints stays on the grid of its font.
LEMMA ProgramStays ==
  ASSUME NEW s \in Screens
  PROVE  Printed(s) \subseteq Screens /\ Repainted(s) \subseteq Screens
<1>1. \A out \in Outputs : out \in Seq(Stored)
  <2>1. ASSUME NEW out \in Outputs PROVE out \in Seq(Stored)
    <3>1. out \in Seq({NUL, "A", "SP", "BKSP", "ENTER", "TAB"})
      BY OutputsAssumption
    <3>2. {NUL, "A", "SP", "BKSP", "ENTER", "TAB"} \subseteq Stored
      BY DEF Stored
    <3>3. ASSUME NEW S, NEW T, S \subseteq T, out \in Seq(S) PROVE out \in Seq(T)
      BY <3>3
    <3>. QED  BY <3>1, <3>2, <3>3, Zenon
  <2>. QED  BY <2>1
<1>2. \A r \in Screens, w \in Seq(Stored) : draw_word(r, w) \in Screens
  BY DrawScreen
<1>3. \A r \in Screens : Printed(r) \subseteq Screens
  BY <1>1, <1>2 DEF Printed
<1>4. \A z \in FontSizes : set_font_size(clear_color(s), z) \in Screens
  BY ClearScreen, SetFont
<1>. QED  BY <1>3, <1>4 DEF Repainted

\* So does what the shell writes, to the screen or to pipe 0.
LEMMA EchoStays ==
  ASSUME scr \in Screens, NEW ch0 \in Stored
  PROVE  Echo(ch0) \in Screens
<1>. DEFINE c == IF ch0 = "F1" THEN NUL ELSE ch0
            w == <<c>>
<1>1. c \in Stored
  BY DEF Stored
<1>. HIDE DEF c
<1>2. w \in Seq(Stored)
  BY <1>1
<1>. HIDE DEF w
<1>3. draw_word(scr, w) \in Screens
  BY <1>2, DrawScreen
<1>4. Echo(ch0) = IF InFront THEN draw_word(scr, w) ELSE scr
  BY DEF Echo, w, c
<1>. QED  BY <1>3, <1>4

\* Every step of the shell and its command leaves the cursor on the grid.
LEMMA ShellDraws ==
  ASSUME scr \in Screens, KeyInv, Next
  PROVE  scr' \in Screens
<1>0. 0 \in Nat /\ ch \in Stored
  BY DEF KeyInv, KeyTypes
<1>s. \A s \in Screens : [s EXCEPT !.up = 0] \in Screens
  BY <1>0, SetScrolls
<1>c. clear_color(scr) \in Screens
  BY ClearScreen
<1>p. \A s \in Printed(scr) \cup Repainted(scr) : s \in Screens
  BY ProgramStays
<1>e. Echo(ch) \in Screens
  BY <1>0, EchoStays
<1>1. CASE UNCHANGED scr
  BY <1>1
<1>2. CASE CtrlScreen
  <2>. DEFINE w == <<"ENTER", "A", "ENTER", "A", "ENTER">>
  <2>1. w \in Seq(Stored)
    BY DEF Stored
  <2>2. scr' = [clear_color(scr) EXCEPT !.up = 0] \/ scr' = [draw_word(scr, w) EXCEPT !.up = 0]
    BY <1>2 DEF CtrlScreen
  <2>. HIDE DEF w
  <2>3. draw_word(scr, w) \in Screens
    BY <2>1, DrawScreen
  <2>. QED  BY <1>s, <1>c, <2>2, <2>3
<1>3. CASE Edit
  <2>1. scr' = scr \/ scr' = Echo(ch) \/ scr' = [Echo(ch) EXCEPT !.up = 0]
    BY <1>3 DEF Edit
  <2>. QED  BY <1>s, <1>e, <2>1
<1>4. CASE Enter
  <2>1. scr' = [Echo(ch) EXCEPT !.up = 0]
    BY <1>4 DEF Enter
  <2>. QED  BY <1>s, <1>e, <2>1
<1>5. CASE line_read \/ command_draws
  <2>1. \/ scr' = scr
        \/ \E s \in Printed(scr) \cup Repainted(scr) \cup {clear_color(scr)} : scr' = [s EXCEPT !.up = 0]
    BY <1>5 DEF line_read, command_draws
  <2>. QED  BY <1>s, <1>c, <1>p, <2>1
<1>6. CASE put_line_start
  <2>. DEFINE c == LineStart[i + 1]
  <2>1. c \in Stored
    <3>1. i \in 0 .. 2
      BY <1>6 DEF put_line_start, KeyInv, KeyTypes
    <3>2. i = 0 \/ i = 1 \/ i = 2
      BY <3>1
    <3>. QED  BY <3>2 DEF LineStart, Stored
  <2>2. scr' = [Echo(c) EXCEPT !.up = 0]
    BY <1>6 DEF put_line_start
  <2>. HIDE DEF c
  <2>. QED  BY <1>s, <2>1, <2>2, EchoStays
<1>7. CASE Control \/ CtrlC \/ CtrlD \/ (\E key \in Keys : PlainKey(key)) \/ Lost
  BY <1>7 DEF Control, CtrlC, CtrlD, PlainKey, Store, Lost, vars
<1>8. CASE sys_read \/ Wake_up \/ sys_read_behind \/ junk_read
  BY <1>8 DEF sys_read, Wake_up, ShellTakes, Take, FallAsleep, sys_read_behind, junk_read
<1>9. CASE command_reads \/ command_wakes \/ command_exits
  BY <1>9 DEF command_reads, command_wakes, command_exits, CommandTakes, Take, FallAsleep
<1>. QED  BY <1>2, <1>3, <1>4, <1>5, <1>6, <1>7, <1>8, <1>9 DEF Next

\* The cursor stays on the grid of its font, whoever draws: the shell, a
\* command that it does not wait for, and the interrupt handler.
THEOREM ScreenInvariant == Spec => [](scr \in Screens)
<1>1. Init => scr \in Screens
  <2>. SUFFICES ASSUME Init PROVE scr \in Screens
    OBVIOUS
  <2>1. scr \in Cursor /\ scr.x = 0 /\ scr.y = 0 /\ scr.size = DEFAULT_FONT_SIZE
    BY DEF Init, Cursor, DEFAULT_FONT_SIZE
  <2>. QED  BY <2>1, FontsFit, CornerStays DEF Screens
<1>2. scr \in Screens /\ KeyInv /\ [Next]_vars => (scr \in Screens)'
  <2>1. scr \in Screens /\ UNCHANGED vars => scr' \in Screens
    BY DEF vars
  <2>. QED  BY <2>1, ShellDraws
<1>. QED  BY <1>1, <1>2, TerminalInvariant, PTL DEF Spec

\* The type of the shell, the screen included.
THEOREM TerminalTypes == Spec => []TypeOK
<1>1. scr \in Screens /\ KeyInv => TypeOK
  BY DEF Screens, Page, Cursor, KeyInv, KeyTypes, TypeOK
<1>. QED  BY <1>1, ScreenInvariant, TerminalInvariant, PTL

\* Whatever was typed or printed, in whichever font a command was killed, the
\* next glyph lies inside the screen.
THEOREM GlyphsStay == Spec => []GlyphsOnScreen
<1>1. scr \in Screens => GlyphsOnScreen
  BY GlyphFits DEF GlyphsOnScreen
<1>. QED  BY <1>1, ScreenInvariant, PTL

-----------------------------------------------------------------------------
(* The cells of the screen and the line of the shell. *)
Columns(z) == SCREEN_WIDTH \div (z * GlyphW)
Rows(z) == SCREEN_HEIGHT \div (z * GlyphH)

\* Multiples are ordered like their factors.
LEMMA Factors ==
  ASSUME NEW w \in Nat \ {0}, NEW a \in Int, NEW b \in Int
  PROVE  (a * w =< b * w => a =< b) /\ (a * w < b * w => a < b)
<1>1. ASSUME a > b PROVE a * w > b * w
  <2>1. a - b - 1 \in Nat /\ (a - b - 1) * w = a * w - b * w - w
    BY <1>1
  <2>2. (a - b - 1) * w \in Nat
    BY <2>1
  <2>. QED  BY <2>1, <2>2
<1>2. a * w \in Int /\ b * w \in Int
  OBVIOUS
<1>3. ASSUME a = b PROVE a * w = b * w
  BY <1>3
<1>. QED  BY <1>1, <1>2, <1>3

\* Division undoes multiplication.
LEMMA DivMult ==
  ASSUME NEW w \in Nat \ {0}, NEW c \in Nat
  PROVE  (c * w) \div w = c
<1>. DEFINE x == c * w
            q == x \div w
            r == x % w
<1>1. x \in Nat
  OBVIOUS
<1>2. q \in Int /\ r \in 0 .. w - 1 /\ x = w * q + r
  <2>. HIDE DEF x
  <2>. QED  BY <1>1
<1>. HIDE DEF q, r
<1>3. q * w =< c * w /\ c * w < (q + 1) * w
  <2>1. (q + 1) * w = q * w + w /\ q * w = w * q
    BY <1>2
  <2>2. q * w \in Int
    BY <1>2
  <2>. QED  BY <1>1, <1>2, <2>1, <2>2
<1>4. q =< c /\ c < q + 1
  BY <1>2, <1>3, Factors
<1>. QED  BY <1>2, <1>4 DEF q

\* The columns and rows of a font fill the screen.
LEMMA Grid ==
  ASSUME NEW z \in FontSizes
  PROVE  /\ Columns(z) \in Nat \ {0} /\ SCREEN_WIDTH = Columns(z) * (z * GlyphW)
         /\ Rows(z) \in Nat \ {0} /\ SCREEN_HEIGHT = Rows(z) * (z * GlyphH)
<1>. DEFINE w == z * GlyphW
            h == z * GlyphH
<1>1. w \in Nat \ {0} /\ h \in Nat \ {0} /\ SCREEN_WIDTH \in Mult(w) /\ SCREEN_HEIGHT \in Mult(h)
  BY FontFits
<1>2. SCREEN_WIDTH \in Nat \ {0} /\ SCREEN_HEIGHT \in Nat \ {0}
  BY ScreenAssumption
<1>. HIDE DEF w, h
<1>3. PICK c \in Nat : SCREEN_WIDTH = c * w
  BY <1>1 DEF Mult
<1>4. PICK d \in Nat : SCREEN_HEIGHT = d * h
  BY <1>1 DEF Mult
<1>5. SCREEN_WIDTH \div w = c /\ SCREEN_HEIGHT \div h = d
  BY <1>1, <1>3, <1>4, DivMult
<1>6. c # 0 /\ d # 0
  BY <1>1, <1>2, <1>3, <1>4
<1>. QED  BY <1>3, <1>4, <1>5, <1>6 DEF Columns, Rows, w, h

\* The cell of a cursor in column a and row b.
Place(s, z, a, b) == s.size = z /\ s.x = a * (z * GlyphW) /\ s.y = b * (z * GlyphH)

\* Its number.
LEMMA CellAt ==
  ASSUME NEW z \in FontSizes, NEW s \in Cursor, NEW a \in Nat, NEW b \in Nat, Place(s, z, a, b)
  PROVE  Cell(s) = (b + s.up) * Columns(z) + a
<1>. DEFINE w == z * GlyphW
            h == z * GlyphH
<1>1. w \in Nat \ {0} /\ h \in Nat \ {0}
  BY FontFits
<1>2. s.x = a * w /\ s.y = b * h /\ Width(s) = w /\ Height(s) = h
  BY DEF Place, Width, Height
<1>3. Columns(z) = SCREEN_WIDTH \div w
  BY DEF Columns
<1>. HIDE DEF w, h
<1>4. s.x \div w = a /\ s.y \div h = b
  BY <1>1, <1>2, DivMult
<1>. QED  BY <1>2, <1>3, <1>4 DEF Cell

\* Every cursor on the grid is in a cell, in a row of the screen and, unless it
\* is past the edge, in a column or right behind the last one.
LEMMA PlaceOf ==
  ASSUME NEW z \in FontSizes, NEW s \in Page(z)
  PROVE  \E a, b \in Nat : /\ Place(s, z, a, b) /\ b < Rows(z)
                           /\ (s.x =< SCREEN_WIDTH => a =< Columns(z))
                           /\ (s.x < SCREEN_WIDTH => a < Columns(z))
<1>. DEFINE w == z * GlyphW
            h == z * GlyphH
<1>1. w \in Nat \ {0} /\ h \in Nat \ {0}
  BY FontFits
<1>2. s.size = z /\ s.x \in Mult(w) /\ s.y \in Mult(h) /\ s.y + h =< SCREEN_HEIGHT
  BY DEF Page, OnGrid
<1>3. /\ Columns(z) \in Nat /\ SCREEN_WIDTH = Columns(z) * w
      /\ Rows(z) \in Nat /\ SCREEN_HEIGHT = Rows(z) * h
  BY Grid
<1>. HIDE DEF w, h
<1>4. PICK a \in Nat : s.x = a * w
  BY <1>2 DEF Mult
<1>5. PICK b \in Nat : s.y = b * h
  BY <1>2 DEF Mult
<1>6. b < Rows(z)
  <2>1. b * h < Rows(z) * h
    <3>1. b * h \in Nat
      BY <1>1
    <3>. QED  BY <1>1, <1>2, <1>3, <1>5, <3>1, ScreenAssumption
  <2>. QED  BY <1>1, <1>3, <2>1, Factors
<1>7. (s.x =< SCREEN_WIDTH => a =< Columns(z)) /\ (s.x < SCREEN_WIDTH => a < Columns(z))
  BY <1>1, <1>3, <1>4, Factors
<1>8. Place(s, z, a, b)
  BY <1>2, <1>4, <1>5 DEF Place, w, h
<1>. QED  BY <1>6, <1>7, <1>8

\* The wrap and the scroll leave the cursor in its cell.
LEMMA LineUpCell ==
  ASSUME NEW z \in FontSizes, NEW s \in Page(z), s.x =< SCREEN_WIDTH
  PROVE  LET t == check_line_up(s)
         IN  /\ t \in Page(z) /\ t.x + z * GlyphW =< SCREEN_WIDTH /\ Cell(t) = Cell(s)
             /\ \/ t.up = s.up
                \/ t.up = s.up + 1 /\ Cell(t) = (Rows(z) - 1 + t.up) * Columns(z)
<1>. DEFINE w == z * GlyphW
            h == z * GlyphH
            t == check_line_up(s)
<1>0. w \in Nat \ {0} /\ h \in Nat \ {0}
  BY FontFits
<1>1. /\ Columns(z) \in Nat \ {0} /\ SCREEN_WIDTH = Columns(z) * w
      /\ Rows(z) \in Nat \ {0} /\ SCREEN_HEIGHT = Rows(z) * h
  BY Grid
<1>2. s \in Cursor /\ s.size = z /\ OnGrid(s, w, h) /\ Height(s) = h /\ s.x \in Nat /\ s.y \in Nat /\ s.up \in Nat
  BY DEF Page, Height, Cursor
<1>3. SCREEN_WIDTH \in Nat \ {0} /\ SCREEN_HEIGHT \in Nat \ {0} /\ Word \in Nat /\ Word > SCREEN_HEIGHT
  BY ScreenAssumption
<1>4. t \in Page(z) /\ t.x + w =< SCREEN_WIDTH
  BY LineUp
<1>. HIDE DEF w, h
<1>5. s.y + h =< SCREEN_HEIGHT /\ s.y < SCREEN_HEIGHT
  BY <1>0, <1>2, <1>3 DEF OnGrid
<1>6. CASE s.x < SCREEN_WIDTH
  <2>1. ~(s.x >= SCREEN_WIDTH) /\ ~(s.y >= SCREEN_HEIGHT)
    BY <1>2, <1>3, <1>5, <1>6
  <2>2. t = s
    BY <2>1 DEF check_line_up
  <2>. QED  BY <1>4, <2>2 DEF w
<1>7. CASE s.x = SCREEN_WIDTH
  <2>. DEFINE v == s.y + h
              e1 == [s EXCEPT !.x = 0]
              r == [e1 EXCEPT !.y = v]
              e == [r EXCEPT !.x = 0]
  <2>0. 0 = 0 * w
    BY <1>0
  <2>1. PICK a \in Nat, b \in Nat : /\ Place(s, z, a, b) /\ b < Rows(z)
                                    /\ (s.x =< SCREEN_WIDTH => a =< Columns(z))
    BY PlaceOf
  <2>2. a = Columns(z)
    <3>1. Columns(z) * w =< a * w
      <4>1. a * w \in Nat
        BY <1>0
      <4>. QED  BY <1>1, <1>7, <2>1, <4>1 DEF Place, w
    <3>. QED  BY <1>0, <1>1, <1>7, <2>1, <3>1, Factors
  <2>3. s.y = b * h
    BY <2>1 DEF Place, h
  <2>4. Cell(s) = (b + s.up) * Columns(z) + Columns(z)
    BY <1>2, <2>1, <2>2, CellAt
  <2>5. v \in Nat /\ v = (b + 1) * h
    <3>1. (b + 1) * h = b * h + h
      BY <1>0
    <3>. QED  BY <1>0, <1>2, <2>3, <3>1
  <2>6. t = IF r.y >= SCREEN_HEIGHT THEN move_one_line_up(e) ELSE r
    <3>1. s.x >= SCREEN_WIDTH
      BY <1>3, <1>7
    <3>2. r = [s EXCEPT !.x = 0, !.y = s.y + h]
      OBVIOUS
    <3>. HIDE DEF r
    <3>. QED  BY <1>2, <3>1, <3>2 DEF check_line_up
  <2>. HIDE DEF v
  <2>7. e1 \in Cursor /\ e1.x = 0 /\ e1.size = z /\ e1.up = s.up
    BY <1>2, SetX
  <2>. HIDE DEF e1
  <2>8. r \in Cursor /\ r.x = 0 /\ r.y = v /\ r.size = z /\ r.up = s.up
    BY <2>5, <2>7, SetY
  <2>. HIDE DEF r, t
  <2>c. (b + s.up) * Columns(z) + Columns(z) = (b + 1 + s.up) * Columns(z)
    BY <1>1, <1>2
  <2>9. CASE ~(v >= SCREEN_HEIGHT)
    <3>1. t = r
      BY <2>6, <2>8, <2>9
    <3>2. Place(t, z, 0, b + 1)
      BY <2>0, <2>5, <2>8, <3>1 DEF Place, h, w
    <3>3. Cell(t) = (b + 1 + t.up) * Columns(z) + 0
      BY <2>8, <3>1, <3>2, CellAt
    <3>4. Cell(t) = Cell(s) /\ t.up = s.up
      BY <1>1, <1>2, <2>4, <2>8, <2>c, <3>1, <3>3
    <3>. QED  BY <1>4, <3>4 DEF t, w
  <2>10. CASE v >= SCREEN_HEIGHT
    <3>1. e \in Cursor /\ e.x = 0 /\ e.y = v /\ e.size = z /\ e.up = s.up
      BY <2>8, SetX
    <3>. HIDE DEF e
    <3>2. Height(e) = h
      BY <3>1 DEF Height, h
    <3>3. (e.y - h) % Word = s.y
      <4>1. e.y - h = s.y /\ s.y < Word
        BY <1>0, <1>2, <1>3, <1>5, <3>1 DEF v
      <4>. QED  BY <1>2, <1>3, <4>1, SmallMod
    <3>. DEFINE k == e.up + 1
                u1 == [e EXCEPT !.y = s.y]
                u2 == [u1 EXCEPT !.up = k]
    <3>4. t = u2
      BY <2>6, <2>8, <2>10, <3>2, <3>3 DEF move_one_line_up
    <3>5. k \in Nat /\ k = s.up + 1
      BY <1>2, <3>1
    <3>. HIDE DEF k
    <3>6. u1 \in Cursor /\ u1.x = 0 /\ u1.y = s.y /\ u1.size = z
      BY <1>2, <3>1, SetY
    <3>. HIDE DEF u1
    <3>7. u2 \in Cursor /\ u2.x = 0 /\ u2.y = s.y /\ u2.size = z /\ u2.up = k
      BY <3>5, <3>6, SetUp
    <3>. HIDE DEF u2
    <3>8. Place(t, z, 0, b)
      BY <2>0, <2>3, <3>4, <3>7 DEF Place, h, w
    <3>9. Cell(t) = (b + t.up) * Columns(z) + 0
      BY <3>4, <3>7, <3>8, CellAt
    <3>10. t.up = s.up + 1 /\ b + 1 + s.up = b + t.up
      BY <1>2, <3>4, <3>5, <3>7
    <3>11. b = Rows(z) - 1
      <4>1. Rows(z) * h =< (b + 1) * h
        BY <1>1, <2>5, <2>10
      <4>. QED  BY <1>0, <1>1, <2>1, <4>1, Factors
    <3>12. (b + t.up) * Columns(z) \in Int
      BY <1>1, <1>2, <3>10
    <3>13. Cell(t) = Cell(s)
      BY <2>4, <2>c, <3>9, <3>10, <3>12
    <3>14. Cell(t) = (Rows(z) - 1 + t.up) * Columns(z)
      BY <3>9, <3>11, <3>12
    <3>. QED  BY <1>4, <3>10, <3>13, <3>14 DEF t, w
  <2>. QED  BY <2>9, <2>10
<1>. QED  BY <1>2, <1>3, <1>6, <1>7

\* One column to the right.
LEMMA NextColumn ==
  ASSUME NEW z \in FontSizes, NEW t \in Page(z), t.x + z * GlyphW =< SCREEN_WIDTH
  PROVE  LET r == [t EXCEPT !.x = t.x + z * GlyphW]
         IN  r \in Page(z) /\ r.x =< SCREEN_WIDTH /\ r.up = t.up /\ Cell(r) = Cell(t) + 1
<1>. DEFINE w == z * GlyphW
            v == t.x + w
            r == [t EXCEPT !.x = v]
<1>0. w \in Nat \ {0}
  BY FontFits
<1>1. t \in Cursor /\ t.x \in Mult(w) /\ t.x \in Nat /\ t.up \in Nat /\ Columns(z) \in Nat
  BY Grid DEF Page, OnGrid, Cursor
<1>. HIDE DEF w
<1>2. v \in Mult(w) /\ v \in Nat
  BY <1>0, <1>1, Multiples
<1>3. r \in Page(z)
  BY <1>2, AlongRow DEF w
<1>4. PICK a \in Nat, b \in Nat : Place(t, z, a, b)
  BY PlaceOf
<1>5. v = (a + 1) * w
  <2>1. (a + 1) * w = a * w + w
    BY <1>0
  <2>. QED  BY <1>4, <2>1 DEF Place, w
<1>6. r \in Cursor /\ r.x = v /\ r.y = t.y /\ r.size = t.size /\ r.up = t.up
  <2>. HIDE DEF v
  <2>. QED  BY <1>1, <1>2, SetX
<1>. HIDE DEF r
<1>7. Place(r, z, a + 1, b)
  BY <1>4, <1>5, <1>6 DEF Place, w
<1>8. Cell(r) = (b + r.up) * Columns(z) + (a + 1) /\ Cell(t) = (b + t.up) * Columns(z) + a
  BY <1>1, <1>4, <1>6, <1>7, CellAt
<1>9. (b + t.up) * Columns(z) \in Int
  BY <1>1
<1>10. Cell(r) = Cell(t) + 1
  BY <1>6, <1>8, <1>9
<1>11. r.x =< SCREEN_WIDTH
  BY <1>6 DEF w
<1>. QED  BY <1>3, <1>6, <1>10, <1>11 DEF r, w

\* A glyph takes the next cell, after a wrap or a scroll too.
LEMMA GlyphCell ==
  ASSUME NEW z \in FontSizes, NEW s \in Page(z), s.x =< SCREEN_WIDTH
  PROVE  LET r == character(s, "A")
         IN  /\ r \in Page(z) /\ r.x =< SCREEN_WIDTH /\ Cell(r) = Cell(s) + 1
             /\ \/ r.up = s.up
                \/ r.up = s.up + 1 /\ Cell(r) = (Rows(z) - 1 + r.up) * Columns(z) + 1
<1>. DEFINE t == check_line_up(s)
            r == [t EXCEPT !.x = t.x + z * GlyphW]
<1>1. character(s, "A") = r
  <2>1. Width(s) = z * GlyphW
    BY DEF Page, Width
  <2>. QED  BY <2>1 DEF character
<1>2. /\ t \in Page(z) /\ t.x + z * GlyphW =< SCREEN_WIDTH /\ Cell(t) = Cell(s)
      /\ \/ t.up = s.up
         \/ t.up = s.up + 1 /\ Cell(t) = (Rows(z) - 1 + t.up) * Columns(z)
  BY LineUpCell
<1>. HIDE DEF t
<1>3. r \in Page(z) /\ r.x =< SCREEN_WIDTH /\ r.up = t.up /\ Cell(r) = Cell(t) + 1
  BY <1>2, NextColumn
<1>. HIDE DEF r
<1>. QED  BY <1>1, <1>2, <1>3

\* So does white space before the edge.
LEMMA SpaceCell ==
  ASSUME NEW z \in FontSizes, NEW s \in Page(z), s.x < SCREEN_WIDTH
  PROVE  LET r == character(s, "SP")
         IN  r \in Page(z) /\ r.x =< SCREEN_WIDTH /\ Cell(r) = Cell(s) + 1 /\ r.up = s.up
<1>. DEFINE w == z * GlyphW
            r == [s EXCEPT !.x = s.x + z * GlyphW]
<1>1. character(s, "SP") = r
  <2>1. Width(s) = z * GlyphW
    BY DEF Page, Width
  <2>. QED  BY <2>1 DEF character
<1>2. s.x + w =< SCREEN_WIDTH
  <2>1. w \in Nat \ {0} /\ SCREEN_WIDTH \in Mult(w) /\ s.x \in Mult(w)
    BY FontFits DEF Page, OnGrid
  <2>. HIDE DEF w
  <2>. QED  BY <2>1, MultiplesApart
<1>3. r \in Page(z) /\ r.x =< SCREEN_WIDTH /\ r.up = s.up /\ Cell(r) = Cell(s) + 1
  BY <1>2, NextColumn
<1>. HIDE DEF r
<1>. QED  BY <1>1, <1>3

\* A backspace goes back to the cell before, over the end of a line too, unless
\* the cursor is in the corner.
LEMMA BackspaceCell ==
  ASSUME NEW z \in FontSizes, NEW s \in Page(z), s.x =< SCREEN_WIDTH, s.x > 0 \/ s.y > 0
  PROVE  LET r == character(s, "BKSP")
         IN  r \in Page(z) /\ r.x =< SCREEN_WIDTH /\ Cell(r) = Cell(s) - 1 /\ r.up = s.up
<1>. DEFINE w == z * GlyphW
            h == z * GlyphH
            r == character(s, "BKSP")
<1>0. w \in Nat \ {0} /\ h \in Nat \ {0} /\ SCREEN_WIDTH \in Mult(w)
  BY FontFits
<1>1. Columns(z) \in Nat \ {0} /\ SCREEN_WIDTH = Columns(z) * w
  BY Grid
<1>2. /\ s \in Cursor /\ s.size = z /\ Height(s) = h /\ Width(s) = w /\ s.x \in Nat /\ s.y \in Nat /\ s.up \in Nat
      /\ s.x \in Mult(w) /\ s.y \in Mult(h) /\ s.y + h =< SCREEN_HEIGHT
  BY DEF Page, Height, Width, Cursor, OnGrid
<1>3. /\ SCREEN_WIDTH \in Nat \ {0} /\ SCREEN_HEIGHT \in Nat \ {0}
      /\ Word \in Nat /\ Word > SCREEN_HEIGHT /\ Word > SCREEN_WIDTH
  BY ScreenAssumption
<1>4. r \in Page(z) /\ r = backspace(s)
  BY CharacterStays DEF character
<1>5. PICK a \in Nat, b \in Nat : Place(s, z, a, b)
  BY PlaceOf
<1>6. Cell(s) = (b + s.up) * Columns(z) + a
  BY <1>2, <1>5, CellAt
<1>7. s.x = a * w /\ s.y = b * h
  BY <1>5 DEF Place
<1>. HIDE DEF w, h, r
<1>8. CASE s.x > 0
  <2>. DEFINE v == s.x - w
  <2>1. v \in Nat /\ v < Word /\ v =< SCREEN_WIDTH
    <3>1. s.x >= w
      BY <1>0, <1>2, <1>8, Multiples
    <3>. QED  BY <1>0, <1>2, <1>3, <3>1
  <2>2. r = [s EXCEPT !.x = v]
    <3>1. (s.x - w) % Word = v
      BY <1>3, <2>1, SmallMod
    <3>. QED  BY <1>2, <1>4, <1>8, <3>1 DEF backspace
  <2>3. a >= 1 /\ v = (a - 1) * w
    <3>1. a # 0
      BY <1>0, <1>7, <1>8
    <3>2. (a - 1) * w = a * w - w
      BY <1>0
    <3>. QED  BY <1>7, <3>1, <3>2
  <2>. HIDE DEF v
  <2>4. r.x = v /\ r.y = s.y /\ r.size = z /\ r.up = s.up
    BY <1>2, <2>1, <2>2, SetX
  <2>5. Place(r, z, a - 1, b)
    BY <1>7, <2>3, <2>4 DEF Place, w, h
  <2>6. Cell(r) = (b + r.up) * Columns(z) + (a - 1)
    <3>1. a - 1 \in Nat /\ r \in Cursor
      BY <1>4, <2>3 DEF Page
    <3>. QED  BY <2>5, <3>1, CellAt
  <2>7. (b + s.up) * Columns(z) \in Int
    BY <1>1, <1>2
  <2>8. Cell(r) = Cell(s) - 1 /\ r.x =< SCREEN_WIDTH
    BY <1>6, <2>1, <2>4, <2>6, <2>7
  <2>. QED  BY <1>4, <2>4, <2>8 DEF r
<1>9. CASE ~(s.x > 0) /\ s.y > 0
  <2>. DEFINE v == s.y - h
              u == SCREEN_WIDTH - w
              m == [s EXCEPT !.y = v]
              t == [m EXCEPT !.x = u]
  <2>1. v \in Nat /\ v < Word
    <3>1. s.y >= h
      BY <1>0, <1>2, <1>9, Multiples
    <3>. QED  BY <1>0, <1>2, <1>3, <3>1
  <2>2. r = t
    <3>1. (s.y - h) % Word = v
      BY <1>3, <2>1, SmallMod
    <3>. QED  BY <1>2, <1>4, <1>9, <3>1 DEF backspace
  <2>3. b >= 1 /\ v = (b - 1) * h
    <3>1. b # 0
      BY <1>0, <1>7, <1>9
    <3>2. (b - 1) * h = b * h - h
      BY <1>0
    <3>. QED  BY <1>7, <3>1, <3>2
  <2>4. u \in Nat /\ u =< SCREEN_WIDTH /\ u = (Columns(z) - 1) * w
    <3>1. (Columns(z) - 1) * w = Columns(z) * w - w
      BY <1>0, <1>1
    <3>2. Columns(z) - 1 \in Nat
      BY <1>1
    <3>3. (Columns(z) - 1) * w \in Nat
      BY <1>0, <3>2
    <3>. QED  BY <1>0, <1>1, <1>3, <3>1, <3>3
  <2>5. a = 0
    <3>1. a * w =< 0 * w
      BY <1>0, <1>2, <1>7, <1>9
    <3>. QED  BY <1>0, <3>1, Factors
  <2>. HIDE DEF v, u
  <2>6. m \in Cursor /\ m.y = v /\ m.size = z /\ m.up = s.up
    BY <1>2, <2>1, SetY
  <2>. HIDE DEF m
  <2>7. t \in Cursor /\ t.x = u /\ t.y = v /\ t.size = z /\ t.up = s.up
    BY <2>4, <2>6, SetX
  <2>. HIDE DEF t
  <2>8. Place(t, z, Columns(z) - 1, b - 1)
    BY <2>3, <2>4, <2>7 DEF Place, w, h
  <2>9. Cell(t) = (b - 1 + t.up) * Columns(z) + (Columns(z) - 1)
    <3>1. b - 1 \in Nat /\ Columns(z) - 1 \in Nat
      BY <1>1, <2>3
    <3>. QED  BY <2>7, <2>8, <3>1, CellAt
  <2>10. (b - 1 + s.up) * Columns(z) = (b + s.up) * Columns(z) - Columns(z) /\ (b + s.up) * Columns(z) \in Int
    BY <1>1, <1>2
  <2>11. Cell(t) = Cell(s) - 1 /\ t.x =< SCREEN_WIDTH
    BY <1>1, <1>6, <2>4, <2>5, <2>7, <2>9, <2>10
  <2>. QED  BY <1>4, <2>2, <2>7, <2>11 DEF r
<1>. QED  BY <1>8, <1>9

\* A scroll left the cursor in the last row: the cells since are not before m.
Scrolled(s, m) == s.up = 0 \/ (Rows(s.size) - 1 + s.up) * Columns(s.size) + 1 =< m

\* The screen shows n characters of a line that starts at the cell hm.
Shown(s, hm, n) == s.x =< SCREEN_WIDTH /\ Cell(s) = hm + n /\ Scrolled(s, hm + BUFFER_SIZE - 1)

\* What the cells of a page are.
LEMMA PageCells ==
  ASSUME NEW z \in FontSizes, NEW s \in Page(z)
  PROVE  /\ s.size = z /\ s.up \in Nat /\ Cell(s) \in Nat /\ Rows(z) \in Nat \ {0} /\ Columns(z) \in Nat \ {0}
         /\ (Rows(z) - 1 + s.up) * Columns(z) \in Nat
<1>1. s \in Cursor /\ s.size = z /\ s.up \in Nat
  BY DEF Page, Cursor
<1>2. Rows(z) \in Nat \ {0} /\ Columns(z) \in Nat \ {0}
  BY Grid
<1>3. PICK a \in Nat, b \in Nat : Place(s, z, a, b)
  BY PlaceOf
<1>4. Cell(s) = (b + s.up) * Columns(z) + a
  BY <1>1, <1>3, CellAt
<1>5. b + s.up \in Nat /\ Rows(z) - 1 + s.up \in Nat
  BY <1>1, <1>2
<1>6. (b + s.up) * Columns(z) \in Nat /\ (Rows(z) - 1 + s.up) * Columns(z) \in Nat
  BY <1>2, <1>5
<1>. QED  BY <1>1, <1>2, <1>4, <1>6

\* A glyph of the line.
LEMMA ShowGlyph ==
  ASSUME NEW z \in FontSizes, NEW s \in Page(z), NEW hm \in Nat, NEW n \in 0 .. BUFFER_SIZE - 1, Shown(s, hm, n), n # BUFFER_SIZE - 1
  PROVE  Shown(character(s, "A"), hm, n + 1)
<1>. DEFINE r == character(s, "A")
<1>1. /\ r \in Page(z) /\ r.x =< SCREEN_WIDTH /\ Cell(r) = Cell(s) + 1
      /\ \/ r.up = s.up
         \/ r.up = s.up + 1 /\ Cell(r) = (Rows(z) - 1 + r.up) * Columns(z) + 1
  BY GlyphCell DEF Shown
<1>. HIDE DEF r
<1>2. /\ s.size = z /\ r.size = z /\ Cell(s) = hm + n /\ BUFFER_SIZE \in Nat
      /\ s.up = 0 \/ (Rows(z) - 1 + s.up) * Columns(z) + 1 =< hm + BUFFER_SIZE - 1
  BY <1>1, TerminalAssumption DEF Shown, Scrolled, Page
<1>3. Cell(r) = hm + (n + 1) /\ Cell(r) =< hm + BUFFER_SIZE - 1
  BY <1>1, <1>2
<1>4. r.up = 0 \/ (Rows(z) - 1 + r.up) * Columns(z) + 1 =< hm + BUFFER_SIZE - 1
  <2>1. CASE r.up = s.up
    BY <1>2, <2>1
  <2>2. CASE r.up = s.up + 1 /\ Cell(r) = (Rows(z) - 1 + r.up) * Columns(z) + 1
    BY <1>3, <2>2
  <2>. QED  BY <1>1, <2>1, <2>2
<1>5. Shown(r, hm, n + 1)
  BY <1>1, <1>2, <1>3, <1>4 DEF Shown, Scrolled
<1>. QED  BY <1>5 DEF r

\* White space of the line, before the edge.
LEMMA ShowSpace ==
  ASSUME NEW z \in FontSizes, NEW s \in Page(z), NEW hm \in Nat, NEW n \in Nat, Shown(s, hm, n), s.x < SCREEN_WIDTH
  PROVE  Shown(character(s, "SP"), hm, n + 1)
<1>. DEFINE r == character(s, "SP")
<1>1. r \in Page(z) /\ r.x =< SCREEN_WIDTH /\ Cell(r) = Cell(s) + 1 /\ r.up = s.up
  BY SpaceCell
<1>. HIDE DEF r
<1>2. s.size = z /\ r.size = z /\ Cell(s) = hm + n
  BY <1>1 DEF Shown, Page
<1>3. Cell(r) = hm + (n + 1)
  BY <1>1, <1>2
<1>4. Shown(r, hm, n + 1)
  BY <1>1, <1>2, <1>3 DEF Shown, Scrolled
<1>. QED  BY <1>4 DEF r

\* A backspace in a line that is not empty never meets the corner of the
\* screen, because no line is so long that its start has scrolled away.
LEMMA ShowErase ==
  ASSUME NEW z \in FontSizes, NEW s \in Page(z), NEW hm \in Nat, NEW n \in 1 .. BUFFER_SIZE - 1, Shown(s, hm, n)
  PROVE  Shown(character(s, "BKSP"), hm, n - 1)
<1>. DEFINE r == character(s, "BKSP")
            C == Columns(z)
            R == Rows(z)
<1>0. /\ s.size = z /\ s.up \in Nat /\ Cell(s) \in Nat /\ R \in Nat \ {0} /\ C \in Nat \ {0}
      /\ s \in Cursor /\ BUFFER_SIZE \in Nat
  BY PageCells, TerminalAssumption DEF Page
<1>1. s.x > 0 \/ s.y > 0
  <2>. SUFFICES ASSUME ~(s.x > 0), ~(s.y > 0) PROVE FALSE
    OBVIOUS
  <2>1. s.x = 0 /\ s.y = 0
    BY <1>0 DEF Cursor
  <2>2. Place(s, z, 0, 0)
    <3>1. 0 = 0 * (z * GlyphW) /\ 0 = 0 * (z * GlyphH)
      BY FontFits
    <3>. QED  BY <1>0, <2>1, <3>1 DEF Place
  <2>3. Cell(s) = (0 + s.up) * C + 0
    BY <1>0, <2>2, CellAt
  <2>. HIDE DEF C, R
  <2>4. (0 + s.up) * C = s.up * C /\ s.up * C \in Nat
    BY <1>0
  <2>5. s.up * C = hm + n
    BY <2>3, <2>4 DEF Shown
  <2>6. s.up # 0
    <3>1. s.up = 0 => s.up * C = 0
      BY <1>0
    <3>. QED  BY <2>5, <3>1
  <2>7. (R - 1 + s.up) * C + 1 =< hm + BUFFER_SIZE - 1
    BY <1>0, <2>6 DEF Shown, Scrolled, C, R
  <2>8. (R - 1 + s.up) * C = (R - 1) * C + s.up * C /\ (R - 1) * C \in Int
    BY <1>0
  <2>9. BUFFER_SIZE - 1 =< (R - 1) * C
    BY LineFits DEF R, C, Rows, Columns
  <2>. QED  BY <1>0, <2>5, <2>7, <2>8, <2>9
<1>2. r \in Page(z) /\ r.x =< SCREEN_WIDTH /\ Cell(r) = Cell(s) - 1 /\ r.up = s.up
  BY <1>1, BackspaceCell DEF Shown
<1>. HIDE DEF r
<1>3. r.size = z /\ Cell(s) = hm + n
  BY <1>2 DEF Shown, Page
<1>4. Cell(r) = hm + (n - 1)
  BY <1>2, <1>3
<1>5. Shown(r, hm, n - 1)
  BY <1>0, <1>2, <1>3, <1>4 DEF Shown, Scrolled
<1>. QED  BY <1>5 DEF r

\* The inductive invariant of the echo, beside KeyInv: a line is clean only
\* while the shell has the foreground and reads, and then it is shown.
Typing == cmd = "none" /\ at \in {"call", "asleep", "got"}
EchoInv == /\ home \in Nat /\ clean \in BOOLEAN
           /\ clean => Typing /\ Shown(scr, home, i)

\* A character of the line and its echo.
LEMMA EditShows ==
  ASSUME scr \in Screens, KeyInv, EchoInv, Edit
  PROVE  /\ home' \in Nat /\ clean' \in BOOLEAN
         /\ clean' => clean /\ Shown(scr', home', i')
<1>1. /\ home \in Nat /\ clean \in BOOLEAN /\ (clean => cmd = "none" /\ Shown(scr, home, i))
      /\ i \in 0 .. BUFFER_SIZE - 1 /\ ch \in Stored /\ BUFFER_SIZE \in Nat
  BY TerminalAssumption DEF EchoInv, Typing, KeyInv, KeyTypes
<1>2. PICK z \in FontSizes : scr \in Page(z)
  BY DEF Screens
<1>3. CASE ~Accepted(ch)
  <2>1. scr' = scr /\ home' = home /\ clean' = clean /\ i' = i
    BY <1>3 DEF Edit
  <2>. QED  BY <1>1, <2>1
<1>4. CASE Accepted(ch) /\ ~(clean /\ OneCell(ch))
  <2>1. clean' = FALSE
    BY <1>4 DEF Edit
  <2>2. home' = 0
    BY <1>4, <2>1 DEF Edit
  <2>. QED  BY <2>1, <2>2
<1>5. CASE Accepted(ch) /\ clean /\ OneCell(ch)
  <2>1. clean' = TRUE
    BY <1>5 DEF Edit
  <2>2. /\ scr' = Echo(ch) /\ home' = home
        /\ i' = IF ch = "BKSP" THEN (IF i > 0 THEN i - 1 ELSE 0) ELSE i + 1
    BY <1>5, <2>1 DEF Edit
  <2>3. ch \in {"A", "BKSP", "SP"} /\ (ch = "SP" => scr.x < SCREEN_WIDTH)
    BY <1>5 DEF OneCell
  <2>4. scr' = character(scr, ch)
    <3>1. Echo(ch) = draw_word(scr, <<ch>>)
      BY <1>1, <1>5, <2>3 DEF Echo, InFront
    <3>2. ch \in Stored \ {NUL}
      BY <2>3 DEF Stored, NUL
    <3>3. \A c \in Stored \ {NUL} : draw_word(scr, <<c>>) = character(scr, c)
      BY <1>2, DrawOne
    <3>. QED  BY <2>2, <3>1, <3>2, <3>3
  <2>5. Shown(scr, home, i)
    BY <1>1, <1>5
  <2>6. CASE ch = "A"
    <3>1. i # BUFFER_SIZE - 1 /\ i' = i + 1
      BY <1>5, <2>2, <2>6 DEF Accepted
    <3>2. Shown(character(scr, "A"), home, i + 1)
      BY <1>1, <1>2, <2>5, <3>1, ShowGlyph
    <3>. QED  BY <1>1, <1>5, <2>1, <2>2, <2>4, <2>6, <3>1, <3>2
  <2>7. CASE ch = "SP"
    <3>1. i' = i + 1 /\ scr.x < SCREEN_WIDTH /\ i \in Nat
      BY <1>1, <2>2, <2>3, <2>7
    <3>2. Shown(character(scr, "SP"), home, i + 1)
      BY <1>1, <1>2, <2>5, <3>1, ShowSpace
    <3>. QED  BY <1>1, <1>5, <2>1, <2>2, <2>4, <2>7, <3>1, <3>2
  <2>8. CASE ch = "BKSP"
    <3>1. i > 0 /\ i' = i - 1 /\ i \in 1 .. BUFFER_SIZE - 1
      BY <1>1, <1>5, <2>2, <2>8 DEF Accepted
    <3>2. Shown(character(scr, "BKSP"), home, i - 1)
      BY <1>1, <1>2, <2>5, <3>1, ShowErase
    <3>. QED  BY <1>1, <1>5, <2>1, <2>2, <2>4, <2>8, <3>1, <3>2
  <2>. QED  BY <2>3, <2>6, <2>7, <2>8
<1>. QED  BY <1>3, <1>4, <1>5

\* Every step of the shell and its command keeps the echo.
LEMMA EchoStep ==
  ASSUME scr \in Screens, KeyInv, EchoInv, Next
  PROVE  EchoInv'
<1>0. home \in Nat /\ clean \in BOOLEAN /\ (clean => Typing /\ Shown(scr, home, i))
  BY DEF EchoInv
<1>k. KeyTypes
  BY DEF KeyInv
<1>a. ASSUME UNCHANGED <<home, clean>>, ~clean PROVE EchoInv'
  BY <1>0, <1>a DEF EchoInv
<1>b. ASSUME UNCHANGED <<scr, i, home, clean>>, Typing => Typing' PROVE EchoInv'
  BY <1>0, <1>b DEF EchoInv
<1>c. ASSUME home' = 0, clean' = FALSE PROVE EchoInv'
  BY <1>c DEF EchoInv
<1>1. CASE Control \/ Lost
  <2>1. UNCHANGED <<scr, i, home, clean, cmd, at>>
    BY <1>1 DEF Control, Lost, vars, tvars
  <2>. QED  BY <1>b, <2>1 DEF Typing
<1>2. CASE CtrlC \/ CtrlD \/ (\E key \in Keys : PlainKey(key))
  <2>1. UNCHANGED <<scr, i, home, clean>> /\ cmd' \in {cmd, "none"} /\ (at # "behind" => at' = at)
    BY <1>2 DEF CtrlC, CtrlD, PlainKey, Store, Post
  <2>. QED  BY <1>b, <2>1 DEF Typing
<1>3. CASE CtrlScreen
  BY <1>3, <1>c DEF CtrlScreen
<1>4. CASE sys_read \/ Wake_up
  <2>1. UNCHANGED <<scr, i, home, clean>> /\ cmd' = cmd /\ at' \in {at, "got", "asleep"}
    BY <1>4 DEF sys_read, Wake_up, ShellTakes, Take, Taken, FallAsleep
  <2>. QED  BY <1>b, <2>1 DEF Typing
<1>5. CASE sys_read_behind \/ junk_read \/ command_reads \/ command_wakes \/ command_exits
  <2>1. UNCHANGED <<home, clean>>
    BY <1>5 DEF sys_read_behind, junk_read, command_reads, command_wakes, command_exits, CommandTakes, Take,
                FallAsleep
  <2>2. ~Typing
    BY <1>5 DEF sys_read_behind, junk_read, command_reads, command_wakes, command_exits, InFront, Typing
  <2>. QED  BY <1>0, <1>a, <2>1, <2>2
<1>6. CASE command_draws \/ line_read
  <2>1. UNCHANGED <<home, clean>> /\ ~Typing
    BY <1>6 DEF command_draws, line_read, tvars, Typing
  <2>. QED  BY <1>0, <1>a, <2>1
<1>7. CASE Edit
  <2>1. /\ home' \in Nat /\ clean' \in BOOLEAN
        /\ clean' => clean /\ Shown(scr', home', i')
    BY <1>7, EditShows
  <2>2. cmd' = cmd /\ at' = "call"
    BY <1>7 DEF Edit
  <2>. QED  BY <1>0, <2>1, <2>2 DEF EchoInv, Typing
<1>8. CASE Enter
  BY <1>8, <1>c DEF Enter
<1>9. CASE put_line_start /\ i # 2
  <2>1. UNCHANGED <<home, clean>> /\ ~Typing
    BY <1>9 DEF put_line_start, Typing
  <2>. QED  BY <1>0, <1>a, <2>1
<1>10. CASE put_line_start /\ i = 2
  <2>. DEFINE t == Echo(LineStart[3])
              s == [t EXCEPT !.up = 0]
  <2>1. scr' = s /\ i' = 0 /\ at' = "call" /\ cmd' = cmd /\ home' = Cell(scr')
    BY <1>10 DEF put_line_start
  <2>2. clean' = (InFront /\ scr'.x =< SCREEN_WIDTH)
    BY <1>10 DEF put_line_start
  <2>3. t \in Screens
    <3>1. LineStart[3] \in Stored
      BY DEF LineStart, Stored
    <3>. QED  BY <3>1, EchoStays
  <2>. HIDE DEF t
  <2>4. s \in Screens /\ s.up = 0
    <3>1. s \in Screens /\ t \in Cursor /\ 0 \in Nat
      BY <2>3, SetScrolls DEF Screens, Page
    <3>. QED  BY <3>1, SetUp
  <2>. HIDE DEF s
  <2>5. PICK z \in FontSizes : s \in Page(z)
    BY <2>4 DEF Screens
  <2>6. Cell(s) \in Nat /\ s.x \in Nat /\ SCREEN_WIDTH \in Nat
    BY <2>5, PageCells, ScreenAssumption DEF Page, Cursor
  <2>7. s.x =< SCREEN_WIDTH => Shown(s, Cell(s), 0)
    BY <2>4, <2>6 DEF Shown, Scrolled
  <2>8. clean' \in BOOLEAN /\ (clean' => cmd = "none" /\ s.x =< SCREEN_WIDTH)
    <3>. DEFINE P == InFront /\ scr'.x =< SCREEN_WIDTH
    <3>1. P \in BOOLEAN
      BY <2>1, <2>6 DEF InFront
    <3>2. P => cmd = "none" /\ s.x =< SCREEN_WIDTH
      BY <2>1 DEF InFront
    <3>3. clean' = P
      BY <2>2, Zenon
    <3>. HIDE DEF P
    <3>. QED  BY <3>1, <3>2, <3>3, Zenon
  <2>. QED  BY <2>1, <2>6, <2>7, <2>8 DEF EchoInv, Typing
<1>. QED  BY <1>1, <1>2, <1>3, <1>4, <1>5, <1>6, <1>7, <1>8, <1>9, <1>10 DEF Next

\* A line is clean only while the shell has the foreground, and is shown.
THEOREM EchoHolds == Spec => []EchoInv
<1>1. Init => EchoInv
  <2>. SUFFICES ASSUME Init PROVE EchoInv
    OBVIOUS
  <2>1. home \in Nat /\ clean \in BOOLEAN /\ ~clean
    BY DEF Init
  <2>. QED  BY <2>1 DEF EchoInv
<1>2. scr \in Screens /\ KeyInv /\ EchoInv /\ [Next]_vars => EchoInv'
  <2>1. EchoInv /\ UNCHANGED vars => EchoInv'
    BY DEF vars, tvars, EchoInv, Typing
  <2>. QED  BY <2>1, EchoStep
<1>. QED  BY <1>1, <1>2, ScreenInvariant, TerminalInvariant, PTL DEF Spec

\* The screen shows the line: behind a prompt that was shown, through wraps,
\* scrolls and backspaces over line ends, the cursor is as many cells after the
\* prompt as the line has characters.
THEOREM LineIsShown == Spec => []EchoMatchesLine
<1>1. EchoInv => EchoMatchesLine
  BY DEF EchoInv, EchoMatchesLine, Typing, Shown
<1>. QED  BY <1>1, EchoHolds, PTL
=============================================================================
