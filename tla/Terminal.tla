------------------------------ MODULE Terminal ------------------------------
(***************************************************************************)
(* The shell and the command it started last: the keyboard interrupt         *)
(* (keyboard_driver.c), the key buffer (keyboard_buffer.c), sys_read and     *)
(* sys_write (syscalls.c), the line editor (bufferize, shell.c) and its echo *)
(* (Screen).  The shell does not wait for a command: behind it its output    *)
(* goes to pipe 0 and its reads return without a byte.                       *)
(* Interrupts come between any two steps of the two processes, but not       *)
(* inside a system call, except where sys_read sleeps.                       *)
(*                                                                           *)
(* Keys are scan codes by what becomes of them: "A" is every key with a      *)
(* glyph (Shift only turns one into another), "F1" one that scan_codes maps  *)
(* to 0, "UP" every break code.  Escape's make code is the value _EOF_.       *)
(* What the line says is left to Commands; here it is its length.            *)
(***************************************************************************)
EXTENDS Screen

CONSTANTS BUFF_SIZE,     \* cells of the key buffer
          BUFFER_SIZE,   \* of the shell's line
          MaxBurst       \* keys that arrive before a woken reader runs

ASSUME TerminalAssumption == /\ BUFF_SIZE \in Nat /\ BUFFER_SIZE \in Nat /\ MaxBurst \in Nat
                             /\ 2 < BUFFER_SIZE /\ 0 < MaxBurst /\ MaxBurst < BUFF_SIZE

\* A line of the shell is shorter than the screen less a row, in either font:
\* 127 characters, and 11 rows of 32 in the larger one.
ASSUME LineFits == \A z \in FontSizes :
  BUFFER_SIZE - 1 =< (SCREEN_HEIGHT \div (z * GlyphH) - 1) * (SCREEN_WIDTH \div (z * GlyphW))

VARIABLES buff, buffer_pos,  \* struct keyboard_buffer
          ctrl_pressed,
          is_locked,     \* the lock of the semaphore "keyboard"
          at,            \* where the shell is
          cmd,           \* and the command in the foreground, if there is one
          rpos,          \* pos of a sleeping sys_read of the foreground process
          ch,            \* what get_c of the shell returned
          i,             \* characters in the line; written of the prompt
          home, clean,   \* history: cells before the line; echo is one cell each
          first,         \* history: first key since the reader fell asleep
          overrun, drained   \* history: access past the buffer; last cell read

kvars == <<buff, buffer_pos, ctrl_pressed, is_locked, first, overrun, drained>>
tvars == <<at, cmd, rpos, ch, i, home, clean>>
vars == <<scr, kvars, tvars>>

Letters == {"A", "C", "D", "L", "P"}
Keys == Letters \cup {"SP", "BKSP", "ENTER", "TAB", "F1", "UP"}
Stored == {NUL, "A", "SP", "BKSP", "ENTER", "TAB", "F1", "UP"}

\* sys_write and sys_read ask whether the shell is the foreground process.
InFront == cmd = "none"
-----------------------------------------------------------------------------
\* The semaphore "keyboard": a post unlocks and wakes half of those who wait,
\* the shell behind a command perhaps among them.
Post == /\ is_locked' = 0
        /\ at' \in IF at = "behind" THEN {"behind", "woken"} ELSE {at}

\* Mutant of Next_cell: the buffer has a cell more than it has.
Next_cell_late(pos) == IF pos < BUFF_SIZE THEN pos + 1 ELSE 0

\* The end of keyboard_handler: the key goes to the current cell, the next one
\* is emptied and becomes current.
Next_cell(pos) == IF pos + 1 < BUFF_SIZE THEN pos + 1 ELSE 0

\* Mutant of Cells: the key goes to the cell after the current one.
Cells_next(key) == [buff EXCEPT ![Next_cell(buffer_pos) % BUFF_SIZE] = key]

Cells(key) == IF buffer_pos < BUFF_SIZE
              THEN [buff EXCEPT ![Next_cell(buffer_pos) % BUFF_SIZE] = NUL, ![buffer_pos] = key]
              ELSE [buff EXCEPT ![0] = NUL]

Asleep == at = "asleep" \/ cmd = "asleep"

Store(key) ==
  /\ buff' = Cells(key)
  /\ buffer_pos' = Next_cell(buffer_pos)
  /\ overrun' = (buffer_pos >= BUFF_SIZE)
  /\ first' = IF Asleep /\ buffer_pos = rpos THEN key ELSE first
  /\ Post
  /\ UNCHANGED <<scr, ctrl_pressed, drained, cmd, rpos, ch, i, home, clean>>

\* Keys wait for a woken reader only up to MaxBurst; tabs stop past the edge.
Arrives(key) == /\ ~overrun
                /\ Asleep => (buffer_pos - rpos) % BUFF_SIZE < MaxBurst
                /\ key = "TAB" => scr.x =< SCREEN_WIDTH

Control == /\ ~overrun /\ ctrl_pressed' = ~ctrl_pressed
           /\ UNCHANGED <<scr, buff, buffer_pos, is_locked, first, overrun, drained, tvars>>

PlainKey(key) == Arrives(key) /\ ~ctrl_pressed /\ Store(IF key \in Letters THEN "A" ELSE key)

\* Ctrl-C kills the foreground process, if it is not the shell, and clears the
\* buffer.
CtrlC == /\ ~overrun /\ ctrl_pressed
         /\ buff' = [p \in DOMAIN buff |-> NUL] /\ first' = NUL /\ Post
         /\ cmd' = "none" /\ rpos' = IF cmd = "asleep" THEN 0 ELSE rpos
         /\ UNCHANGED <<scr, buffer_pos, ctrl_pressed, overrun, drained, ch, i, home, clean>>

\* Ctrl-D: for a foreground process that reads the keyboard _EOF_ is stored like
\* a key; the shell echoes it like one with a glyph.
CtrlD == Arrives("A") /\ ctrl_pressed /\ Store("A")

\* Ctrl-P prints the process table, Ctrl-L clears the screen, both from the
\* interrupt handler and whatever is being written.
CtrlScreen == /\ ~overrun /\ ctrl_pressed
              /\ \/ scr' = [clear_color(scr) EXCEPT !.up = 0]
                 \/ scr' = [draw_word(scr, <<"ENTER", "A", "ENTER", "A", "ENTER">>) EXCEPT !.up = 0]
              /\ clean' = FALSE /\ home' = 0
              /\ UNCHANGED <<kvars, at, cmd, rpos, ch, i>>
-----------------------------------------------------------------------------
\* sys_read of the foreground process after my_sem_wait: the cell at the position
\* taken before the wait.  Nothing, or a break code, sends it back to the wait,
\* at the position the handler has reached.
Printable(c) == c \notin {NUL, "UP"}

Consumed(pos) == pos + 1

Take(pos) ==
  /\ is_locked' = 1
  /\ IF pos >= BUFF_SIZE
     THEN overrun' = TRUE /\ UNCHANGED <<buffer_pos, rpos, first, drained>>
     ELSE /\ UNCHANGED overrun /\ first' = NUL
          /\ IF Printable(buff[pos])
             THEN /\ rpos' = 0 /\ buffer_pos' = Consumed(pos)
                  /\ drained' = (drained \/ pos = BUFF_SIZE - 1)
             ELSE rpos' = buffer_pos /\ UNCHANGED <<buffer_pos, drained>>
  /\ UNCHANGED <<scr, buff, ctrl_pressed, i, home, clean>>

\* Where the reader is afterwards: from is where it was, got the place of one
\* that has its byte.
Taken(pos, from, got) ==
  IF pos >= BUFF_SIZE THEN from ELSE IF Printable(buff[pos]) THEN got ELSE "asleep"

FallAsleep == /\ is_locked = 1 /\ rpos' = buffer_pos /\ first' = NUL
              /\ UNCHANGED <<scr, buff, buffer_pos, ctrl_pressed, is_locked, overrun, drained, i, home, clean>>

ShellTakes(pos) == /\ Take(pos) /\ at' = Taken(pos, at, "got") /\ UNCHANGED cmd
                   /\ ch' = IF at' = "got" THEN buff[pos] ELSE ch

sys_read == /\ ~overrun /\ at = "call" /\ InFront
            /\ \/ is_locked = 0 /\ ShellTakes(buffer_pos)
               \/ FallAsleep /\ at' = "asleep" /\ UNCHANGED <<cmd, ch>>

Wake_up == ~overrun /\ at = "asleep" /\ is_locked = 0 /\ ShellTakes(rpos)

\* sys_read of the shell behind a command sleeps, and returns without a byte:
\* get_c returns what was on the stack.
sys_read_behind == /\ ~overrun /\ at = "call" /\ ~InFront /\ at' = "behind"
                   /\ UNCHANGED <<scr, kvars, cmd, rpos, ch, i, home, clean>>

junk_read == /\ ~overrun /\ at = "woken" /\ at' = "got" /\ ch' \in Stored \ {NUL, "UP"}
             /\ UNCHANGED <<scr, kvars, cmd, rpos, i, home, clean>>

\* The same of the command, which reads a key here and there.
CommandTakes(pos) == Take(pos) /\ cmd' = Taken(pos, cmd, "runs") /\ UNCHANGED <<at, ch>>

command_reads == /\ ~overrun /\ cmd = "runs"
                 /\ \/ is_locked = 0 /\ CommandTakes(buffer_pos)
                    \/ FallAsleep /\ cmd' = "asleep" /\ UNCHANGED <<at, ch>>

command_wakes == ~overrun /\ cmd = "asleep" /\ is_locked = 0 /\ CommandTakes(rpos)

command_draws == /\ ~overrun /\ cmd = "runs" /\ \E s \in Printed(scr) \cup Repainted(scr) : scr' = [s EXCEPT !.up = 0]
                 /\ UNCHANGED <<kvars, tvars>>

\* It ends and gives the foreground back to the shell.
command_exits == /\ ~overrun /\ cmd = "runs" /\ cmd' = "none"
                 /\ UNCHANGED <<scr, kvars, at, rpos, ch, i, home, clean>>
-----------------------------------------------------------------------------
\* put_c of the shell: to the screen, where the character 0 draws nothing, or
\* behind a command to pipe 0.
Echo(c) == IF InFront THEN draw_word(scr, <<IF c = "F1" THEN NUL ELSE c>>) ELSE scr

\* A character that takes one cell of the screen, as it takes one of the line.
OneCell(c) == c \in {"A", "BKSP"} \/ (c = "SP" /\ scr.x < SCREEN_WIDTH)

\* Mutant of Accepted: the line has no end.
Accepted_always(c) == c # "BKSP" \/ i > 0

\* Mutant of Accepted: a backspace is echoed on an empty line.
Accepted_always_erases(c) == c = "BKSP" \/ i # BUFFER_SIZE - 1

\* One turn of the loop of bufferize; the last cell of the line is for its end.
Accepted(c) == IF c = "BKSP" THEN i > 0 ELSE i # BUFFER_SIZE - 1

Edit == /\ at = "got" /\ ch # "ENTER" /\ ~overrun
        /\ at' = "call" /\ ch' = NUL
        /\ IF Accepted(ch)
           THEN /\ i' = IF ch = "BKSP" THEN (IF i > 0 THEN i - 1 ELSE 0) ELSE i + 1
                /\ clean' = (clean /\ OneCell(ch))
                /\ IF clean' THEN scr' = Echo(ch) /\ UNCHANGED home
                             ELSE scr' = [Echo(ch) EXCEPT !.up = 0] /\ home' = 0
           ELSE UNCHANGED <<i, clean, home, scr>>
        /\ UNCHANGED <<kvars, cmd, rpos>>

Enter == /\ at = "got" /\ ch = "ENTER" /\ ~overrun
         /\ scr' = [Echo(ch) EXCEPT !.up = 0] /\ ch' = NUL
         /\ at' = IF i = 0 THEN "prompt" ELSE "line"
         /\ i' = 0 /\ home' = 0 /\ clean' = FALSE
         /\ UNCHANGED <<kvars, cmd, rpos>>

\* line_read: the shell itself prints something or clears the screen, or starts
\* a command.  A line of junk, read behind a command, names none.
line_read == /\ at = "line" /\ ~overrun /\ at' = "prompt"
             /\ \/ UNCHANGED <<scr, cmd>>
                \/ InFront /\ UNCHANGED cmd /\ \E s \in Printed(scr) \cup {clear_color(scr)} : scr' = [s EXCEPT !.up = 0]
                \/ InFront /\ cmd' = "runs" /\ UNCHANGED scr
             /\ UNCHANGED <<kvars, rpos, ch, i, home, clean>>

\* The cells from the top left corner, scrolled lines included, to the cursor.
Cell(s) == ((s.y \div Height(s)) + s.up) * (SCREEN_WIDTH \div Width(s)) + (s.x \div Width(s))

LineStart == <<"A", "A", "SP">>

\* put_line_start: one byte of the prompt; after the last the line begins.  It is
\* shown if that byte was, and nothing but the shell has the screen from there on.
put_line_start == /\ at = "prompt" /\ ~overrun
                  /\ scr' = [Echo(LineStart[i + 1]) EXCEPT !.up = 0]
                  /\ IF i = 2 THEN /\ at' = "call" /\ i' = 0 /\ home' = Cell(scr')
                                   /\ clean' = (InFront /\ scr'.x =< SCREEN_WIDTH)
                     ELSE i' = i + 1 /\ UNCHANGED <<at, home, clean>>
                  /\ UNCHANGED <<kvars, cmd, rpos, ch>>

\* After an access past the buffer anything may happen.
Lost == overrun /\ UNCHANGED vars

Init == /\ scr = [x |-> 0, y |-> 0, size |-> DEFAULT_FONT_SIZE, up |-> 0]
        /\ buff = [p \in 0 .. BUFF_SIZE - 1 |-> NUL] /\ buffer_pos = 0
        /\ ctrl_pressed = FALSE /\ is_locked = 0 /\ overrun = FALSE /\ drained = FALSE
        /\ at = "prompt" /\ cmd = "none" /\ rpos = 0 /\ ch = NUL /\ i = 0
        /\ home = 0 /\ clean = FALSE /\ first = NUL

Next == \/ Control \/ CtrlC \/ CtrlD \/ CtrlScreen \/ (\E key \in Keys : PlainKey(key))
        \/ sys_read \/ Wake_up \/ sys_read_behind \/ junk_read
        \/ command_reads \/ command_wakes \/ command_draws \/ command_exits
        \/ Edit \/ Enter \/ line_read \/ put_line_start \/ Lost

Spec == Init /\ [][Next]_vars
-----------------------------------------------------------------------------
TypeOK == /\ scr \in [x : Nat, y : Nat, size : Nat \ {0}, up : Nat]
          /\ buff \in [0 .. BUFF_SIZE - 1 -> Stored] /\ buffer_pos \in 0 .. BUFF_SIZE
          /\ ctrl_pressed \in BOOLEAN /\ is_locked \in {0, 1}
          /\ at \in {"prompt", "call", "asleep", "behind", "woken", "got", "line"}
          /\ cmd \in {"none", "runs", "asleep"}
          /\ rpos \in 0 .. BUFF_SIZE /\ ch \in Stored /\ i \in 0 .. BUFFER_SIZE - 1
          /\ overrun \in BOOLEAN /\ drained \in BOOLEAN

\* A key that arrives while the foreground process sleeps in sys_read is not
\* missed: the lock is open and the reader, when it runs, finds the first such
\* key at the position it took before it slept, however many more have arrived.
\* (The shell behind a command takes no position and misses the key.)
AsleepReaderSeesKey ==
  Asleep /\ buffer_pos # rpos /\ ~overrun => is_locked = 0 /\ buff[rpos] = first

\* The interrupt handler wraps its position and sys_read does not: the buffer
\* is overrun only after a character was read from its last cell.
OverrunNeedsLastCell == overrun \/ buffer_pos >= BUFF_SIZE => drained

\* The screen shows the line: if the shell had the foreground when it finished
\* its prompt, then as long as every key takes one cell the cursor is as many
\* cells after the prompt as the line has characters, through wraps, scrolls and
\* backspaces over line ends: no command draws in between, and no character the
\* stack held is in the line.
EchoMatchesLine == clean => Cell(scr) = home + i /\ at \in {"call", "asleep", "got"}

\* Whatever was typed or printed, the next glyph lies inside the screen.
GlyphsOnScreen == LET s == check_line_up(scr)
                  IN  s.x + Width(s) =< SCREEN_WIDTH /\ s.y + Height(s) =< SCREEN_HEIGHT
=============================================================================
