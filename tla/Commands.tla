------------------------------ MODULE Commands ------------------------------
(***************************************************************************)
(* The command line (Userland/SampleCodeModule/commands.c), the processes it *)
(* starts and what they read and write through sys_read and sys_write        *)
(* (Kernel/syscalls.c) and Pipes.                                            *)
(*                                                                           *)
(* A line is the sequence of its words, "|" and "&" among them, separated by *)
(* spaces.  A process reads a byte, writes the bytes it makes of it one by   *)
(* one, and reads again; the timer may switch between any two calls.  The     *)
(* shell is one of them: it prompts as soon as it has started a command, on  *)
(* the screen only if that has ended, and goes on reading, keys or junk.     *)
(***************************************************************************)
EXTENDS Pipes, SequencesExt

CONSTANTS Lines,         \* the lines that may be typed first, second, ...
          KeyBytes,      \* bytes the keyboard gives to a foreground reader
          MaxComm,       \* the longest line CAT is given
          Help,          \* what HELP prints
          LineStart,     \* the prompt of the shell
          Stale          \* bytes the stack of a reader may hold

MaxLines == Len(Lines)

ASSUME CommandsAssumption == /\ Lines \in Seq(SUBSET Seq(STRING)) /\ Help \in Seq(STRING)
                             /\ LineStart \in Seq(STRING) /\ Stale \subseteq STRING

VARIABLES proc,          \* the processes, two for each line
          shell,         \* where the shell is and what it has still to write
          foreground,    \* foreground_pid, 0 for the shell
          typed,         \* lines typed so far
          amp,           \* history: a line had an "&", or began with "|"
          wild,          \* history: a process wrote through a null pipe_buffer
          lost           \* what was written there cost the machine its life

procvars == <<proc, shell, foreground, typed, amp, wild, lost>>
vars == <<pipevars, procvars>>

Pids == 1 .. 2 * MaxLines
NoProcess == [prog |-> "", fr |-> 0, fw |-> 0, at |-> "none", out |-> << >>, comm |-> << >>]
Live(p) == proc[p].at \notin {"none", "dead"}

\* The shell with its prompt to write.
Prompting == [at |-> "reading", out |-> LineStart]
-----------------------------------------------------------------------------
\* What a program makes of a byte: the bytes it writes.
is_vowel(c) == c \in {"A", "E", "I", "O", "U"}

cat(q, c) == IF c = EndOfFile THEN <<c>>
             ELSE IF c = "\n" THEN <<c>> \o q.comm \o <<c, c>> ELSE <<c>>

wc(c) == IF c = EndOfFile THEN <<"\n", "count", "\n", "\n">> ELSE <<c>>

filter(c) == CASE c = EndOfFile -> <<"\n">> [] is_vowel(c) -> << >> [] OTHER -> <<c>>

Written(q, c) == CASE q.prog = "CAT" -> cat(q, c) [] q.prog = "WC" -> wc(c) [] q.prog = "FILTER" -> filter(c)

\* The screen shows what the foreground process of the shell's descriptor
\* writes; all else goes to a pipe, for the shell's descriptor to pipe 0.
OnScreen(p) == proc[p].fw = SHELL /\ foreground = p

\* Mutant of Exited: the foreground is not given back.
Exited_keeps_foreground(p) == foreground

Exited(p) == IF foreground = p THEN SHELL ELSE foreground

\* Process p after it got byte c: it ends on the end of file.  The screen is
\* written at once, since nobody reads it; a pipe byte by byte.
Got(p, c) ==
  LET q == proc[p]
  IN  [q EXCEPT !.out = IF OnScreen(p) THEN << >> ELSE Written(q, c),
                !.at = IF c = EndOfFile THEN "ending"
                       ELSE IF OnScreen(p) \/ Written(q, c) = << >> THEN "reading" ELSE "writing",
                !.comm = IF q.prog # "CAT" \/ c \in {"\n", EndOfFile} THEN << >> ELSE Append(@, c)]

\* The start of a program: readers read, LOOP and HELP write.
Start(prog, fr, fw, fg) ==
  [prog |-> prog, fr |-> fr, fw |-> fw, comm |-> << >>,
   at |-> CASE prog = "LOOP" -> "writing" [] prog = "HELP" -> "ending" [] OTHER -> "reading",
   out |-> IF fg \/ prog \in {"CAT", "WC", "FILTER"} THEN << >> ELSE IF prog = "LOOP" THEN <<"b">> ELSE Help]
-----------------------------------------------------------------------------
\* __seek_command__: the word after "|" overwrites it, "&" ends the line.
IsFg(line) == \A k \in 1 .. Len(line) : line[k] \notin {"|", "&"}
Piped(line) == \E k \in 2 .. Len(line) : line[k] = "|"
args(line) == LET amps == {k \in 1 .. Len(line) : line[k] = "&"}
                  upto == IF amps = {} THEN Len(line) ELSE Min(amps) - 1
              IN  SelectSeq(SubSeq(line, 1, upto), LAMBDA w : w # "|")

Programs == {"CAT", "WC", "FILTER", "LOOP", "HELP"}
command_args(word) == IF word = "KILL" THEN 1 ELSE 0
Known(word) == word \in Programs \cup {"KILL", "CLEAR"}

\* The second command follows the first and its arguments; it is looked for
\* when the first is piped or unknown.
Second(line) ==
  LET a == args(line)
      k == 2 + (IF Known(a[1]) THEN command_args(a[1]) ELSE 0)
  IN  IF (Known(a[1]) /\ ~Piped(line)) \/ k > Len(a) THEN "" ELSE a[k]

\* KILL takes its pid from the next word; what is no number is 0.
satoi(word) == CASE word = "1" -> 1 [] word = "2" -> 2 [] word = "3" -> 3 [] OTHER -> 0
Killed(line) == LET a == args(line) IN
                IF a[1] = "KILL" /\ Len(a) > 1 THEN Pids \cap {satoi(a[2])} ELSE {}

\* Mutant of Fd: the first command of a pipeline keeps the shell's descriptor.
Fd_default(line, id) == SHELL

Fd(line, id) == IF Piped(line) THEN id ELSE SHELL

\* __call_command__ of the first and the second command of a line whose pipe is
\* id; the processes of the n-th line are 2n - 1 and 2n.
Created(line, id, n) ==
  LET first == args(line)[1]
      p1 == IF first \in Programs
            THEN Start(first, SHELL, Fd(line, id), IsFg(line)) ELSE NoProcess
      p2 == IF Second(line) \in Programs THEN Start(Second(line), id, SHELL, TRUE) ELSE NoProcess
  IN  [p \in Pids |-> CASE p = 2 * n - 1 -> p1 [] p = 2 * n -> p2
                        [] p \in Killed(line) /\ Live(p) -> [NoProcess EXCEPT !.at = "dead"]
                        [] OTHER -> proc[p]]

\* Every line takes a pipe, whether it has a "|" or not.  The shell does not wait
\* for what a line starts: its next prompt is due at once.
NextLine(place) ==
  /\ shell = [at |-> place, out |-> << >>] /\ shell' = Prompting
  /\ typed < MaxLines /\ typed' = typed + 1 /\ UNCHANGED <<wild, lost>>

\* line_read of a line that was typed at the prompt.
line_read(line) ==
  LET n == typed + 1
      new == {p \in {2 * n - 1, 2 * n} : proc'[p].at # "none"}
  IN  /\ NextLine("reading") /\ foreground = SHELL /\ line \in Lines[n]
      /\ \E id \in Slots : create_pipe_anonymous(id) /\ proc' = Created(line, id, n)
      /\ foreground' = IF 2 * n \in new THEN 2 * n ELSE IF 2 * n - 1 \in new /\ IsFg(line) THEN 2 * n - 1 ELSE SHELL
      /\ amp' = (amp \/ "&" \in Range(line) \/ line[1] = "|")

\* line_read of what the shell took for one behind another process: it names no
\* command and takes a pipe all the same.
junk_read == /\ NextLine("entered") /\ \E id \in Slots : create_pipe_anonymous(id)
             /\ UNCHANGED <<proc, foreground, amp>>
-----------------------------------------------------------------------------
\* The bytes of pipe 0 go over the interrupt table while it has no buffer: some
\* gates are not needed, that of the timer is.
Survives(id) == lost' \in IF pipe_array[id].name = -1 THEN BOOLEAN ELSE {lost}

\* sys_write of a byte of the shell: to the screen, or to pipe 0 while another
\* process is in the foreground.
shell_put_c ==
  /\ shell.out # << >> /\ shell' = [shell EXCEPT !.out = Tail(@)]
  /\ \/ foreground = SHELL /\ UNCHANGED <<pipevars, lost>>
     \/ foreground # SHELL /\ pipe_write(SHELL, Head(shell.out)) /\ Survives(SHELL)
  /\ UNCHANGED <<proc, foreground, typed, amp, wild>>

\* The shell's get_c behind another process sleeps as any reader does, and
\* returns a byte of the stack when a key wakes it.  It is echoed, unless the
\* line is full; a newline ends the line, which may be empty.
shell_sleeps == /\ shell = [at |-> "reading", out |-> << >>] /\ foreground # SHELL
                /\ shell' = [shell EXCEPT !.at = "asleep"]
                /\ UNCHANGED <<pipevars, proc, foreground, typed, amp, wild, lost>>

Echoes(c) == IF c = "\n" THEN {[at |-> "entered", out |-> <<c>>]}
             ELSE {[at |-> "reading", out |-> o] : o \in {<<c>>, << >>}}

shell_revived == /\ shell.at = "asleep" /\ \E c \in Stale : shell' \in Echoes(c)
                 /\ UNCHANGED <<pipevars, proc, foreground, typed, amp, wild, lost>>

EmptyLine == /\ shell = [at |-> "entered", out |-> << >>] /\ shell' = Prompting
             /\ UNCHANGED <<pipevars, proc, foreground, typed, amp, wild, lost>>
-----------------------------------------------------------------------------
Ended(p) == [NoProcess EXCEPT !.at = "dead"]

\* sys_read by a process that is not in the foreground puts it to sleep.
SleepOnRead(p) == /\ proc[p].at = "reading" /\ foreground # p
                  /\ proc' = [proc EXCEPT ![p].at = "asleep"]
                  /\ UNCHANGED <<pipevars, shell, foreground, typed, amp, wild, lost>>

\* Revived by a key it returns without a byte: c is what the stack held.
Revived(p) == /\ proc[p].at = "asleep"
              /\ \E c \in Stale : proc' = [proc EXCEPT ![p] = Got(p, c)]
              /\ UNCHANGED <<pipevars, shell, foreground, typed, amp, wild, lost>>

ReadKey(p) == /\ proc[p].at = "reading" /\ foreground = p /\ proc[p].fr = SHELL
              /\ \E c \in KeyBytes : /\ Len(proc[p].comm) = MaxComm => c \in {"\n", EndOfFile}
                                     /\ proc' = [proc EXCEPT ![p] = Got(p, c)]
              /\ UNCHANGED <<pipevars, shell, foreground, typed, amp, wild, lost>>

ReadPipe(p) == /\ proc[p].at = "reading" /\ foreground = p /\ proc[p].fr # SHELL
               /\ LET c == NextByte(pipe_array[proc[p].fr])
                  IN  pipe_read(proc[p].fr, c) /\ proc' = [proc EXCEPT ![p] = Got(p, c)]
               /\ UNCHANGED <<shell, foreground, typed, amp, wild, lost>>

\* Process q after it wrote a byte: the next one is due, or the next read.
Emitted(q) == IF q.prog = "LOOP" THEN q
              ELSE [q EXCEPT !.out = Tail(q.out),
                             !.at = IF q.at = "writing" /\ Len(q.out) = 1 THEN "reading" ELSE q.at]

\* sys_write of a byte to a pipe.
put_c(p) ==
  /\ proc[p].at \in {"writing", "ending"} /\ proc[p].out # << >>
  /\ pipe_write(proc[p].fw, Head(proc[p].out))
  /\ wild' = (wild \/ pipe_array[proc[p].fw].name = -1) /\ Survives(proc[p].fw)
  /\ proc' = [proc EXCEPT ![p] = Emitted(proc[p])]
  /\ UNCHANGED <<shell, foreground, typed, amp>>

\* The program returns to process_wrapper, which exits.
Exit(p) == /\ proc[p].at = "ending" /\ proc[p].out = << >>
           /\ proc' = [proc EXCEPT ![p] = Ended(p)]
           /\ foreground' = Exited(p)
           /\ UNCHANGED <<pipevars, shell, typed, amp, wild, lost>>

Run(p) == SleepOnRead(p) \/ ReadPipe(p) \/ put_c(p) \/ Exit(p)

CtrlC == /\ foreground # SHELL
         /\ proc' = [proc EXCEPT ![foreground] = Ended(foreground)] /\ foreground' = SHELL
         /\ UNCHANGED <<pipevars, shell, typed, amp, wild, lost>>

CtrlD == /\ foreground # SHELL /\ proc[foreground].fr # SHELL
         /\ send_eof_to_foreground(proc[foreground].fr)
         /\ UNCHANGED procvars

Crashed == lost /\ UNCHANGED vars

\* The shell at its prompt for good, once MaxLines are typed.
Prompt == foreground = SHELL /\ typed = MaxLines /\ UNCHANGED vars

Init == /\ init_pipes /\ proc = [p \in Pids |-> NoProcess] /\ foreground = SHELL
        /\ shell = Prompting /\ typed = 0 /\ amp = FALSE /\ wild = FALSE /\ lost = FALSE

Next == \/ ~lost /\ (\/ \E line \in UNION Range(Lines) : line_read(line)
                     \/ junk_read \/ shell_put_c \/ shell_sleeps \/ shell_revived \/ EmptyLine
                     \/ \E p \in Pids : Run(p) \/ Revived(p) \/ ReadKey(p)
                     \/ CtrlC \/ CtrlD)
        \/ Crashed \/ Prompt

\* The scheduler gives every ready process its turn (ReadyEventuallyRuns).
Spec == Init /\ [][Next]_vars /\ \A p \in Pids : WF_vars(~lost /\ Run(p))
-----------------------------------------------------------------------------
PipesTypeOK ==
  /\ \A id \in Slots : LET p == pipe_array[id] IN
       /\ p.name \in -1 .. max_pipe - 1 /\ {p.write_pos, p.read_pos} \subseteq 0 .. PIPE_BUFFER_SIZE
       /\ p.left_to_read \in -MaxCount .. MaxCount /\ {p.eof, p.fifo} \subseteq BOOLEAN
  /\ \A p \in Pids : {proc[p].fr, proc[p].fw} \subseteq Slots
  /\ foreground \in Pids \cup {SHELL} /\ typed \in 0 .. MaxLines
  /\ foreground # SHELL => Live(foreground)

\* A pipeline is one: the first command writes where the second reads, apart
\* from the keyboard and from every other line, for the first MAX_PIPES - 1
\* lines, which take a pipe each for ever.  Later lines get the shell's own
\* descriptor, and their second command reads the keyboard.
PipelineConnected ==
  \A p \in Pids : Live(p) /\ p % 2 = 0 /\ p \div 2 < MAX_PIPES =>
    /\ proc[p].fr # SHELL
    /\ \A q \in Pids : Live(q) /\ proc[q].fw = proc[p].fr => q = p - 1
    /\ \A q \in Pids : Live(q) /\ proc[q].fr = proc[p].fr => q = p

\* Of the processes a line starts none writes through the null buffer of pipe 0
\* unless some line had an "&" or began with "|", which ends a first command that
\* is not there: whatever else runs without the foreground writes into a real
\* pipe, also when the shell, which itself writes there behind every foreground
\* process, ran lines of junk in between.
OutputHasABuffer == wild => amp

\* Ctrl-D ends a pipeline whose first command writes for ever, however far the
\* reader had run ahead, as long as it is the first Ctrl-D of all pipes: the
\* byte is put into a buffer once for all of them, and the writer of another
\* pipe would take it away.
CtrlDEndsReader ==
  \A p \in Pids :
    ( /\ p % 2 = 0 /\ Live(p) /\ proc[p].fr # SHELL /\ first_eof
      /\ {id \in Slots : pipe_array[id].eof} = {proc[p].fr}
      /\ Live(p - 1) /\ proc[p - 1].prog = "LOOP" /\ proc[p - 1].fw = proc[p].fr )
    ~> (~Live(p) \/ lost)
=============================================================================
