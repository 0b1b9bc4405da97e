------------------------------- MODULE Pipes --------------------------------
(***************************************************************************)
(* The pipes of the kernel (Kernel/pipe.c).  Their semaphores are opened by  *)
(* name but waited for by index cast to a name, which names none: both calls *)
(* return at once, so reads and writes of one byte, made with interrupts     *)
(* disabled, are single steps that never wait.  malloc does not clear, so a  *)
(* new buffer holds whatever was there.                                      *)
(***************************************************************************)
EXTENDS Integers, Sequences, FiniteSets, FiniteSetsExt

CONSTANTS MAX_PIPES, PIPE_BUFFER_SIZE,
          Junk,       \* bytes an allocated buffer may hold
          MaxCount    \* left_to_read is counted exactly up to here, either way

ASSUME PipesAssumption == /\ {MAX_PIPES, PIPE_BUFFER_SIZE, MaxCount} \subseteq Nat \ {0}
                          /\ PIPE_BUFFER_SIZE < MaxCount

VARIABLES pipe_array, max_pipe, first_eof

pipevars == <<pipe_array, max_pipe, first_eof>>

EndOfFile == "EOF"
SHELL == 0                    \* the descriptor of screen and keyboard
Slots == 0 .. MAX_PIPES - 1

\* unread and fifo are history: the bytes written and not read, as long as no
\* reader was ahead of the writer and no writer a buffer ahead of the reader.
Pipe(nm, junk) == [name |-> nm, write_pos |-> 0, read_pos |-> 0, cells |-> junk,
                   eof |-> FALSE, left_to_read |-> 0, unread |-> << >>, fifo |-> TRUE]

init_pipes ==
  /\ pipe_array = [id \in Slots |-> Pipe(-1, [p \in 0 .. PIPE_BUFFER_SIZE - 1 |-> "?"])]
  /\ max_pipe = 1 /\ first_eof = TRUE

FreeSlots == {id \in Slots : pipe_array[id].name = -1}

\* Mutant of Found: any free slot.
Found_any == IF FreeSlots = {} THEN 0 ELSE Min(FreeSlots)

\* found is both the slot found and the condition of the loop: slot 0, that of
\* the shell, is what is left when every other one is taken.
Found == IF FreeSlots \ {SHELL} = {} THEN 0 ELSE Min(FreeSlots \ {SHELL})

create_pipe_anonymous(id) ==
  /\ id = Found
  /\ \E junk \in [0 .. PIPE_BUFFER_SIZE - 1 -> Junk] :
       pipe_array' = [pipe_array EXCEPT ![id] = Pipe(max_pipe, junk)]
  /\ max_pipe' = max_pipe + 1 /\ UNCHANGED first_eof

\* Mutant of Wrapped: one cell is left out.
Wrapped_early(pos) == IF pos >= PIPE_BUFFER_SIZE - 1 THEN 0 ELSE pos

Wrapped(pos) == IF pos = PIPE_BUFFER_SIZE THEN 0 ELSE pos

Counted(n, step) == IF n \in {-MaxCount, MaxCount} THEN n ELSE n + step

Put(p, byte) ==
  LET fits == p.fifo /\ p.left_to_read < PIPE_BUFFER_SIZE
  IN  [p EXCEPT !.cells[Wrapped(p.write_pos)] = byte,
                !.write_pos = Wrapped(@) + 1,
                !.left_to_read = Counted(@, 1),
                !.fifo = fits, !.unread = IF fits THEN Append(@, byte) ELSE << >>]

\* Mutant of pipe_write: the end of file only stops the writer.
pipe_write_just_stops(id, byte) ==
  LET p == pipe_array[id]
  IN  /\ pipe_array' = IF p.eof THEN pipe_array ELSE [pipe_array EXCEPT ![id] = Put(p, byte)]
      /\ first_eof' = (first_eof /\ ~p.eof)
      /\ UNCHANGED max_pipe

\* The first write after an end of file writes that instead, on whichever pipe;
\* later ones write nothing.  A pipe nobody created has no buffer: the bytes go
\* to address 0 and on, and nothing is ever read of them.
pipe_write(id, byte) ==
  LET p == pipe_array[id]
  IN  /\ pipe_array' = CASE p.name = -1 -> pipe_array
                         [] ~p.eof /\ p.name # -1 -> [pipe_array EXCEPT ![id] = Put(p, byte)]
                         [] p.eof /\ first_eof /\ p.name # -1 -> [pipe_array EXCEPT ![id] = Put(p, EndOfFile)]
                         [] OTHER -> pipe_array
      /\ first_eof' = (first_eof /\ ~p.eof)
      /\ UNCHANGED max_pipe

AtEnd(p) == p.eof /\ p.left_to_read = 0
NextByte(p) == IF AtEnd(p) THEN EndOfFile ELSE p.cells[Wrapped(p.read_pos)]

Taken(p) ==
  LET there == p.fifo /\ p.left_to_read > 0
  IN  [p EXCEPT !.read_pos = Wrapped(@) + 1, !.left_to_read = Counted(@, -1),
                !.fifo = there, !.unread = IF there THEN Tail(@) ELSE << >>]

pipe_read(id, byte) ==
  /\ byte = NextByte(pipe_array[id])
  /\ pipe_array' = IF AtEnd(pipe_array[id]) THEN pipe_array
                   ELSE [pipe_array EXCEPT ![id] = Taken(@)]
  /\ UNCHANGED <<max_pipe, first_eof>>

\* Ctrl-D for a foreground process that reads pipe id.
send_eof_to_foreground(id) ==
  /\ pipe_array' = [pipe_array EXCEPT ![id].eof = TRUE]
  /\ UNCHANGED <<max_pipe, first_eof>>
-----------------------------------------------------------------------------
\* Reader and writer do not wait for each other; as long as they happen to
\* keep within a buffer of each other, a pipe still is a queue: the cells from
\* read_pos on are the bytes written and not read, in order, over the end of
\* the ring and after an end of file.
PipeIsFifo ==
  \A id \in Slots : LET p == pipe_array[id] IN
    p.fifo => /\ Len(p.unread) = p.left_to_read
              /\ \A k \in 1 .. Len(p.unread) :
                   p.cells[(p.read_pos + k - 1) % PIPE_BUFFER_SIZE] = p.unread[k]
=============================================================================
