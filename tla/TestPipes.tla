----------------------------- MODULE TestPipes ------------------------------
(***************************************************************************)
(* The pipe test (Userland/SampleCodeModule/test_pipes.c), started by the    *)
(* shell as its first line: a writer into WC through one pipe, then another  *)
(* into FILTER through a second.  The shell sleeps behind it, its prompt      *)
(* written: nothing it does then touches the two pipes.                       *)
(***************************************************************************)
EXTENDS Commands

VARIABLES pc,      \* where test_pipes is
          shown    \* what FILTER put on the screen

tvars == <<vars, pc, shown>>

ToWc == <<"l", "\n", "l", EndOfFile>>          \* four lines, cut to two
ToFilter == <<"M", "U", "R", "C", "I", "E", "L", "A", "G", "O", EndOfFile>>

\* No line is typed during the test; two make room for its four children.
TestLines == <<{}, {}>>
NoHelp == << >>

Writer(message, fd) == [NoProcess EXCEPT !.prog = "WRITER", !.fw = fd, !.at = "ending", !.out = message]

Create(p, record, fg) == /\ proc' = [proc EXCEPT ![p] = record]
                         /\ foreground' = IF fg THEN p ELSE foreground
                         /\ UNCHANGED <<pipevars, shell, typed, amp, wild, lost>>

OpenPipes == /\ pc \in {"open", "open2"}
             /\ \E id \in Slots : create_pipe_anonymous(id)
             /\ pc' = IF pc = "open" THEN "open2" ELSE "writer1"
             /\ UNCHANGED <<procvars, shown>>

CreateWriterToWc == pc = "writer1" /\ pc' = "wc" /\ Create(1, Writer(ToWc, 1), FALSE) /\ UNCHANGED shown
CreateWc == pc = "wc" /\ pc' = "wait1" /\ Create(2, Start("WC", 1, SHELL, TRUE), TRUE) /\ UNCHANGED shown

\* waitpid; then the process that prints the title, and its end.
WaitWc == /\ pc = "wait1" /\ ~Live(2) /\ pc' = "writer2" /\ UNCHANGED <<vars, shown>>

CreateWriterToFilter ==
  pc = "writer2" /\ pc' = "filter" /\ Create(3, Writer(ToFilter, 2), FALSE) /\ UNCHANGED shown
CreateFilter ==
  pc = "filter" /\ pc' = "wait2" /\ Create(4, Start("FILTER", 2, SHELL, TRUE), TRUE) /\ UNCHANGED shown

\* The pid waited for is that of the writer.
WaitFilter == pc = "wait2" /\ ~Live(3) /\ pc' = "print" /\ UNCHANGED <<vars, shown>>

\* test_pipes lost the foreground to its children, which gave it to the shell:
\* its last line goes to the shell's pipe 0.
PrintExpected == /\ pc = "print" /\ pc' = "end"
                 /\ pipe_write(SHELL, "E") /\ wild' = (pipe_array[SHELL].name = -1) /\ Survives(SHELL)
                 /\ UNCHANGED <<proc, shell, foreground, typed, amp, shown>>

\* The screen draws nothing for the character 0, which fresh memory holds.
Visible(bytes) == SelectSeq(bytes, LAMBDA c : c # "NUL")

Children == /\ \E p \in Pids : Run(p)
            /\ shown' = IF ReadPipe(4) THEN shown \o Visible(filter(NextByte(pipe_array[2]))) ELSE shown
            /\ UNCHANGED pc

Finished == pc = "end" /\ UNCHANGED tvars

TestInit == Init /\ pc = "open" /\ shown = << >>
TestNext == \/ OpenPipes \/ CreateWriterToWc \/ CreateWc \/ WaitWc \/ CreateWriterToFilter
            \/ CreateFilter \/ WaitFilter \/ PrintExpected \/ Children \/ Finished
TestSpec == TestInit /\ [][TestNext]_tvars
-----------------------------------------------------------------------------
\* "Expected FILTER output = MRCLG": what FILTER has shown when it ends.
ExpectedFilterOutput == pc # "open" /\ proc[4].at = "dead" => shown = <<"M", "R", "C", "L", "G", "\n">>
=============================================================================
