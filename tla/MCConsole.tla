----------------------------- MODULE MCConsole ------------------------------
(***************************************************************************)
(* Model-checking instance of the console: either the shell and a command    *)
(* (Terminal) or pong (Pong), on a screen of 12 x 12, with a key buffer of    *)
(* three cells and one option of pong's configuration.                       *)
(***************************************************************************)
EXTENDS Terminal, Pong

VARIABLE game   \* whose behaviour is checked

consolevars == <<vars, pongvars, game>>

ConsoleInit == game \in BOOLEAN /\ Init /\ PongInit

ConsoleNext == \/ game /\ PongNext /\ UNCHANGED <<kvars, tvars, game>>
               \/ ~game /\ Next /\ UNCHANGED <<pongvars, game>>

ConsoleSpec == ConsoleInit /\ [][ConsoleNext]_consolevars
-----------------------------------------------------------------------------
MCOutputs == {<< >>, <<"A", "ENTER">>}

\* What is typed at the prompts of pong's configuration.
MCEntries == [o \in {"1", "2", "4", "6", "7", "S"} |->
                CASE o = "S" -> {<<2>>} [] o = "1" -> {<<4>>, <<BKSP, 2>>}
                  [] o = "6" -> {<<5>>} [] OTHER -> {<<3>>}]
MCRebinds == {"Y", NUL}
=============================================================================
