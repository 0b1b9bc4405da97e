------------------------------- MODULE Screen -------------------------------
(***************************************************************************)
(* The text cursor of the video driver (Kernel/drivers/videoDriver.c).  Each *)
(* C function is an operator on the record s of the driver's globals:        *)
(* x, y (cursorX, cursorY), size (the font size) and, as history, up: the    *)
(* number of lines scrolled since the shell's last prompt.  Pixels are left  *)
(* out: what is drawn is where the cursor was.                               *)
(***************************************************************************)
EXTENDS Integers, Sequences, SequencesExt

CONSTANTS SCREEN_WIDTH, SCREEN_HEIGHT,
          GlyphW, GlyphH,   \* pixels of a character at font size 1 (8 and 16)
          Word,             \* number of values of a uint32_t
          FontSizes,        \* the fonts of the shell and of pong (1 and 4)
          Outputs           \* what programs print

DEFAULT_FONT_SIZE == 1
TAB_WIDTH == 5

\* Characters by what the driver does with them: NUL ends a word, "A" stands
\* for every character with a glyph.
NUL == "NUL"

ASSUME ScreenAssumption == /\ {SCREEN_WIDTH, SCREEN_HEIGHT, GlyphW, GlyphH} \subseteq Nat \ {0}
                           /\ Word \in Nat /\ Word > SCREEN_WIDTH + SCREEN_HEIGHT

\* Rows and columns of a font fill the screen, and the cursor's wrap at the
\* word keeps the grid: 1024 x 768, 8 x 16 and 32 x 64, 2^32.
ASSUME FontsFit ==
  /\ DEFAULT_FONT_SIZE \in FontSizes /\ FontSizes \subseteq Nat \ {0}
  /\ \A z \in FontSizes :
       SCREEN_WIDTH % (z * GlyphW) = 0 /\ SCREEN_HEIGHT % (z * GlyphH) = 0 /\ Word % (z * GlyphW) = 0

ASSUME OutputsAssumption ==
  /\ Outputs \subseteq Seq({NUL, "A", "SP", "BKSP", "ENTER", "TAB"}) /\ << >> \in Outputs

VARIABLE scr   \* the cursor

Width(s) == s.size * GlyphW
Height(s) == s.size * GlyphH

set_font_size(s, new_size) == [s EXCEPT !.size = new_size]

clear_color(s) == [s EXCEPT !.x = 0, !.y = 0]

backspace(s) ==
  IF s.x > 0 THEN [s EXCEPT !.x = (@ - Width(s)) % Word]
  ELSE IF s.y > 0 THEN [s EXCEPT !.y = (@ - Height(s)) % Word, !.x = SCREEN_WIDTH - Width(s)]
  ELSE s

move_one_line_up(s) == [s EXCEPT !.y = (@ - Height(s)) % Word, !.up = @ + 1]

\* Mutant of check_line_up: the scroll is decided before the wrap.
check_line_up_scrolls_first(s) ==
  LET up == IF s.y >= SCREEN_HEIGHT THEN move_one_line_up([s EXCEPT !.x = 0]) ELSE s
  IN  IF up.x >= SCREEN_WIDTH THEN [up EXCEPT !.x = 0, !.y = @ + Height(s)] ELSE up

\* check_line_up wraps a full line and then scrolls a full screen.
check_line_up(s) ==
  LET wrapped == IF s.x >= SCREEN_WIDTH THEN [s EXCEPT !.x = 0, !.y = @ + Height(s)] ELSE s
  IN  IF wrapped.y >= SCREEN_HEIGHT THEN move_one_line_up([wrapped EXCEPT !.x = 0]) ELSE wrapped

newline(s) == check_line_up([s EXCEPT !.x = 0, !.y = @ + Height(s)])

tab(s) == [s EXCEPT !.x = @ + (TAB_WIDTH - ((@ \div Width(s)) % TAB_WIDTH)) * Width(s)]

\* White space and tabs move the cursor without check_line_up: a line may run
\* past the right edge until the next glyph.
character(s, c) ==
  CASE c = "BKSP"  -> backspace(s)
    [] c = "SP"    -> [s EXCEPT !.x = @ + Width(s)]
    [] c = "ENTER" -> newline(s)
    [] c = "TAB"   -> tab(s)
    [] OTHER       -> LET t == check_line_up(s) IN [t EXCEPT !.x = @ + Width(s)]

\* draw_word_colorLen: up to the terminator.
draw_word(s, word) ==
  LET drawn == SelectInSeq(word, LAMBDA c : c = NUL)
  IN  FoldLeft(character, s, IF drawn = 0 THEN word ELSE SubSeq(word, 1, drawn - 1))

\* What a program in the foreground makes of the screen: it prints, on the
\* screen as it is or on an empty one, for which it may choose another font.
Printed(s) == {draw_word(s, out) : out \in Outputs}
Repainted(s) == UNION {Printed(set_font_size(clear_color(s), z)) : z \in FontSizes}
ProgramDraws == scr' \in Printed(scr) \cup Repainted(scr)
=============================================================================
