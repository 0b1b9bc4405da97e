-------------------------------- MODULE Pong --------------------------------
(***************************************************************************)
(* The game (Userland/SampleCodeModule/pong.c).  g holds its C globals, which *)
(* outlive a run of the game: the shell and its programs are one image.      *)
(* Paddles and ball move a frame at a time, each frame reading the key       *)
(* events that reached the key buffer since the last.  Colours, sounds and   *)
(* the length of a frame are left out.  BORDER_SIZE is unsigned, so it is    *)
(* compared with coordinates as unsigned: a negative one is large.           *)
(***************************************************************************)
EXTENDS Screen

CONSTANTS BORDER_SIZE, PADDLE_X, PADDLE_WIDTH, PADDLE_HEIGHT, PADDLE_SPEED,
          BALL_SIZE, InitialBallSpeed, InitialScore, SCORE_CARD_FONT_SIZE,
          Entries,      \* option of the configuration -> what is typed there
          Rebinds,      \* characters typed for a new key
          MaxConfig     \* options taken in a behaviour

ASSUME PongAssumption ==
  /\ {BORDER_SIZE, PADDLE_X, PADDLE_WIDTH, PADDLE_HEIGHT, PADDLE_SPEED,
      BALL_SIZE, InitialBallSpeed, InitialScore, SCORE_CARD_FONT_SIZE} \subseteq Nat \ {0}
  /\ MaxConfig \in Nat
  /\ \A o \in {"1", "2", "4", "6", "7", "S"} : \A w \in Entries[o] : w \in Seq(Int)

\* A ball of this size has room between the borders (the lower one is doubled).
BallFits(size) == size + 4 * BORDER_SIZE < SCREEN_HEIGHT /\ size + 2 * BORDER_SIZE < SCREEN_WIDTH

\* As initialized nothing moves by more than a border in a frame, and paddles
\* and ball fit into the field: 4, 6 and 20, 100 and 10 of 768 pixels.
ASSUME FieldAssumption ==
  /\ PADDLE_SPEED =< BORDER_SIZE /\ 2 * InitialBallSpeed =< BORDER_SIZE
  /\ PADDLE_HEIGHT + 2 * BORDER_SIZE < SCREEN_HEIGHT /\ BallFits(BALL_SIZE)

\* What pong needs of the screen: its second font, and the options it prints.
ASSUME PongScreen == SCORE_CARD_FONT_SIZE \in FontSizes /\ <<"A", "ENTER">> \in Outputs

VARIABLES ph,      \* where pong is waiting for a key or a frame
          g,       \* its globals
          loc      \* its locals (Training, c = 0x19, keys the next frame reads
                   \* first, the caller of configuration) and two histories:
                   \* options taken, points left by the run before

pongvars == <<ph, g, loc>>

ULe(a, b) == 0 =< a /\ a =< b
UGe(a, b) == a < 0 \/ a >= b

\* A key event: a make or a break code.
Event(k, make) == [key |-> k, make |-> make]
-----------------------------------------------------------------------------
set_paddle(px) == [x |-> px, y |-> (SCREEN_HEIGHT \div 2) - (PADDLE_HEIGHT \div 2),
                   width |-> PADDLE_WIDTH, height |-> PADDLE_HEIGHT,
                   speed |-> PADDLE_SPEED, direction |-> "STOP"]

set_ball(speed) == [x |-> (SCREEN_WIDTH \div 2) - (BALL_SIZE \div 2),
                    y |-> (SCREEN_HEIGHT \div 2) - (BALL_SIZE \div 2),
                    size |-> BALL_SIZE, speedX |-> speed, speedY |-> speed]

\* The default values: at the start of pong and for 'D' of the configuration.
\* Scores, score to win and ball speed are not among them.
Defaults(q) == [q EXCEPT !.p1 = set_paddle(PADDLE_X),
                         !.p2 = set_paddle(SCREEN_WIDTH - PADDLE_X - PADDLE_WIDTH),
                         !.ball = set_ball(q.BALL_SPEED),
                         !.up1 = "W", !.down1 = "S", !.up2 = "^", !.down2 = "v"]

\* The globals as the image is loaded.
Loaded == Defaults([p1 |-> 0, p2 |-> 0, ball |-> 0, up1 |-> "", down1 |-> "", up2 |-> "", down2 |-> "",
                    BALL_SPEED |-> InitialBallSpeed, BALL_SPEED_HORIZONTAL |-> 2 * InitialBallSpeed,
                    score |-> InitialScore, s1 |-> 0, s2 |-> 0])

reset_game(q) ==
  [q EXCEPT !.ball.x = (SCREEN_WIDTH \div 2) - (q.ball.size \div 2),
            !.ball.y = (SCREEN_HEIGHT \div 2) - (q.ball.size \div 2),
            !.ball.speedX = -@, !.ball.speedY = 0,
            !.p1.y = (SCREEN_HEIGHT \div 2) - (q.p1.height \div 2),
            !.p2.y = (SCREEN_HEIGHT \div 2) - (q.p2.height \div 2)]

NoScores(q) == [q EXCEPT !.s1 = 0, !.s2 = 0]

\* One key event for one player: up before down, make before break.
Steer(direction, up, down, e) ==
  IF e.key = up THEN IF e.make THEN "UP" ELSE IF direction = "UP" THEN "STOP" ELSE direction
  ELSE IF e.key = down THEN IF e.make THEN "DOWN" ELSE IF direction = "DOWN" THEN "STOP" ELSE direction
  ELSE direction

\* read_key for one player, over the key events of a frame; the other player's
\* keys do not concern it.
read_key(direction, up, down, ks) == FoldLeft(LAMBDA d, e : Steer(d, up, down, e), direction, ks)

\* Mutant of movePaddle: the height of the paddle is forgotten.
movePaddle_no_height(p) ==
  CASE p.direction = "UP" ->
         IF UGe(p.y - p.speed, BORDER_SIZE) THEN [p EXCEPT !.y = @ - p.speed]
         ELSE [p EXCEPT !.y = BORDER_SIZE, !.direction = "STOP"]
    [] p.direction = "DOWN" ->
         IF ULe(p.y + p.speed, SCREEN_HEIGHT - BORDER_SIZE) THEN [p EXCEPT !.y = @ + p.speed]
         ELSE [p EXCEPT !.y = SCREEN_HEIGHT - BORDER_SIZE - p.height, !.direction = "STOP"]
    [] OTHER -> p

movePaddle(p) ==
  CASE p.direction = "UP" ->
         IF UGe(p.y - p.speed, BORDER_SIZE) THEN [p EXCEPT !.y = @ - p.speed]
         ELSE [p EXCEPT !.y = BORDER_SIZE, !.direction = "STOP"]
    [] p.direction = "DOWN" ->
         IF ULe(p.y + p.speed + p.height, SCREEN_HEIGHT - BORDER_SIZE) THEN [p EXCEPT !.y = @ + p.speed]
         ELSE [p EXCEPT !.y = SCREEN_HEIGHT - BORDER_SIZE - p.height, !.direction = "STOP"]
    [] OTHER -> p

\* The computer follows the ball; its paddle moves here and again in the loop.
training(q) ==
  LET middle == q.p2.y + (q.p2.height \div 2)
      direction == IF q.ball.y + q.ball.size < middle THEN "UP"
                   ELSE IF q.ball.y > middle THEN "DOWN" ELSE "STOP"
  IN  [q EXCEPT !.p2 = movePaddle([@ EXCEPT !.direction = direction])]

\* Mutant of check_scored: the edge of the ball counts, not its centre.
check_scored_edge(q) ==
  IF q.ball.x < q.p1.x + q.p1.width THEN 2 ELSE IF q.ball.x + q.ball.size > q.p2.x THEN 1 ELSE 0

\* check_scored: the player who scores, 0 for none.
check_scored(q) ==
  LET centre == q.ball.x + (q.ball.size \div 2)
  IN  IF centre < q.p1.x + q.p1.width THEN 2 ELSE IF centre > q.p2.x THEN 1 ELSE 0

update_score(q, player) == IF player = 1 THEN [q EXCEPT !.s1 = @ + 1] ELSE [q EXCEPT !.s2 = @ + 1]

OffSides(b) ==
  IF ULe(b.x, BORDER_SIZE) THEN [b EXCEPT !.x = BORDER_SIZE, !.speedX = -@]
  ELSE IF UGe(b.x + b.size, SCREEN_WIDTH - BORDER_SIZE)
  THEN [b EXCEPT !.x = SCREEN_WIDTH - BORDER_SIZE - b.size, !.speedX = -@]
  ELSE b

\* Mutant of OffTopAndBottom: the ball turns but is not put back on the edge.
OffTopAndBottom_keeps_y(b) ==
  IF ULe(b.y, BORDER_SIZE) \/ UGe(b.y + b.size, SCREEN_HEIGHT - 2 * BORDER_SIZE)
  THEN [b EXCEPT !.speedY = -@] ELSE b

OffTopAndBottom(b) ==
  IF ULe(b.y, BORDER_SIZE) THEN [b EXCEPT !.y = BORDER_SIZE, !.speedY = -@]
  ELSE IF UGe(b.y + b.size, SCREEN_HEIGHT - 2 * BORDER_SIZE)
  THEN [b EXCEPT !.y = SCREEN_HEIGHT - 2 * BORDER_SIZE - b.size, !.speedY = -@]
  ELSE b

Hit(b, p) == /\ b.x =< p.x + p.width /\ b.x + b.size >= p.x
             /\ b.y + b.size >= p.y /\ b.y =< p.y + p.height

OffPaddle(q, b, p, side) ==
  IF ~Hit(b, p) THEN b
  ELSE [b EXCEPT !.speedX = side * (IF p.direction = "STOP" THEN q.BALL_SPEED_HORIZONTAL ELSE q.BALL_SPEED),
                 !.speedY = CASE p.direction = "UP" -> -q.BALL_SPEED
                              [] p.direction = "DOWN" -> q.BALL_SPEED
                              [] OTHER -> 0]

move_ball(q) ==
  IF check_scored(q) # 0 THEN reset_game(update_score(q, check_scored(q)))
  ELSE LET moved == [q.ball EXCEPT !.x = @ + q.ball.speedX, !.y = @ + q.ball.speedY]
           inside == OffTopAndBottom(OffSides(moved))
       IN  [q EXCEPT !.ball = OffPaddle(q, OffPaddle(q, inside, q.p1, 1), q.p2, -1)]

\* The rest of the loop once the key events ks are there.
FrameOf(q, ks) ==
  LET steered == [q EXCEPT !.p1.direction = read_key(@, q.up1, q.down1, ks),
                           !.p2.direction = IF loc.Training THEN @ ELSE read_key(@, q.up2, q.down2, ks)]
      led == IF loc.Training THEN training(steered) ELSE steered
  IN  move_ball([led EXCEPT !.p1 = movePaddle(@), !.p2 = movePaddle(@)])

Over(q) == q.s1 >= q.score \/ q.s2 >= q.score
IsP(ks, c) == IF ks = << >> THEN c ELSE ks[Len(ks)] = Event("P", TRUE)
-----------------------------------------------------------------------------
\* Mutant of Turn: the pause is drawn in the font of the scores.
Turn_keeps_font(s, paused) == /\ ph' = IF paused THEN "pause" ELSE "play"
                           /\ scr' = set_font_size(s, SCORE_CARD_FONT_SIZE)

\* Where the next turn of the loop starts: show_score_card, then the pause.
Turn(s, paused) == /\ ph' = IF paused THEN "pause" ELSE "play"
                /\ scr' = set_font_size(s, IF paused THEN DEFAULT_FONT_SIZE ELSE SCORE_CARD_FONT_SIZE)

\* One frame from screen s, globals q and locals k with key events ks.
Frame(s, q, ks, k) ==
  LET c == ks # << >> /\ Last(ks) = Event("P", TRUE)
      r == FrameOf(q, ks)
  IN  /\ g' = r /\ loc' = [k EXCEPT !.c = c, !.pending = << >>]
      /\ IF Over(r) THEN /\ ph' = "over"
                         /\ scr' = set_font_size(clear_color(s), DEFAULT_FONT_SIZE)
                    ELSE Turn(s, c)

Locals == [Training |-> FALSE, c |-> FALSE, pending |-> << >>, caller |-> "menu",
           options |-> 0, left |-> FALSE]

pong == /\ ph \in {"off", "returned"} /\ ph' = "refresh" /\ g' = Defaults(g)
        /\ loc' = [Locals EXCEPT !.options = loc.options, !.left = loc.left]
        /\ scr' = set_font_size(clear_color(scr), DEFAULT_FONT_SIZE)

\* The first menu chooses a refresh rate and nothing else.
RefreshKey == /\ ph = "refresh" /\ ph' = "menu" /\ scr' = clear_color(scr) /\ UNCHANGED <<g, loc>>

\* configuration starts with its options on an empty screen.
Configure(caller) == /\ ph' = "config" /\ loc' = [loc EXCEPT !.caller = caller]
                     /\ scr' = draw_word(clear_color(scr), <<"A", "ENTER">>) /\ UNCHANGED g

\* Mutant of Begin: the score card's font is set on the screen of the menus.
Begin_keeps_cursor(t) == /\ ph' = "play" /\ g' = reset_game(g)
                         /\ loc' = [loc EXCEPT !.Training = (t = "T"), !.pending = <<Event(t, TRUE)>>]
                         /\ scr' = set_font_size(scr, SCORE_CARD_FONT_SIZE)

\* A match begins; its first frame reads the last key of the menus again,
\* because pos - 1 is that key's cell.
Begin(t) == /\ ph' = "play" /\ g' = reset_game(g)
            /\ loc' = [loc EXCEPT !.Training = (t = "T"), !.pending = <<Event(t, TRUE)>>]
            /\ scr' = set_font_size(clear_color(scr), SCORE_CARD_FONT_SIZE)

MenuKey(t) == ph = "menu" /\ IF t = "C" THEN Configure("menu") ELSE Begin(t)

PlayFrame(ks) == ph = "play" /\ Frame(scr, g, loc.pending \o ks, loc)

\* Mutant of NewMatch: the scores of the last match stay.
NewMatch_keeps_scores(q) == reset_game(q)

NewMatch(q) == reset_game([q EXCEPT !.s1 = 0, !.s2 = 0])

\* The pause, in the turn of the loop whose frame then reads the key p.
PauseKey(p) ==
  LET ks == loc.pending \o <<Event(p, TRUE)>>
  IN  /\ ph = "pause"
      /\ CASE p = "X" -> /\ ph' = "returned" /\ g' = [g EXCEPT !.s1 = 0, !.s2 = 0]
                         /\ scr' = clear_color(scr) /\ loc' = [loc EXCEPT !.left = FALSE]
           [] p = "C" -> Configure("pause")
           [] p = "R" -> Frame(clear_color(scr), NewMatch(g), ks, [loc EXCEPT !.left = FALSE])
           [] OTHER   -> Frame(scr, g, ks, loc)

\* The end of a match: 'X' keeps the scores, and the next run begins with them.
OverKey(p) ==
  /\ ph = "over"
  /\ IF p = "X"
     THEN /\ ph' = "returned" /\ loc' = [loc EXCEPT !.left = TRUE]
          /\ scr' = clear_color(scr) /\ UNCHANGED g
     ELSE /\ g' = NewMatch(g)
          /\ loc' = [loc EXCEPT !.pending = <<Event(p, TRUE)>>, !.left = FALSE]
          /\ Turn(clear_color(scr), loc.c)
-----------------------------------------------------------------------------
\* The characters typed, as their distance from '0': a backspace is -40, and on
\* the number 0 it counts as a digit.
BKSP == -40
Typed(number, c) ==
  IF c = BKSP /\ number # 0 THEN (IF number < 0 THEN -((-number) \div 10) ELSE number \div 10)
  ELSE number * 10 + c
get_number(typed) == FoldLeft(Typed, 0, typed)

\* ascii_to_key_code has the codes of 'Y' and 'Z' the wrong way round.
ascii_to_key_code(c) == CASE c = "Y" -> "Z" [] c = "Z" -> "Y" [] OTHER -> c
Bound(old, c) == IF c = NUL THEN old ELSE ascii_to_key_code(c)

Accept(n) == n > 0

\* What an option does with a positive number n, or the characters c and d.
SetNumber(q, option, n) ==
  IF ~Accept(n) THEN q
  ELSE CASE option = "1" -> [q EXCEPT !.BALL_SPEED_HORIZONTAL = 2 * n, !.BALL_SPEED = n, !.ball.speedX = n]
         [] option = "2" -> [q EXCEPT !.p1.speed = n, !.p2.speed = n]
         [] option = "4" -> [q EXCEPT !.ball.size = n]
         [] option = "6" -> [q EXCEPT !.p1.height = n]
         [] option = "6b" -> [q EXCEPT !.p2.height = n]
         [] option = "7" -> [q EXCEPT !.p1.width = n]
         [] option = "S" -> [q EXCEPT !.score = n]

SetKeys(q, option, c, d) ==
  IF option = "C" THEN [q EXCEPT !.up1 = Bound(@, c), !.down1 = Bound(@, d)]
                  ELSE [q EXCEPT !.up2 = Bound(@, c), !.down2 = Bound(@, d)]

\* The options that ask for one number, for two (the second width goes to
\* paddle1 again), for two keys, and 'D'; 'S' falls through to 'D'.
Chosen(q) ==
  (UNION {{SetNumber(q, o, get_number(w)) : w \in Entries[o]} : o \in {"1", "2", "4"}})
  \cup {SetNumber(SetNumber(q, "6", get_number(w)), "6b", get_number(v)) : v, w \in Entries["6"]}
  \cup {SetNumber(SetNumber(q, "7", get_number(w)), "7", get_number(v)) : v, w \in Entries["7"]}
  \cup {SetKeys(q, o, c, d) : o \in {"C", "K"}, c, d \in Rebinds}
  \cup {Defaults(SetNumber(q, "S", get_number(w))) : w \in Entries["S"]}
  \cup {Defaults(q)}

configuration ==
  /\ ph = "config" /\ loc.options < MaxConfig
  /\ g' \in Chosen(g) /\ loc' = [loc EXCEPT !.options = @ + 1]
  /\ scr' = draw_word(clear_color(scr), <<"A", "ENTER">>)
  /\ UNCHANGED ph

LeaveConfig ==
  /\ ph = "config"
  /\ IF loc.caller = "menu" THEN Begin("X")
     ELSE Frame(clear_color(scr), g, loc.pending \o <<Event("X", TRUE)>>, loc)

\* Ctrl-C kills pong wherever it is and leaves screen, font and points as they
\* are.  (What pong sets anew when it starts does not matter until then.)
kill_foreground_process ==
  /\ ph \notin {"off", "returned"} /\ ph' = "off" /\ g' = Defaults(g)
  /\ loc' = [Locals EXCEPT !.options = loc.options, !.left = (g.s1 # 0 \/ g.s2 # 0)]
  /\ UNCHANGED scr

\* Key events of play; characters of the menus.
Bursts == {<< >>} \cup {<<Event(k, b)>> : k \in {"W", "S", "^", "v", "Z"}, b \in BOOLEAN}
          \cup {<<Event("P", TRUE)>>}

PongStep == \/ RefreshKey \/ configuration \/ LeaveConfig
            \/ \E t \in {"C", "T", "A", "P"} : MenuKey(t)
            \/ \E ks \in Bursts : PlayFrame(ks)
            \/ \E p \in {"X", "C", "R", "P", "W"} : PauseKey(p) \/ OverKey(p)

\* The shell may start it again and again, with the globals of the run before.
PongInit == /\ ph = "off" /\ g = Loaded /\ loc = Locals
            /\ scr = [x |-> 0, y |-> 0, size |-> DEFAULT_FONT_SIZE, up |-> 0]

PongNext == pong \/ PongStep \/ kill_foreground_process

PongSpec == PongInit /\ [][PongNext]_<<scr, pongvars>>
-----------------------------------------------------------------------------
Fields == {"x", "y", "width", "height", "speed", "direction"}
PongTypeOK ==
  /\ ph \in {"off", "refresh", "menu", "config", "play", "pause", "over", "returned"}
  /\ {DOMAIN g.p1, DOMAIN g.p2} = {Fields}
  /\ {g.p1.direction, g.p2.direction} \subseteq {"UP", "DOWN", "STOP"}
  /\ {g.ball.x, g.ball.y, g.ball.speedX, g.ball.speedY, g.p1.y, g.p2.y} \subseteq Int
  /\ {g.score, g.s1, g.s2, g.BALL_SPEED, g.BALL_SPEED_HORIZONTAL, g.ball.size} \subseteq Nat
  /\ {loc.Training, loc.c, loc.left} \subseteq BOOLEAN /\ loc.options \in 0 .. MaxConfig

\* The ball is between the sides and no faster than a border, half of it is at
\* least its horizontal speed less one pixel (the initial 10 and 6 just satisfy
\* that), and each paddle has its half of the screen.
Savable(q) ==
  /\ BORDER_SIZE =< q.ball.x /\ q.ball.x + q.ball.size =< SCREEN_WIDTH - BORDER_SIZE
  /\ q.BALL_SPEED_HORIZONTAL =< BORDER_SIZE /\ q.ball.size \div 2 >= q.BALL_SPEED_HORIZONTAL - 1
  /\ q.p1.x + q.p1.width =< SCREEN_WIDTH \div 2 /\ SCREEN_WIDTH \div 2 =< q.p2.x

\* A save is not a goal: a ball that was in front of a paddle is not found
\* behind it by check_scored one frame later, whether the paddle meets it, a
\* side turns it or a goal puts it back into the middle, so that no ball gets
\* past a paddle that stands in its way.
SavedBallDoesNotScore ==
  [][ph = "play" /\ ph' = "play" /\ Savable(g) =>
       /\ g.ball.x > g.p1.x + g.p1.width => check_scored(g') # 2
       /\ g.ball.x + g.ball.size < g.p2.x => check_scored(g') # 1]_pongvars

\* The ball stays between the borders whatever speed, size and paddles are
\* configured, as long as it fits and moves by no more than a border per frame.
\* With a second option a ball that had left (too fast) may have become slow.
BallInField ==
  ph = "play" /\ loc.options =< 1 /\ g.BALL_SPEED_HORIZONTAL =< BORDER_SIZE /\ BallFits(g.ball.size) =>
    /\ BORDER_SIZE =< g.ball.x /\ g.ball.x + g.ball.size =< SCREEN_WIDTH - BORDER_SIZE
    /\ BORDER_SIZE =< g.ball.y /\ g.ball.y + g.ball.size =< SCREEN_HEIGHT - 2 * BORDER_SIZE

\* The paddles stay between the borders, the computer's that moves twice a
\* frame too, unless they were made faster than a border is wide (the unsigned
\* comparison then lets them leave at the top) or longer while in play, as far
\* as a second option can tell.
PaddlesInField ==
  ph = "play" /\ loc.options =< 1 => \A p \in {g.p1, g.p2} :
    p.speed =< BORDER_SIZE /\ p.height =< PADDLE_HEIGHT =>
      BORDER_SIZE =< p.y /\ p.y + p.height =< SCREEN_HEIGHT - BORDER_SIZE

\* Nobody has won a match that is being played, whatever the score to win was
\* set to, unless the run before left points behind, from the final screen of a
\* match or killed by Ctrl-C.
MatchIsOpen == ph \in {"play", "pause"} /\ ~loc.left => ~Over(g)

\* When pong returns it gives the screen back as it got it: empty and in the
\* default font, from the pause or from the final screen.  (Ctrl-C does not.)
ScreenHandedBack ==
  ph = "returned" => scr.x = 0 /\ scr.y = 0 /\ scr.size = DEFAULT_FONT_SIZE

\* From its start to its end pong uses the screen as Terminal expects of a program
\* in the foreground: in every phase, killed and started again, it changes the
\* font on an empty screen only, so that what it leaves to the shell is on the
\* grid of its font.
DrawsAsProgram ==
  [][ph # "off" \/ ph' # "off" => ProgramDraws]_<<scr, pongvars>>
=============================================================================
