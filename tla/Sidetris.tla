------------------------------ MODULE Sidetris ------------------------------
(***************************************************************************)
(* The sideways stacking game (src/apps/sidetris/sidetris.c): pieces fall  *)
(* from left to right, full columns vanish.  Gravity may act between any   *)
(* two keys; the chosen speed and the line of fun are left out.            *)
(***************************************************************************)
EXTENDS Integers, Sequences, SequencesExt, FiniteSetsExt

CONSTANTS
  BOARD_W, BOARD_H,
  Types,            \* the pieces in the bag, of those below
  LINES_PER_LEVEL,  \* 10 in the code
  MaxScore,         \* bound: no piece is locked from this score on
  Covered,          \* the cells below a popup
  Modes

VARIABLES
  ram,    \* the program's data; rendered and shown: the cells as the program
          \* believes, and as they are on the screen; popup is drawn over them
  store,  \* the resume payload while the program is left, or {}
  todo,   \* "keys", or "left"
  mode

vars == <<ram, store, todo, mode>>

\* piece_cells: the cells of a piece in its four rotations, as rows of patterns.
Kinds == {"I", "O", "T", "J", "L", "S", "Z"}

Patterns(type) ==
  CASE type = "I" -> <<<<"1111">>, <<"1", "1", "1", "1">>>>
    [] type = "O" -> <<<<"11", "11">>>>
    [] type = "T" -> <<<<"111", "01">>, <<"01", "11", "01">>,
                       <<"01", "111">>, <<"1", "11", "1">>>>
    [] type = "J" -> <<<<"1", "111">>, <<"11", "1", "1">>,
                       <<"111", "001">>, <<"01", "01", "11">>>>
    [] type = "L" -> <<<<"001", "111">>, <<"1", "1", "11">>,
                       <<"111", "1">>, <<"11", "01", "01">>>>
    [] type = "S" -> <<<<"011", "11">>, <<"1", "11", "01">>>>
    [] type = "Z" -> <<<<"11", "011">>, <<"01", "11", "1">>>>

\* The columns a row fills
Fills(r) == CASE r = "1" -> {0}      [] r = "01" -> {1}     [] r = "001" -> {2}
              [] r = "11" -> {0, 1}  [] r = "011" -> {1, 2} [] r = "111" -> 0 .. 2
              [] r = "1111" -> 0 .. 3

Piece(type, rot) ==
  LET all  == Patterns(type)
      rows == all[(rot % Len(all)) + 1]
  IN  UNION {{<<x, y - 1>> : x \in Fills(rows[y])} : y \in DOMAIN rows}

Cells == (0 .. BOARD_W - 1) \X (0 .. BOARD_H - 1)
Blank == [c \in Cells |-> ""]

CellsAt(type, rot, x, y) == {<<x + c[1], y + c[2]>> : c \in Piece(type, rot)}
Active(m) == CellsAt(m.type, m.rot, m.x, m.y)

\* can_place_piece
Fits(b, type, rot, x, y) ==
  \A c \in CellsAt(type, rot, x, y) : c \in Cells /\ b[c] = ""

-----------------------------------------------------------------------------
\* draw_board_cells: cells that differ from what was rendered are drawn.
Picture(m) ==
  [c \in Cells |-> IF m.phase \in {"play", "pause"} /\ c \in Active(m)
                   THEN m.type ELSE m.board[c]]

Drawn(m) ==
  LET p == Picture(m)
  IN  [m EXCEPT !.rendered = p,
                !.shown = [c \in Cells |-> IF m.rendered[c] # p[c] THEN p[c]
                                           ELSE @[c]]]

\* draw_pause_box, draw_game_over_box
Boxed(m) == [m EXCEPT !.popup = TRUE,
               !.shown = [c \in Cells |-> IF c \in Covered THEN "box" ELSE @[c]]]

\* draw_game_screen, and restore_play_area_after_popup, which clears what the
\* popup covered
Invalid == [c \in Cells |-> "?"]

DrawnAll(m) ==
  LET d == Drawn([m EXCEPT !.rendered = Invalid, !.shown = Blank,
                           !.popup = FALSE])
  IN  IF m.phase \in {"pause", "over"} THEN Boxed(d) ELSE d

Uncovered(m) ==
  Drawn([m EXCEPT !.popup = FALSE, !.rendered = Invalid,
           !.shown = [c \in Cells |-> IF c \in Covered THEN "" ELSE @[c]]])

-----------------------------------------------------------------------------
\* refill_bag: some order.  pull_piece takes from the end.
Bags == SetToSeqs(Types)
Pulls(bag) == {<<Last(b), Front(b)>> : b \in IF bag = <<>> THEN Bags ELSE {bag}}

\* spawn_piece: in the middle or one beside it; else the game is over.
Height(type) == Max({c[2] : c \in Piece(type, 0)}) + 1

SpawnAt(b, type) ==
  LET mid == (BOARD_H - Height(type)) \div 2
      ok  == {y \in {mid, mid - 1, mid + 1} : y >= 0 /\ Fits(b, type, 0, 0, y)}
  IN  IF mid \in ok THEN {mid} ELSE IF mid - 1 \in ok THEN {mid - 1} ELSE ok

Spawned(m, pull) ==
  LET m2 == [m EXCEPT !.type = m.next, !.next = pull[1], !.bag = pull[2],
                      !.rot = 0, !.x = 0]
      at == SpawnAt(m.board, m.next)
  IN  IF at = {} THEN [m2 EXCEPT !.phase = "over", !.last = m.score]
      ELSE [m2 EXCEPT !.y = Max(at)]

Reset(m) ==
  [m EXCEPT !.board = Blank, !.score = 0, !.lines = 0, !.level = 1,
            !.type = "I", !.rot = 0, !.x = 0, !.y = 0, !.bag = <<>>,
            !.rendered = Invalid]

\* enter_menu, start_new_game
Menu(m) == [Reset(m) EXCEPT !.phase = "menu", !.popup = FALSE]

NewGames(m) ==
  UNION {{DrawnAll(Spawned([Reset(m) EXCEPT !.phase = "play", !.next = p[1]], q)) :
          q \in Pulls(p[2])} : p \in Pulls(<<>>)}

\* clear_full_columns: the columns that are not full, moved to the right.
FullColumns(b) == {x \in 0 .. BOARD_W - 1 : \A y \in 0 .. BOARD_H - 1 : b[<<x, y>>] # ""}

ClearedBoard(b) ==
  LET kept == SelectSeq([i \in 1 .. BOARD_W |-> i - 1],
                        LAMBDA x : x \notin FullColumns(b))
      gone == BOARD_W - Len(kept)
  IN  [c \in Cells |-> IF c[1] < gone THEN ""
                       ELSE b[<<kept[c[1] - gone + 1], c[2]>>]]

Points == <<100, 300, 500, 800>>

LevelOf(lines) == LET l == (1 + (lines \div LINES_PER_LEVEL)) % 256
                  IN  IF l = 0 THEN 1 ELSE l

\* lock_active_piece, until the next piece is pulled
Locked(m) ==
  LET b == [c \in Cells |-> IF c \in Active(m) THEN m.type ELSE m.board[c]]
      n == Cardinality(FullColumns(b))
      s == m.score + (IF n = 0 THEN 0
                      ELSE Points[IF n < 4 THEN n ELSE 4] * m.level)
  IN  [m EXCEPT !.board = ClearedBoard(b), !.score = s, !.lines = @ + n,
                !.level = IF n = 0 THEN @ ELSE LevelOf(m.lines + n),
                !.best = IF s > @ THEN s ELSE @]

AfterLock(m) ==
  {LET d == Drawn(Spawned(Locked(m), p))
   IN  IF d.phase = "over" THEN Boxed(d) ELSE d : p \in Pulls(m.bag)}

\* How far a piece can fall
Falls(m) == CHOOSE x \in m.x .. BOARD_W - 1 :
              /\ ~Fits(m.board, m.type, m.rot, x + 1, m.y)
              /\ \A k \in m.x + 1 .. x : Fits(m.board, m.type, m.rot, k, m.y)

\* rotate_piece: the place itself, then one up, one down, two up, one back.
Rotations(m, rot) ==
  LET steps == <<<<0, 0>>, <<0, -1>>, <<0, 1>>, <<0, -2>>, <<-1, 0>>>>
      good == {i \in DOMAIN steps :
                 Fits(m.board, m.type, rot, m.x + steps[i][1], m.y + steps[i][2])}
  IN  IF good = {} THEN {} ELSE {steps[Min(good)]}

-----------------------------------------------------------------------------
Cold == Menu([phase |-> "menu", board |-> Blank, type |-> "I", rot |-> 0,
              next |-> "I", x |-> 0, y |-> 0, bag |-> <<>>, score |-> 0,
              best |-> 0, last |-> 0, lines |-> 0, level |-> 1,
              rendered |-> Invalid, shown |-> Blank, popup |-> FALSE])

Init == ram = Cold /\ store = {} /\ todo = "keys" /\ mode \in Modes

Becomes(m) == todo = "keys" /\ ram' = m /\ UNCHANGED <<store, todo, mode>>
Playing    == ram.phase = "play"

\* RETURN or SPACE in the menu, R elsewhere
NewGame == \E m \in NewGames(ram) : Becomes(m)

ToMenu == ram.phase # "menu" /\ Becomes(Menu(ram))

\* step_gravity
Gravity ==
  /\ Playing
  /\ IF Fits(ram.board, ram.type, ram.rot, ram.x + 1, ram.y)
     THEN Becomes(Drawn([ram EXCEPT !.x = @ + 1]))
     ELSE ram.score < MaxScore /\ \E m \in AfterLock(ram) : Becomes(m)

\* hard_drop_piece
Drop ==
  /\ Playing /\ ram.score < MaxScore
  /\ \E m \in AfterLock([ram EXCEPT !.x = Falls(ram)]) : Becomes(m)

\* move_piece_vertical
MoveVertical(d) ==
  /\ Playing /\ Fits(ram.board, ram.type, ram.rot, ram.x, ram.y + d)
  /\ Becomes(Drawn([ram EXCEPT !.y = @ + d]))

Rotate(d) ==
  LET rot == (ram.rot + d) % 4
  IN  /\ Playing
      /\ \E s \in Rotations(ram, rot) :
           Becomes(Drawn([ram EXCEPT !.rot = rot, !.x = @ + s[1], !.y = @ + s[2]]))

Pause ==
  \/ Playing /\ Becomes(Boxed([ram EXCEPT !.phase = "pause"]))
  \/ ram.phase = "pause" /\ Becomes(Uncovered([ram EXCEPT !.phase = "play"]))

\* prepare_suspend_state and resume_save_state
Leave ==
  /\ todo = "keys" /\ todo' = "left"
  /\ LET m == [ram EXCEPT !.phase = IF @ = "play" THEN "pause" ELSE @]
     IN  ram' = m /\ store' = {[f \in DOMAIN m \ {"rendered", "shown", "popup"} |-> m[f]]}
  /\ UNCHANGED mode

\* What resume_restore_state accepts
Acceptable(p) ==
  /\ p.level > 0 /\ p.x \in 0 .. BOARD_W - 1 /\ p.y \in 0 .. BOARD_H - 1
  /\ Len(p.bag) <= Cardinality(Types)

Resumed(p) ==
  LET m == [f \in DOMAIN Cold |-> IF f \in DOMAIN p THEN p[f] ELSE Cold[f]]
  IN  DrawnAll([m EXCEPT !.phase = IF @ = "play" THEN "pause" ELSE @,
                         !.best = IF m.score > @ THEN m.score ELSE @])

\* main, when the program is entered again.  It may find an older payload, in a bank
\* of an earlier session (see ResumeState), and is then in a state of that game.
Restart ==
  /\ todo = "left"
  /\ ram' \in {IF Acceptable(p) THEN Resumed(p) ELSE Cold : p \in store}
  /\ store' = {} /\ todo' = "keys" /\ UNCHANGED mode

Next ==
  \/ NewGame \/ ToMenu \/ Gravity \/ Drop \/ Pause \/ Leave \/ Restart
  \/ \E d \in {-1, 1} : MoveVertical(d)
  \/ \E d \in {1, 3} : Rotate(d)

-----------------------------------------------------------------------------
\* The piece in play lies on free cells, whatever it was turned and pushed
\* against, and no column stays full.
PieceFits ==
  /\ ram.phase \in {"play", "pause"} =>
       Fits(ram.board, ram.type, ram.rot, ram.x, ram.y)
  /\ FullColumns(ram.board) = {}

\* The score pays for lines only, at most at the present level; the cells of
\* four-cell pieces add up; a bag holds no piece twice.
CountsRight ==
  /\ ram.lines = 0 <=> ram.score = 0
  /\ ram.score >= 100 * ram.lines /\ ram.score <= 200 * ram.lines * ram.level
  /\ ram.best >= ram.score
  /\ Cardinality(ToSet(ram.bag)) = Len(ram.bag)
  /\ (Cardinality({c \in Cells : ram.board[c] # ""}) + BOARD_H * ram.lines) % 4 = 0

\* Where no popup is, the screen shows the board with the piece in play.
ScreenShows ==
  ram.phase # "menu" =>
    /\ \A c \in Cells \ (IF ram.popup THEN Covered ELSE {}) :
         todo = "keys" => ram.shown[c] = Picture(ram)[c]
    /\ todo = "keys" => (ram.popup <=> ram.phase \in {"pause", "over"})

\* A game that is left can be resumed.
CanResume == \A p \in store : Acceptable(p)

\* Each rotation is the one before by a quarter turn.
Turned(cells) ==
  LET h == Max({c[2] : c \in cells}) IN {<<h - c[2], c[1]>> : c \in cells}
TurnsRight == \A t \in Kinds, r \in 0 .. 3 :
                Piece(t, (r + 1) % 4) = Turned(Piece(t, r))

\* base_drop_ticks and current_drop_ticks
BaseTicks(speed) ==
  LET t == IF speed < 49 THEN 240 - ((speed * 176) \div 49)
           ELSE 64 - (((speed - 49) * 60) \div 50)
  IN  IF t < 4 THEN 4 ELSE t

DropTicks(speed, level) ==
  LET t == BaseTicks(speed)
      reduction == ((level - 1) * 3) \div 4
  IN  IF level <= 1 THEN t ELSE IF reduction >= t - 3 THEN 3 ELSE t - reduction

\* Gravity takes a byte's worth of ticks, and never slows down with speed or
\* level.
TicksFall ==
  \A s \in 0 .. 99, l \in {1, 2, 10, 100, 255} :
    /\ DropTicks(s, l) \in 3 .. 255
    /\ s > 0 => DropTicks(s, l) <= DropTicks(s - 1, l)
    /\ l > 1 => DropTicks(s, l) <= DropTicks(s, l - 1)

Sound == PieceFits /\ CountsRight /\ ScreenShows /\ CanResume
         /\ (ram = Cold => TurnsRight /\ TicksFall)
=============================================================================
