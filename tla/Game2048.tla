------------------------------ MODULE Game2048 ------------------------------
(***************************************************************************)
(* The game 2048 (src/apps/game2048/game2048.c) on a board of Rows times   *)
(* Cols cells, four times four in the code.  A tile is its exponent, 0 is  *)
(* an empty cell.  The random generator is a choice.                       *)
(***************************************************************************)
EXTENDS Integers, Sequences, SequencesExt, FiniteSetsExt

CONSTANTS
  Rows, Cols,
  WIN_EXPONENT,
  MaxScore,  \* bound: no moves from this score on
  Modes

VARIABLES
  ram,    \* the program's data; fours counts the tiles of four dealt, which
          \* the program does not; shown is what the screen's board shows
  store,  \* the resume payload while the program is left, or {}
  todo,   \* "keys", or "left"
  mode

vars == <<ram, store, todo, mode>>

Cells == (1 .. Rows) \X (1 .. Cols)
Blank == [x \in Cells |-> 0]

Directions == {"up", "down", "left", "right"}

\* The cells of the line through a cell, from the edge the tiles slide to.
Line(dir, x) ==
  CASE dir = "up"    -> [i \in 1 .. Rows |-> <<i, x[2]>>]
    [] dir = "down"  -> [i \in 1 .. Rows |-> <<Rows + 1 - i, x[2]>>]
    [] dir = "left"  -> [i \in 1 .. Cols |-> <<x[1], i>>]
    [] dir = "right" -> [i \in 1 .. Cols |-> <<x[1], Cols + 1 - i>>]

Position(dir, x) == CHOOSE i \in DOMAIN Line(dir, x) : Line(dir, x)[i] = x
Tiles(b, line)   == [i \in DOMAIN line |-> b[line[i]]]
Heads(dir)       == {x \in Cells : Position(dir, x) = 1}

-----------------------------------------------------------------------------
\* slide_line: the tiles move together, then equal neighbours merge from the
\* edge on and the rest moves up.
Packed(in) ==
  LET tiles == SelectSeq(in, LAMBDA e : e # 0)
  IN  tiles \o [i \in 1 .. Len(in) - Len(tiles) |-> 0]

Merged(tmp, i) ==
  [j \in DOMAIN tmp |-> IF j < i THEN tmp[j]
                        ELSE IF j = i THEN tmp[i] + 1
                        ELSE IF j < Len(tmp) THEN tmp[j + 1] ELSE 0]

Slid(in) ==
  LET after[i \in 0 .. Len(in) - 1] ==
        IF i = 0 THEN [out |-> Packed(in), gain |-> 0]
        ELSE LET s == after[i - 1]
             IN  IF s.out[i] # 0 /\ s.out[i] = s.out[i + 1]
                 THEN [out  |-> Merged(s.out, i),
                       gain |-> s.gain + 2 ^ (s.out[i] + 1)]
                 ELSE s
  IN  after[Len(in) - 1]

\* apply_move, before a tile is dealt
Shifted(b, dir) ==
  [x \in Cells |-> Slid(Tiles(b, Line(dir, x))).out[Position(dir, x)]]

Gain(b, dir) ==
  MapThenSumSet(LAMBDA x : Slid(Tiles(b, Line(dir, x))).gain, Heads(dir))

\* spawn_tile: where, and which tile; nothing on a full board.
Deals(b) == {<<x, e>> \in Cells \X {1, 2} : b[x] = 0}

CanMove(b) ==
  \/ \E x \in Cells : b[x] = 0
  \/ \E x, y \in Cells :
       /\ \/ x[1] = y[1] /\ y[2] = x[2] + 1
          \/ x[2] = y[2] /\ y[1] = x[1] + 1
       /\ b[x] = b[y]

-----------------------------------------------------------------------------
\* draw_changed_tiles: a tile is drawn when it differs from what was drawn.
Drawn(m) ==
  LET new(x) == m.full \/ m.cache[x] # m.board[x]
  IN  [m EXCEPT !.shown = [x \in Cells |-> IF new(x) THEN m.board[x] ELSE @[x]],
                !.cache = [x \in Cells |-> IF new(x) THEN m.board[x] ELSE @[x]],
                !.full = FALSE]

\* save_pause_background, draw_pause_overlay, draw_game_over_overlay: there is
\* one buffer for what was below.
PoppedUp(m, popup) == [m EXCEPT !.below = m.popup, !.popup = popup]

\* restore_pause_background
Restored(m) == [m EXCEPT !.popup = m.below]

\* game_draw_initial
DrawnAll(m) ==
  LET d == Drawn([m EXCEPT !.popup = "none", !.shown = Blank])
  IN  IF m.over THEN PoppedUp(d, "over") ELSE d

Dealt(b, deal) == [b EXCEPT ![deal[1]] = deal[2]]
Fours(deal)    == IF deal[2] = 2 THEN 1 ELSE 0

\* reset_game: two tiles.
NewGame(best, d, e) ==
  [board |-> Dealt(Dealt(Blank, d), e), score |-> 0, best |-> best,
   fours |-> Fours(d) + Fours(e), over |-> FALSE, won |-> FALSE,
   paused |-> FALSE, cache |-> [x \in Cells |-> -1], full |-> TRUE,
   shown |-> Blank, popup |-> "none", below |-> "none"]

NewGames(best) ==
  UNION {{NewGame(best, d, e) : e \in Deals(Dealt(Blank, d))} :
         d \in Deals(Blank)}

-----------------------------------------------------------------------------
Init ==
  /\ ram \in {DrawnAll(g) : g \in NewGames(0)}
  /\ store = {} /\ todo = "keys" /\ mode \in Modes

Becomes(m) == todo = "keys" /\ ram' = m /\ UNCHANGED <<store, todo, mode>>

\* apply_move
AfterMove(m, dir, deal) ==
  LET b == Dealt(Shifted(m.board, dir), deal)
      s == m.score + Gain(m.board, dir)
  IN  [m EXCEPT !.board = b, !.score = s,
                !.best = IF s > @ THEN s ELSE @,
                !.fours = @ + Fours(deal),
                !.won = @ \/ \E x \in Cells : b[x] >= WIN_EXPONENT,
                !.over = ~CanMove(b)]

\* The cursor keys: a move that changes nothing deals no tile.
Move(dir) ==
  /\ ~ram.paused /\ ~ram.over /\ ram.score < MaxScore
  /\ Shifted(ram.board, dir) # ram.board
  /\ \E deal \in Deals(Shifted(ram.board, dir)) :
       LET m == Drawn(AfterMove(ram, dir, deal))
       IN  Becomes(IF m.over THEN PoppedUp(m, "over") ELSE m)

\* SPACE
Pause ==
  IF ram.paused THEN Becomes(Restored([ram EXCEPT !.paused = FALSE]))
  ELSE Becomes(PoppedUp([ram EXCEPT !.paused = TRUE], "pause"))

\* R
Again ==
  /\ ram.paused \/ ram.over
  /\ \E g \in NewGames(ram.best) : Becomes(DrawnAll(g))

\* resume_save_state
Leave ==
  /\ todo = "keys"
  /\ store' = {[board |-> ram.board, score |-> ram.score, best |-> ram.best,
                fours |-> ram.fours, over |-> ram.over, won |-> ram.won]}
  /\ todo' = "left" /\ UNCHANGED <<ram, mode>>

\* resume_restore_state
Resumed(g, p) ==
  [g EXCEPT !.board = p.board, !.score = p.score, !.fours = p.fours,
            !.best = IF p.best < p.score THEN p.score ELSE p.best,
            !.over = p.over \/ ~CanMove(p.board), !.won = p.won]

\* main, when the program is entered again.  It may find an older payload, in a bank
\* of an earlier session (see ResumeState), and is then in a state of that game.
Restart ==
  /\ todo = "left"
  /\ ram' \in {DrawnAll(Resumed(g, p)) : g \in NewGames(0), p \in store}
  /\ store' = {} /\ todo' = "keys" /\ UNCHANGED mode

Next ==
  \/ \E dir \in Directions : Move(dir)
  \/ Pause \/ Again \/ Leave \/ Restart

-----------------------------------------------------------------------------
\* What a slide should do: neighbours that are equal merge in pairs, from the
\* edge on, each tile once.
Paired(tiles) ==
  LET pairs[i \in 1 .. Len(tiles) + 2] ==
        IF i > Len(tiles) THEN <<>>
        ELSE IF i < Len(tiles) /\ tiles[i] = tiles[i + 1]
             THEN <<tiles[i] + 1>> \o pairs[i + 2]
             ELSE <<tiles[i]>> \o pairs[i + 1]
  IN  pairs[1]

SlidesFair ==
  \A dir \in Directions : \A x \in Heads(dir) :
    LET in  == Tiles(ram.board, Line(dir, x))
        due == Paired(SelectSeq(in, LAMBDA e : e # 0))
    IN  Slid(in).out = due \o [i \in 1 .. Len(in) - Len(due) |-> 0]

\* The game ends exactly when no direction changes the board.
OverIffStuck ==
  ram.over <=> \A dir \in Directions : Shifted(ram.board, dir) = ram.board

\* A tile 2^e that grew from twos has scored (e - 1) * 2^e on its way, and 4
\* less for each four that was dealt.
ScoreAdds ==
  /\ ram.score + 4 * ram.fours =
       MapThenSumSet(LAMBDA x : IF ram.board[x] = 0 THEN 0
                                ELSE (ram.board[x] - 1) * 2 ^ ram.board[x],
                     Cells)
  /\ ram.best >= ram.score
  /\ ram.won <=> \E x \in Cells : ram.board[x] >= WIN_EXPONENT

\* The board on the screen is the board of the game, and a popup is there
\* when the game waits for its key.
ScreenShows ==
  /\ ram.shown = ram.board
  /\ ram.popup = IF ram.paused THEN "pause" ELSE IF ram.over THEN "over"
                 ELSE "none"

Sound == SlidesFair /\ OverIffStuck /\ ScoreAdds /\ ScreenShows
=============================================================================
