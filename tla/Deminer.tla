------------------------------ MODULE Deminer ------------------------------
(***************************************************************************)
(* The minefield game (src/apps/deminer/deminer.c): levels, mines placed   *)
(* at the first reveal, the spreading reveal, flags, the cells drawn by a  *)
(* signature, resume.  The random generator is a choice.                   *)
(***************************************************************************)
EXTENDS Integers, Sequences, SequencesExt, FiniteSetsExt, Bitwise

CONSTANTS
  Level,   \* level -> its board: [w, h, mines]
  Beginner,
  NoCell,  \* 0xFF: no cell, and also the last one of the largest board
  Flags,   \* modes in which flags are used
  Modes

VARIABLES
  ram,    \* the program's data; shown is what the screen has for each cell
  store,  \* the resume payload while the program is left, or {}
  todo,   \* "keys", or "left"
  mode

vars == <<ram, store, todo, mode>>

Cells(l)  == (0 .. Level[l].w - 1) \X (0 .. Level[l].h - 1)
Field(m)  == Cells(m.level)
Mines(m)  == Level[m.level].mines
AnyCell   == UNION {Cells(l) : l \in DOMAIN Level}

Around(m, c) ==
  {n \in Field(m) : n # c /\ n[1] - c[1] \in -1 .. 1 /\ n[2] - c[2] \in -1 .. 1}

-----------------------------------------------------------------------------
\* render_signature: a cell is drawn again when this number has changed.
Selected(m, c) == m.phase \in {"play", "won", "lost"} /\ c = m.cursor

Signature(m, c) ==
  LET Bit(b, p) == IF p THEN b ELSE 0
  IN  (m.adj[c] + Bit(16, c \in m.visible) + Bit(32, c \in m.flagged)
         + Bit(64, c \in m.mine) + Bit(128, Selected(m, c)))
      ^^ (Bit(8, m.phase = "lost") + Bit(4, m.phase = "won")
            + Bit(2, c = m.blast))

\* render_cell: what is shown of a cell, and whether as the selected one
Look(m, c) ==
  IF c \in m.mine /\ (c \in m.visible \/ m.phase = "lost")
  THEN <<"mine", c = m.blast>>
  ELSE IF m.phase = "lost" /\ c \in m.flagged \ m.visible THEN <<"wrong">>
  ELSE IF c \in m.visible THEN <<"open", m.adj[c]>>
  ELSE IF c \in m.flagged THEN <<"flag">> ELSE <<"closed">>

\* draw_changed_cells
Drawn(m) ==
  LET new == {c \in Field(m) : m.full \/ m.cache[c] # Signature(m, c)}
  IN  [m EXCEPT !.cache = [c \in AnyCell |-> IF c \in new THEN Signature(m, c)
                                             ELSE @[c]],
                !.shown = [c \in AnyCell |-> IF c \in new
                                             THEN <<Look(m, c), Selected(m, c)>>
                                             ELSE @[c]],
                !.full = FALSE]

\* draw_game_screen
DrawnAll(m) ==
  Drawn([m EXCEPT !.full = TRUE, !.cache = [c \in AnyCell |-> 255],
                  !.shown = [c \in AnyCell |-> <<<<"none">>, FALSE>>]])

-----------------------------------------------------------------------------
\* enter_menu: the board stays as it is, the counts do not.
Menu(m) == [m EXCEPT !.phase = "menu", !.level = m.menu, !.revealed = 0,
                     !.flags = 0, !.placed = FALSE, !.blast = NoCell]

\* start_game
Started(m, l) ==
  DrawnAll([m EXCEPT !.level = l, !.menu = l, !.phase = "play",
                     !.mine = {}, !.visible = {}, !.flagged = {},
                     !.adj = [c \in AnyCell |-> 0],
                     !.cursor = <<Level[l].w \div 2, Level[l].h \div 2>>,
                     !.revealed = 0, !.flags = 0, !.placed = FALSE,
                     !.blast = NoCell])

Cold ==
  Menu([level |-> Beginner, menu |-> Beginner, phase |-> "menu",
        mine |-> {}, visible |-> {}, flagged |-> {},
        adj |-> [c \in AnyCell |-> 0], cursor |-> <<0, 0>>, revealed |-> 0,
        flags |-> 0, placed |-> FALSE, blast |-> NoCell,
        cache |-> [c \in AnyCell |-> 0], full |-> FALSE,
        shown |-> [c \in AnyCell |-> <<<<"none">>, FALSE>>]])

\* place_mines: anywhere but on the cell that is revealed.
Placed(m, mines) ==
  [m EXCEPT !.mine = mines, !.placed = TRUE,
            !.adj = [c \in AnyCell |->
                       IF c \in Field(m) \ mines
                       THEN Cardinality(Around(m, c) \cap mines) ELSE @[c]]]

Minefields(m, c) ==
  IF m.placed THEN {m}
  ELSE {Placed(m, s) : s \in kSubset(Mines(m), Field(m) \ {c})}

\* Mutant: the reveal spreads over flags.
SpreadFlagged(m, visible, c) == Around(m, c) \ (visible \cup m.mine)

Spread(m, visible, c) == Around(m, c) \ (visible \cup m.flagged \cup m.mine)

\* The queue of reveal_current_cell.
RECURSIVE Opened(_, _, _)
Opened(m, visible, queue) ==
  IF queue = <<>> THEN visible
  ELSE LET new == Spread(m, visible, Head(queue))
       IN  Opened(m, visible \cup new,
                  Tail(queue) \o SetToSeq({n \in new : m.adj[n] = 0}))

\* reveal_current_cell and check_for_win
Revealed(m) ==
  LET c == m.cursor
      v == Opened(m, m.visible \cup {c}, IF m.adj[c] = 0 THEN <<c>> ELSE <<>>)
      n == m.revealed + Cardinality(v) - Cardinality(m.visible)
      won == n >= Cardinality(Field(m)) - Mines(m)
  IN  IF c \in m.mine
      THEN Drawn([m EXCEPT !.blast = c, !.phase = "lost", !.full = TRUE])
      ELSE Drawn([m EXCEPT !.visible = v, !.revealed = n,
                           !.phase = IF won THEN "won" ELSE @, !.full = won])

-----------------------------------------------------------------------------
Init ==
  /\ ram = Cold /\ store = {} /\ todo = "keys" /\ mode \in Modes

Becomes(m) == todo = "keys" /\ ram' = m /\ UNCHANGED <<store, todo, mode>>

\* The keys of the menu
Choose == ram.phase = "menu"
          /\ \E l \in DOMAIN Level \ {ram.menu} : Becomes([ram EXCEPT !.menu = l])

Start(l) ==
  /\ \/ ram.phase \in {"menu", "won", "lost"}
     \/ ram.phase \in {"play", "pause"} /\ l = ram.level
  /\ Becomes(Started(ram, l))

ToMenu == ram.phase # "menu" /\ Becomes(Menu(ram))

\* move_cursor
Move(dx, dy) ==
  LET c == <<ram.cursor[1] + dx, ram.cursor[2] + dy>>
  IN  /\ ram.phase \in {"play", "won", "lost"} /\ c \in Field(ram)
      /\ Becomes(Drawn([ram EXCEPT !.cursor = c]))

\* RETURN
Reveal ==
  /\ ram.phase = "play" /\ ram.cursor \notin ram.visible \cup ram.flagged
  /\ \E m \in Minefields(ram, ram.cursor) : Becomes(Revealed(m))

\* SPACE: as many flags as mines
ToggleFlag ==
  /\ ram.phase = "play" /\ mode \in Flags /\ ram.cursor \notin ram.visible
  /\ LET c == ram.cursor
     IN  IF c \in ram.flagged
         THEN Becomes(Drawn([ram EXCEPT !.flagged = @ \ {c},
                                        !.flags = IF @ > 0 THEN @ - 1 ELSE @]))
         ELSE /\ ram.flags < Mines(ram)
              /\ Becomes(Drawn([ram EXCEPT !.flagged = @ \cup {c},
                                           !.flags = @ + 1]))

\* P: the screen below the popup is saved and put back.
Pause ==
  \/ ram.phase = "play" /\ Becomes([ram EXCEPT !.phase = "pause"])
  \/ ram.phase = "pause" /\ Becomes([ram EXCEPT !.phase = "play"])

\* resume_save_state
Payload(m) == [f \in DOMAIN m \ {"cache", "shown", "full"} |-> m[f]]

Leave ==
  /\ todo = "keys"
  /\ store' = {Payload(ram)} /\ todo' = "left"
  /\ UNCHANGED <<ram, mode>>

\* What resume_restore_state accepts
Acceptable(p) ==
  /\ p.cursor \in Cells(p.level)
  /\ p.flags <= Cardinality(Cells(p.level))
  /\ p.revealed <= Cardinality(Cells(p.level)) - Level[p.level].mines
  /\ p.blast \in Cells(p.level) \cup {NoCell}

Resumed(p) ==
  LET m == [f \in DOMAIN Cold |-> IF f \in DOMAIN p THEN p[f] ELSE Cold[f]]
  IN  IF p.phase = "menu" THEN m ELSE DrawnAll(m)

\* main, when the program is entered again.  It may find an older payload, in a bank
\* of an earlier session (see ResumeState), and is then in a state of that game.
Restart ==
  /\ todo = "left"
  /\ ram' \in IF \E p \in store : Acceptable(p) THEN {Resumed(p) : p \in store}
              ELSE {Cold}
  /\ store' = {} /\ todo' = "keys" /\ UNCHANGED mode

Next ==
  \/ Choose \/ \E l \in DOMAIN Level : Start(l)
  \/ ToMenu \/ Reveal \/ ToggleFlag \/ Pause
  \/ \E d \in {<<0, -1>>, <<0, 1>>, <<-1, 0>>, <<1, 0>>} : Move(d[1], d[2])
  \/ Leave \/ Restart

-----------------------------------------------------------------------------
InGame == ram.phase # "menu"

\* A game is won exactly when all cells without a mine are open, lost by a mine that
\* was stepped on and never by its first step.  A lost game has a blast cell, and a
\* game that has one is lost; the last cell of the largest board cannot be told
\* from none, which does no harm.
Fair ==
  InGame =>
    /\ ram.phase = "won" <=> ram.placed /\ Field(ram) \ ram.mine = ram.visible
    /\ ram.revealed = Cardinality(ram.visible)
    /\ ram.visible \cap (ram.mine \cup ram.flagged) = {}
    /\ ram.blast # NoCell => ram.phase = "lost"
    /\ ram.phase = "lost" => ram.blast \in ram.mine
    /\ ram.placed => Cardinality(ram.mine) = Mines(ram)
    /\ ram.flags = Cardinality(ram.flagged) /\ ram.flags <= Mines(ram)
    /\ ram.phase = "lost" => ram.visible # {}

\* Around an open cell with no mine next to it, everything is open, where no
\* flags are used.
SpreadComplete ==
  InGame /\ mode \notin Flags =>
    \A c \in ram.visible : ram.adj[c] = 0 => Around(ram, c) \subseteq ram.visible

\* Every cell on the screen looks as it should, and only the selected one may
\* look selected.
ScreenShows ==
  InGame => \A c \in Field(ram) :
    /\ ram.shown[c][1] = Look(ram, c)
    /\ ram.shown[c][2] => c = ram.cursor

\* A game that is left can be resumed.
CanResume == Acceptable(Payload(ram))

Sound == Fair /\ SpreadComplete /\ ScreenShows /\ CanResume
=============================================================================
