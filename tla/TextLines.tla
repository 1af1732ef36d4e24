----------------------------- MODULE TextLines -----------------------------
(***************************************************************************)
(* The text of the editor (src/apps/editor/editor.c), which QuickNotes     *)
(* shares: lines with a cursor, a selection and a scrolled view.  A record *)
(* m holds the lines, the cursor (line y, counted from 1, and x characters *)
(* before it), the scroll position, and the selection's anchor.            *)
(***************************************************************************)
EXTENDS Integers, Sequences, SequencesExt, FiniteSetsExt

CONSTANTS
  MAX_LINES,
  MAX_LINE_LEN,        \* a line has room for one character less
  EDIT_HEIGHT,
  CLIP_TEXT_BUF_SIZE,
  CR,
  Lower                \* to_lower: printable character -> character

NewText == [lines |-> <<<<>>>>, y |-> 1, x |-> 0, scroll |-> 0,
            sel |-> FALSE, ay |-> 1, ax |-> 0, modified |-> FALSE]

MaxScroll(m) == IF Len(m.lines) > EDIT_HEIGHT THEN Len(m.lines) - EDIT_HEIGHT
                ELSE 0

Smaller(a, b) == IF a < b THEN a ELSE b

\* clamp_view_state
Clamped(m) ==
  LET y == Smaller(m.y, Len(m.lines))
      s == Smaller(m.scroll, MaxScroll(m))
  IN  [m EXCEPT !.y = y,
                !.x = Smaller(Smaller(@, MAX_LINE_LEN - 2), Len(m.lines[y])),
                !.scroll = IF y <= s THEN y - 1
                           ELSE IF y > s + EDIT_HEIGHT
                                THEN Smaller(y - EDIT_HEIGHT, MaxScroll(m))
                                ELSE s]

-----------------------------------------------------------------------------
\* handle_char: nothing on a full line.
Typed(m, c) ==
  IF Len(m.lines[m.y]) >= MAX_LINE_LEN - 1 THEN m
  ELSE [m EXCEPT !.lines[m.y] = InsertAt(@, m.x + 1, c), !.x = @ + 1,
                 !.modified = TRUE]

\* handle_return
Broken(m) ==
  LET line == m.lines[m.y]
  IN  IF Len(m.lines) >= MAX_LINES THEN m
      ELSE Clamped([m EXCEPT !.lines = SubSeq(@, 1, m.y - 1)
                               \o <<SubSeq(line, 1, m.x),
                                    SubSeq(line, m.x + 1, Len(line))>>
                               \o SubSeq(@, m.y + 1, Len(@)),
                             !.y = @ + 1, !.x = 0, !.modified = TRUE])

\* handle_delete: the character before the cursor, or the line break.
Joins(m) ==
  /\ m.x = 0 /\ m.y > 1
  /\ Len(m.lines[m.y - 1]) + Len(m.lines[m.y]) < MAX_LINE_LEN

Deleted(m) ==
  IF m.x > 0
  THEN [m EXCEPT !.lines[m.y] = RemoveAt(@, m.x), !.x = @ - 1, !.modified = TRUE]
  ELSE IF Joins(m)
  THEN Clamped([m EXCEPT !.lines = SubSeq(@, 1, m.y - 2)
                           \o <<@[m.y - 1] \o @[m.y]>>
                           \o SubSeq(@, m.y + 1, Len(@)),
                         !.y = @ - 1, !.x = Len(m.lines[m.y - 1]),
                         !.modified = TRUE])
  ELSE m

\* handle_cursor between the lines lo and hi; in a selection they are those in
\* view (handle_cursor_selection).
CursorKeys == {"up", "down", "left", "right", "home"}

Placed(m, y, x) == [m EXCEPT !.y = y, !.x = x]

Steered(m, key, lo, hi) ==
  LET len == Len(m.lines[m.y])
      Onto(y) == Placed(m, y, Smaller(m.x, Len(m.lines[y])))
  IN  CASE key = "up"    -> IF m.y > lo THEN Onto(m.y - 1) ELSE m
        [] key = "down"  -> IF m.y < hi THEN Onto(m.y + 1) ELSE m
        [] key = "left"  -> IF m.x > 0 THEN Placed(m, m.y, m.x - 1)
                            ELSE IF m.y > lo
                            THEN Placed(m, m.y - 1, Len(m.lines[m.y - 1])) ELSE m
        [] key = "right" -> IF m.x < len THEN Placed(m, m.y, m.x + 1)
                            ELSE IF m.y < hi THEN Placed(m, m.y + 1, 0) ELSE m
        [] key = "home"  -> Placed(m, m.y, 0)

\* Only a change of the line clamps.
Steps(m, key) ==
  LET n == Steered(m, key, 1, Len(m.lines))
  IN  IF n.y = m.y THEN n ELSE Clamped(n)

SelectSteps(m, key) ==
  Steered(m, key, m.scroll + 1, Smaller(m.scroll + EDIT_HEIGHT, Len(m.lines)))

\* move_page_down, move_page_up
Jump == EDIT_HEIGHT - 1

PagedDown(m) ==
  IF Len(m.lines) <= 1 THEN m
  ELSE Clamped([m EXCEPT !.y = Smaller(@ + Jump, Len(m.lines)),
                         !.scroll = Smaller(@ + Jump, MaxScroll(m))])

PagedUp(m) ==
  Clamped([m EXCEPT !.y = IF @ - 1 > Jump THEN @ - Jump ELSE 1,
                    !.scroll = IF @ > Jump THEN @ - Jump ELSE 0])

-----------------------------------------------------------------------------
\* begin_selection, clear_selection; the anchor is kept while it is of use.
Selecting(m) == [m EXCEPT !.sel = TRUE, !.ay = m.y, !.ax = m.x]
Unmarked(m)  == [m EXCEPT !.sel = FALSE, !.ay = 1, !.ax = 0]

\* selection_bounds
AnchorFirst(m) == m.ay < m.y \/ (m.ay = m.y /\ m.ax <= m.x)
From(m) == IF AnchorFirst(m) THEN <<m.ay, m.ax>> ELSE <<m.y, m.x>>
To(m)   == IF AnchorFirst(m) THEN <<m.y, m.x>> ELSE <<m.ay, m.ax>>

\* The selected part of a line: after how many characters it starts and ends.
SpanFrom(m, l) == IF l = From(m)[1] THEN From(m)[2] ELSE 0
SpanTo(m, l)   == IF l = To(m)[1] THEN To(m)[2] ELSE Len(m.lines[l])

\* selection_line_span: the selected columns
Span(m, l) ==
  IF m.sel /\ l \in From(m)[1] .. To(m)[1]
  THEN SpanFrom(m, l) .. SpanTo(m, l) - 1 ELSE {}

\* copy_to_clipboard: the selection, or the line of the cursor; {} when there
\* is nothing to copy.
Cut(s, n) == SubSeq(s, 1, Smaller(Len(s), n))

CopyText(m) ==
  LET part(l) == SubSeq(m.lines[l], SpanFrom(m, l) + 1, SpanTo(m, l))
      parts == [i \in 1 .. To(m)[1] - From(m)[1] + 1 |->
                  IF i = 1 THEN part(From(m)[1])
                  ELSE <<CR>> \o part(From(m)[1] + i - 1)]
      text == IF m.sel /\ From(m) # To(m)
              THEN Cut(FlattenSeq(parts), CLIP_TEXT_BUF_SIZE)
              ELSE m.lines[m.y]
  IN  IF text = <<>> THEN {} ELSE {text}

\* paste_from_clipboard: as typed; it stops at a line that does not fit, and
\* skips what cannot be typed.
Pasted(m, text) ==
  LET cut == Cut(text, CLIP_TEXT_BUF_SIZE)
      after[i \in 0 .. Len(cut)] ==
        IF i = 0 THEN [m |-> Unmarked(m), full |-> FALSE]
        ELSE LET p == after[i - 1]
             IN  IF p.full \/ cut[i] \notin DOMAIN Lower \cup {CR} THEN p
                 ELSE IF cut[i] # CR THEN [p EXCEPT !.m = Typed(@, cut[i])]
                 ELSE IF Len(p.m.lines) >= MAX_LINES
                      THEN [p EXCEPT !.full = TRUE]
                      ELSE [p EXCEPT !.m = Broken(@)]
  IN  after[Len(cut)].m

-----------------------------------------------------------------------------
\* find_in_line_from: where a text occurs in a line
Occurs(line, needle) ==
  {c \in 0 .. Len(line) - Len(needle) : \A i \in DOMAIN needle :
     Lower[line[c + i]] = Lower[needle[i]]}

\* find_next_match: from behind the cursor on, else from the start to its line,
\* of which only the first occurrence is looked at.
HitsBelow(m, needle) ==
  {l \in m.y .. Len(m.lines) : \E c \in Occurs(m.lines[l], needle) :
     l = m.y => c > m.x}

HitsAbove(m, needle) ==
  {l \in 1 .. m.y : /\ Occurs(m.lines[l], needle) # {}
                    /\ l = m.y => Min(Occurs(m.lines[l], needle)) > m.x}

Finds(m, needle) ==
  LET below == HitsBelow(m, needle)
      above == HitsAbove(m, needle)
      first(l) == Min({c \in Occurs(m.lines[l], needle) :
                         below # {} /\ l = m.y => c > m.x})
      hit(l) == Clamped(Placed(m, l, first(l)))
  IN  IF below # {} THEN {hit(Min(below))}
      ELSE IF above # {} THEN {hit(Min(above))} ELSE {}

-----------------------------------------------------------------------------
\* The text as one sequence, and where the cursor is in it
Joined(lines) ==
  FlattenSeq([i \in DOMAIN lines |-> IF i = 1 THEN lines[1] ELSE <<CR>> \o lines[i]])

At(m, y, x) == MapThenSumSet(LAMBDA l : Len(m.lines[l]) + 1, 1 .. y - 1) + x
Cursor(m)   == At(m, m.y, m.x)

\* n differs from m by what was inserted at the cursor, or by the character
\* before it.
Inserts(m, n) ==
  LET t == Joined(m.lines)
      u == Joined(n.lines)
      k == Len(u) - Len(t)
  IN  /\ k >= 0
      /\ Cursor(n) = Cursor(m) + k
      /\ SubSeq(u, 1, Cursor(m)) = SubSeq(t, 1, Cursor(m))
      /\ SubSeq(u, Cursor(n) + 1, Len(u)) = SubSeq(t, Cursor(m) + 1, Len(t))

\* What is typed, pasted or deleted changes the text at the cursor only, and a
\* cursor is in its line and in view.
EditsAtCursor(m) ==
  LET d == Deleted(m)
  IN  /\ \A c \in DOMAIN Lower : Inserts(m, Typed(m, c))
      /\ Inserts(m, Broken(m))
      /\ \/ d = m
         \/ Joined(d.lines) = RemoveAt(Joined(m.lines), Cursor(m))

CursorInView(m) ==
  /\ m.y \in 1 .. Len(m.lines) /\ m.x \in 0 .. Len(m.lines[m.y])
  /\ m.y - m.scroll \in 1 .. EDIT_HEIGHT
  /\ Len(m.lines) <= MAX_LINES
  /\ \A l \in DOMAIN m.lines : Len(m.lines[l]) < MAX_LINE_LEN

\* A copied selection is the text between anchor and cursor, and comes back
\* when it is pasted where there is room.
CopiesSelection(m) ==
  LET a == At(m, m.ay, m.ax)
      c == Cursor(m)
      between == IF a < c THEN SubSeq(Joined(m.lines), a + 1, c)
                 ELSE SubSeq(Joined(m.lines), c + 1, a)
  IN  m.sel /\ a # c => CopyText(m) = {between}

PasteInserts(m, text) ==
  LET n == Pasted(m, text)
  IN  /\ Inserts(m, n)
      /\ Len(text) + Len(m.lines[m.y]) < MAX_LINE_LEN
            /\ Len(SelectSeq(text, LAMBDA c : c = CR)) + Len(m.lines) <= MAX_LINES
          => Len(Joined(n.lines)) - Len(Joined(m.lines))
               = Len(SelectSeq(text, LAMBDA c : c \in DOMAIN Lower \cup {CR}))

\* A find goes to the next occurrence behind the cursor, around the end; those
\* before the cursor on its own line it misses.
FindsNext(m, needle) ==
  LET all == UNION {{At(m, l, c) : c \in Occurs(m.lines[l], needle)} :
                    l \in DOMAIN m.lines}
      behind == {p \in all : p > Cursor(m)}
      above  == {p \in all : p < At(m, m.y, 0)}
  IN  {Cursor(n) : n \in Finds(m, needle)} =
        IF behind # {} THEN {Min(behind)}
        ELSE IF above # {} THEN {Min(above)} ELSE {}
=============================================================================
