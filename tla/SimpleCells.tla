---------------------------- MODULE SimpleCells ----------------------------
(***************************************************************************)
(* The spreadsheet (src/apps/simplecells/simplecells.c): the texts of the  *)
(* cells in one pool of bytes that is appended to and compacted, and the   *)
(* evaluator of formulas, which recurses through the cells and keeps       *)
(* intermediate results in one global register, romfp_out.                 *)
(*                                                                         *)
(* A text is abstract: its length, and what it means.  A byte of the pool  *)
(* is the text it belongs to and its position there.                       *)
(***************************************************************************)
EXTENDS Integers, Sequences, SequencesExt, FiniteSets

CONSTANTS
  MAX_ROWS, MAX_COLS,
  CONTENT_POOL_SIZE,
  MAX_EVAL_DEPTH,    \* 3 in the code
  RESULT_TEXT_LEN,   \* parts of a text result
  Texts,             \* what the user enters, for each mode: see Meaning
  NoText,            \* what is no text
  Len1,              \* length of a text
  Meaning,           \* [kind |-> "number", val], [kind |-> "text"] or
                     \* [kind |-> "formula", expr]
  Modes              \* "pool": texts are moved about; "eval": formulas

VARIABLES
  ram,    \* the sheet, the cursor, the program's own clipboard
  store,  \* the saved workbook: its records in order, the cursor, and whether
          \* it is "whole", "short" of its end or "no" workbook at all
  todo,   \* unused: every operation runs to its end
  mode

vars == <<ram, store, todo, mode>>

Cell == (0 .. MAX_ROWS - 1) \X (0 .. MAX_COLS - 1)
CellIndex(c) == c[1] * MAX_COLS + c[2]
InOrder(cells) == SetToSortSeq(cells, LAMBDA a, b : CellIndex(a) < CellIndex(b))

Free == [off |-> 0, len |-> 0, used |-> FALSE]
Junk == <<NoText, 0>>

\* clear_sheet_state
EmptySheet == [at |-> [c \in Cell |-> Free], used |-> 0,
               pool |-> [i \in 0 .. CONTENT_POOL_SIZE - 1 |-> Junk]]

\* The text of a cell: what its bytes spell.
Raw(s, c) ==
  LET a == s.at[c]
      x == s.pool[a.off][1]
  IN  IF \A i \in 0 .. a.len : s.pool[a.off + i] = <<x, i>> THEN x ELSE NoText

UsedCells(s) == {c \in Cell : s.at[c].used}

-----------------------------------------------------------------------------
\* Mutant: the terminating byte is not moved along.
MoveTextShort(pool, from, to, len) ==
  [i \in DOMAIN pool |->
     IF i \in to .. to + len - 1 THEN pool[from + (i - to)] ELSE pool[i]]

MoveText(pool, from, to, len) ==
  [i \in DOMAIN pool |->
     IF i \in to .. to + len THEN pool[from + (i - to)] ELSE pool[i]]

\* The next text to move: the first at or behind the end of what is compact.
NextText(s, used) ==
  LET behind == {c \in UsedCells(s) : s.at[c].off >= used}
  IN  {c \in behind : \A d \in behind : s.at[c].off <= s.at[d].off}

\* Bytes above content_used are never read.
Tidy(s) ==
  [s EXCEPT !.pool = [i \in DOMAIN @ |-> IF i < s.used THEN @[i] ELSE Junk]]

\* compact_content_pool
Compacted(s) ==
  LET from[n \in Nat] ==
        IF n = 0 THEN [s EXCEPT !.used = 0]
        ELSE LET t == from[n - 1]
                 best == NextText(t, t.used)
             IN  IF best = {} THEN t
                 ELSE LET c == CHOOSE x \in best : TRUE
                          a == t.at[c]
                      IN  [t EXCEPT
                            !.pool = MoveText(@, a.off, t.used, a.len),
                            !.at[c].off = t.used,
                            !.used = @ + a.len + 1]
  IN  Tidy(from[MAX_ROWS * MAX_COLS])

Fits(s, len) == s.used + len + 1 <= CONTENT_POOL_SIZE

\* append_content_bytes and set_cell_raw: the sheets that come of it; none when
\* there is no room.
SetCell(s, c, x) ==
  LET t == IF Fits(s, Len1[x]) THEN s ELSE Compacted(s)
      n == Len1[x]
  IN  IF ~Fits(t, n) THEN {}
      ELSE {[t EXCEPT
              !.pool = [i \in DOMAIN @ |->
                          IF i \in t.used .. t.used + n THEN <<x, i - t.used>>
                          ELSE @[i]],
              !.at[c] = [off |-> t.used, len |-> n, used |-> TRUE],
              !.used = @ + n + 1]}

\* What remains when there is no room: the pool, compacted.
NoRoom(s, x) == IF Fits(s, Len1[x]) THEN s ELSE Compacted(s)

ClearCell(s, c) == [s EXCEPT !.at[c] = Free]

\* The records of file_save, in the order of the cells.
Records(s) ==
  LET cells == InOrder(UsedCells(s))
  IN  [i \in DOMAIN cells |-> [cell |-> cells[i], text |-> Raw(s, cells[i])]]

\* file_load: the sheet after the first n records.
LoadedTo(recs) ==
  LET from[n \in Nat] ==
        IF n = 0 THEN [ok |-> TRUE, s |-> EmptySheet]
        ELSE LET p == from[n - 1]
                 t == IF p.ok THEN SetCell(p.s, recs[n].cell, recs[n].text)
                      ELSE {}
             IN  IF t = {} THEN [p EXCEPT !.ok = FALSE]
                 ELSE [p EXCEPT !.s = CHOOSE x \in t : TRUE]
  IN  from

-----------------------------------------------------------------------------
\* Values.  Numbers are integers here, and a quotient is rounded down.
Empty      == [kind |-> "empty"]
Number(v)  == [kind |-> "number", val |-> v]
TextOf(x)  == [kind |-> "text", val |-> x]
Error(e)   == [kind |-> "error", val |-> e]

ValueToText(v) ==
  CASE v.kind = "empty" -> <<>>
    [] v.kind = "number" -> <<v.val>>
    [] OTHER -> v.val
ZeroIfEmpty(v) == IF v.kind = "empty" THEN 0 ELSE v.val

\* value_apply_add, value_apply_sub: the value and the register.  Text joins
\* with text and with numbers; it cannot be subtracted.
Add(l, r, out) ==
  LET t == ValueToText(l) \o ValueToText(r)
      v == ZeroIfEmpty(l) + ZeroIfEmpty(r)
  IN  CASE "text" \notin {l.kind, r.kind} -> <<Number(v), v>>
        [] "text" \in {l.kind, r.kind} /\ Len(t) > RESULT_TEXT_LEN -> <<Error("long"), out>>
        [] OTHER -> <<TextOf(t), out>>
Subtract(l, r, out) ==
  LET v == ZeroIfEmpty(l) - ZeroIfEmpty(r)
  IN  IF "text" \in {l.kind, r.kind} THEN <<Error("type"), out>>
      ELSE <<Number(v), v>>
Apply(op, l, r, out) ==
  IF op = "+" THEN Add(l, r, out) ELSE Subtract(l, r, out)

\* The sign of a primary: text has none.
Signed(neg, v, out) ==
  CASE ~neg \/ v.kind = "error" -> <<v, out>>
    [] neg /\ v.kind = "text"   -> <<Error("type"), out>>
    [] OTHER                    -> <<Number(0 - ZeroIfEmpty(v)),
                                     0 - ZeroIfEmpty(v)>>

\* The cells of a range, row by row, whichever corner comes first.
Lesser(a, b)  == IF a < b THEN a ELSE b
Greater(a, b) == IF a < b THEN b ELSE a
Range4(a, b) ==
  InOrder({<<r, c>> : r \in Lesser(a[1], b[1]) .. Greater(a[1], b[1]),
                      c \in Lesser(a[2], b[2]) .. Greater(a[2], b[2])})

\* The value of a range function from the numbers it met.
RangeValue(name, out, count) ==
  CASE name = "COUNT"              -> Number(count)
    [] name = "SUM"                -> Number(IF count = 0 THEN 0 ELSE out)
    [] name = "AVG" /\ count = 0   -> Error("div0")
    [] OTHER                       -> Number(out \div count)

-----------------------------------------------------------------------------
\* eval_cell_value, eval_expression, eval_primary, eval_function_call.  Each
\* gives the value and what is in the register afterwards; `stack' holds the
\* cells under evaluation.
RECURSIVE EvalCell(_, _, _, _, _), EvalTerms(_, _, _, _, _, _),
          EvalPrimary(_, _, _, _, _), EvalRange(_, _, _, _, _, _, _)

EvalCell(s, c, depth, stack, out) ==
  IF c \notin Cell THEN <<Error("ref"), out>>
  ELSE IF ~s.at[c].used THEN <<Empty, out>>
  ELSE IF c \in stack \/ Cardinality(stack) >= MAX_EVAL_DEPTH
  THEN <<Error("cycle"), out>>
  ELSE LET m == Meaning[Raw(s, c)]
       IN  CASE m.kind = "number" -> <<Number(m.val), m.val>>
             [] m.kind = "text"   -> <<TextOf(<<Raw(s, c)>>), out>>
             [] OTHER -> EvalTerms(s, m.expr, depth + 1, stack \cup {c},
                                   Empty, out)

\* The terms of an expression, added up from the left.
EvalTerms(s, terms, depth, stack, acc, out) ==
  IF depth >= MAX_EVAL_DEPTH THEN <<Error("cycle"), out>>
  ELSE IF terms = <<>> THEN <<acc, out>>
  ELSE LET t == Head(terms)
           p == EvalPrimary(s, t, depth, stack, out)
           r == IF t.op = "" \/ p[1].kind = "error" THEN p
                ELSE Apply(t.op, acc, p[1], p[2])
       IN  IF r[1].kind = "error" THEN r
           ELSE EvalTerms(s, Tail(terms), depth, stack, r[1], r[2])

EvalPrimary(s, t, depth, stack, out) ==
  LET v == CASE t.kind = "number" -> <<Number(t.val), t.val>>
             [] t.kind = "ref" -> EvalCell(s, t.cell, depth + 1, stack, out)
             [] t.kind = "paren" ->
                  EvalTerms(s, t.expr, depth + 1, stack, Empty, out)
             [] OTHER ->
                  EvalRange(s, t.name, Range4(t.from, t.to), depth, stack, 0, 0)
  IN  Signed(t.neg, v[1], v[2])

\* The running sum is in the register while the next cell is evaluated.
EvalRange(s, name, cells, depth, stack, count, out) ==
  IF cells = <<>>
  THEN LET v == RangeValue(name, out, count)
       IN  <<v, IF v.kind = "number" THEN v.val ELSE out>>
  ELSE LET v == EvalCell(s, Head(cells), depth + 1, stack, out)
           num == v[1].kind = "number"
           sum == IF ~num THEN v[2]
                  ELSE IF count = 0 THEN v[1].val ELSE v[2] + v[1].val
       IN  IF v[1].kind = "error" THEN v
           ELSE EvalRange(s, name, Tail(cells), depth, stack,
                          count + (IF num THEN 1 ELSE 0), sum)

Formula(s, c) == s.at[c].used /\ Meaning[Raw(s, c)].kind = "formula"

\* What the grid shows for a cell.
Shown(s, c) == EvalCell(s, c, 0, {}, 0)[1]

-----------------------------------------------------------------------------
\* The status is "load" after a file was read, for better or worse.
Cold == [sheet |-> EmptySheet, active |-> <<0, 0>>, clip |-> {}, status |-> ""]

NoFile == [recs |-> <<>>, active |-> <<0, 0>>, state |-> "no"]

Init ==
  /\ ram = Cold
  /\ store = NoFile
  /\ todo = <<>>
  /\ mode \in Modes

Becomes(s, status) == ram' = [ram EXCEPT !.sheet = s, !.status = status]
SetOrNoRoom(x) ==
  LET new == SetCell(ram.sheet, ram.active, x)
  IN  IF new = {} THEN Becomes(NoRoom(ram.sheet, x), "")
      ELSE \E s \in new : Becomes(s, "")

\* move_active_vertical, move_active_horizontal
MoveActive(c) ==
  /\ c # ram.active
  /\ ram' = [ram EXCEPT !.active = c, !.status = ""]
  /\ UNCHANGED <<store, todo, mode>>

\* RETURN: edit_value_inline, not for formulas.  F3: edit_formula_popup.
Edit(x) ==
  /\ Formula(ram.sheet, ram.active) => Meaning[x].kind = "formula"
  /\ SetOrNoRoom(x)
  /\ UNCHANGED <<store, todo, mode>>

\* DEL: clear_active_cell
Clear ==
  /\ ram.sheet.at[ram.active].used
  /\ Becomes(ClearCell(ram.sheet, ram.active), "")
  /\ UNCHANGED <<store, todo, mode>>

\* F1, compact
Compact ==
  Becomes(Compacted(ram.sheet), "") /\ UNCHANGED <<store, todo, mode>>

\* C and V, for a text without references: copy_cell_to_local_clipboard,
\* paste_cell_from_local_clipboard
Copy ==
  /\ mode = "pool" /\ ram.sheet.at[ram.active].used
  /\ ram' = [ram EXCEPT !.clip = {Raw(ram.sheet, ram.active)}, !.status = ""]
  /\ UNCHANGED <<store, todo, mode>>
Paste ==
  /\ \E x \in ram.clip : SetOrNoRoom(x)
  /\ UNCHANGED <<store, todo, mode>>

\* F5: file_save compacts the pool, scratches the old file and writes; the
\* disk may fill up in the header or at any record.
Save ==
  LET s == Compacted(ram.sheet)
      recs == Records(s)
  IN  /\ mode = "pool"
      /\ \/ /\ store' = [recs |-> recs, active |-> ram.active, state |-> "whole"]
            /\ Becomes(s, "")
         \/ /\ store' \in {NoFile} \cup
                 [recs : {SubSeq(recs, 1, n) : n \in 0 .. Len(recs)},
                  active : {ram.active}, state : {"short"}]
            /\ Becomes(s, "")
      /\ UNCHANGED <<todo, mode>>

\* F7: file_load.  What was read stays when the file ends too early.
Load ==
  LET l == LoadedTo(store.recs)[Len(store.recs)]
  IN  /\ mode = "pool"
      /\ CASE store.state = "no" -> Becomes(ram.sheet, "load")
           [] store.state = "whole" /\ l.ok ->
                ram' = [ram EXCEPT !.sheet = l.s, !.active = store.active,
                                   !.status = "load"]
           [] OTHER -> Becomes(l.s, "load")
      /\ UNCHANGED <<store, todo, mode>>

\* A reset without a resume payload.
Restart == ram' = Cold /\ UNCHANGED <<store, todo, mode>>

Next ==
  \/ \E c \in Cell : MoveActive(c)
  \/ \E x \in Texts[mode] : Edit(x)
  \/ Clear \/ Compact \/ Copy \/ Paste \/ Save \/ Load \/ Restart

Spec == Init /\ [][Next]_vars

-----------------------------------------------------------------------------
\* Every used cell's bytes spell one text to its end, below content_used, and
\* no byte belongs to two cells: appending and compacting never tear one.
PoolIntact ==
  \A c \in UsedCells(ram.sheet) :
    LET a == ram.sheet.at[c]
    IN  /\ Raw(ram.sheet, c) # NoText
        /\ a.off + a.len < ram.sheet.used
        /\ \A d \in UsedCells(ram.sheet) \ {c} :
             LET b == ram.sheet.at[d]
             IN  a.off + a.len < b.off \/ b.off + b.len < a.off

\* An edit, a paste and what they do to the pool change no cell but the one
\* under the cursor.
OthersKeptStep ==
  /\ ram'.status # "load"
  /\ ram' # Cold
  => \A c \in Cell \ {ram.active} :
       /\ ram'.sheet.at[c].used = ram.sheet.at[c].used
       /\ ram.sheet.at[c].used => Raw(ram'.sheet, c) = Raw(ram.sheet, c)

\* A workbook that was saved whole loads: it fits into the pool again and
\* gives back every cell.
SavedLoads ==
  store.state = "whole" =>
    LET l == LoadedTo(store.recs)[Len(store.recs)]
    IN  l.ok /\ Records(l.s) = store.recs

-----------------------------------------------------------------------------
\* What a formula means: no register, no depth limit; a cell that depends on
\* itself has no value.
RECURSIVE RefCell(_, _, _), RefTerms(_, _, _, _), RefPrimary(_, _, _)

RefCell(s, c, path) ==
  IF c \notin Cell \/ c \in path THEN Error("ref")
  ELSE IF ~s.at[c].used THEN Empty
  ELSE LET m == Meaning[Raw(s, c)]
       IN  CASE m.kind = "number" -> Number(m.val)
             [] m.kind = "text"   -> TextOf(<<Raw(s, c)>>)
             [] OTHER             -> RefTerms(s, m.expr, path \cup {c}, Empty)

RefTerms(s, terms, path, acc) ==
  IF terms = <<>> \/ acc.kind = "error" THEN acc
  ELSE LET p == RefPrimary(s, Head(terms), path)
       IN  RefTerms(s, Tail(terms), path,
             IF Head(terms).op = "" \/ p.kind = "error" THEN p
             ELSE Apply(Head(terms).op, acc, p, 0)[1])

RefPrimary(s, t, path) ==
  LET range == IF t.kind = "range" THEN Range4(t.from, t.to) ELSE <<>>
      vals  == [i \in DOMAIN range |-> RefCell(s, range[i], path)]
      nums  == SelectSeq(vals, LAMBDA v : v.kind = "number")
      total == FoldLeft(LAMBDA a, v : a + v.val, 0, nums)
      v == CASE t.kind = "number" -> Number(t.val)
             [] t.kind = "ref"    -> RefCell(s, t.cell, path)
             [] t.kind = "paren"  -> RefTerms(s, t.expr, path, Empty)
             [] OTHER -> IF \E i \in DOMAIN vals : vals[i].kind = "error"
                         THEN Error("ref")
                         ELSE RangeValue(t.name, total, Len(nums))
  IN  Signed(t.neg, v, 0)[1]

Meant(s, c) == RefCell(s, c, {})

\* The terms of a cell, those in parentheses too, and the cells they name.
RECURSIVE TermsIn(_)
TermsIn(expr) ==
  ToSet(expr) \cup UNION {TermsIn(t.expr) : t \in {u \in ToSet(expr) :
                                                    u.kind = "paren"}}
TermsOf(s, c) == IF Formula(s, c) THEN TermsIn(Meaning[Raw(s, c)].expr) ELSE {}
Named(t) == CASE t.kind = "ref"   -> {t.cell}
              [] t.kind = "range" -> ToSet(Range4(t.from, t.to))
              [] OTHER            -> {}
Needs(s, c) == UNION {Named(t) : t \in TermsOf(s, c)} \cap Cell

\* A formula that needs no other formula and sums no two used cells shows what
\* it means, errors included.  (One that needs a formula is already too deep
\* for MAX_EVAL_DEPTH and shows #CYCLE; a sum of two cells shows twice the last one.)
ShowsMeaning ==
  mode = "eval" =>
    \A c \in Cell :
      (/\ \A d \in Needs(ram.sheet, c) \ {c} : ~Formula(ram.sheet, d)
       /\ \A t \in TermsOf(ram.sheet, c) : t.kind = "range" =>
            Cardinality(Named(t) \cap UsedCells(ram.sheet)) < 2) =>
        LET v == Shown(ram.sheet, c)
            w == Meant(ram.sheet, c)
        IN  v = w \/ (v.kind = "error" /\ w.kind = "error")

\* A cell whose formula has no value (it depends on itself, on a cell that is
\* not there or on a text's sign) shows an error, however long the way round.
ErrorsShown ==
  mode = "eval" =>
    \A c \in Cell :
      Meant(ram.sheet, c).kind = "error" => Shown(ram.sheet, c).kind = "error"
=============================================================================
