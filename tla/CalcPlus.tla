------------------------------ MODULE CalcPlus ------------------------------
(***************************************************************************)
(* Calc Plus (src/apps/calcplus/calcplus.c with rom_float.s): a line of    *)
(* text is evaluated, its result goes into a history, and a line that      *)
(* starts with an operator goes on from the last result.                   *)
(*                                                                         *)
(* A word of several letters counts as one character.  The floating point  *)
(* of the BASIC ROM is exact here, and prints Places decimals.             *)
(***************************************************************************)
EXTENDS Integers, Sequences, SequencesExt, FiniteSets, TLC

CONSTANTS
  HISTORY_MAX, EXPR_MAX_LEN, EDITOR_INNER_W, EVAL_STACK_MAX, VAR_MAX,
  FP_MAX_ABS,  \* hundredths: 3276799 in the code
  MaxPlain,    \* from here on the ROM prints an exponent
  Places,
  Names,       \* words that are no function's
  Pi, Cosine,  \* a fraction, and what the ROM gives for some
  Trees,       \* expressions, see Show
  AnyLines,    \* lines of any characters
  Bases,       \* results to go on from: fractions
  Texts,       \* by mode: what is typed
  MaxLines,    \* by mode: how many lines are evaluated
  OtherClips,  \* by mode: what other programs copied
  Modes        \* "tree", "line": one line is evaluated; others: keys are typed

VARIABLES
  ram,    \* the program's data; screen is what the screen shows
  store,  \* the clipboard's newest item, or <<>>
  todo,   \* the line that is to be evaluated, what was said to the last one, and
          \* how many were evaluated
  mode

vars == <<ram, store, todo, mode>>

DigitChars == <<"0", "1", "2", "3", "4", "5", "6", "7", "8", "9">>
DigitSet   == {"0", "1", "2", "3", "4", "5", "6", "7", "8", "9"}
IsDigit(c) == c \in DigitSet
Digit(c)   == CHOOSE n \in 0 .. 9 : DigitChars[n + 1] = c
IsOp(c)    == c \in {"+", "-", "*", "/", "^"}
FloatOnly  == {"sqr", "cos"}
Functions  == {"abs", "sgn", "int"} \cup FloatOnly
Alphas     == Functions \cup Names \cup {"pi", "store", "e"}
IsAlpha(c) == c \in Alphas

At(e, i) == IF i <= Len(e) THEN e[i] ELSE "end"
Smaller(a, b) == IF a < b THEN a ELSE b

\* The first place from i on that does not hold one of these.
After(e, i, among) ==
  CHOOSE j \in i .. Len(e) + 1 :
    At(e, j) \notin among /\ \A k \in i .. j - 1 : e[k] \in among
Skip(e, i) == After(e, i, {" "})

\* What is before the first c
Before(e, c) ==
  LET j == CHOOSE j \in 1 .. Len(e) + 1 :
             At(e, j) \in {c, "end"} /\ \A k \in 1 .. j - 1 : e[k] # c
  IN  SubSeq(e, 1, j - 1)

-----------------------------------------------------------------------------
\* Fractions: what the ROM's floating point numbers stand for.
Gcd(a, b) ==
  LET both == {d \in 1 .. (IF a < b THEN b ELSE a) : a % d = 0 /\ b % d = 0}
  IN  CHOOSE d \in both : \A k \in both : k <= d
Abs(n) == IF n < 0 THEN -n ELSE n
Frac(n, d) ==
  LET g == IF n = 0 THEN Abs(d) ELSE Gcd(Abs(n), Abs(d))
      s == IF d < 0 THEN -1 ELSE 1
  IN  <<s * (n \div g), (s * d) \div g>>
Whole(n)    == <<n, 1>>
Zero        == Whole(0)
RomAdd(a, b) == Frac((a[1] * b[2]) + (b[1] * a[2]), a[2] * b[2])
RomSub(a, b) == Frac((a[1] * b[2]) - (b[1] * a[2]), a[2] * b[2])
RomMul(a, b) == Frac(a[1] * b[1], a[2] * b[2])
RomDiv(a, b) == Frac(a[1] * b[2], a[2] * b[1])
Floor(a)    == a[1] \div a[2]
RomRoot(a)  == CHOOSE r \in {<<n, d>> \in (0 .. a[1]) \X (1 .. a[2]) : TRUE} :
                 r[1] * r[1] = a[1] /\ r[2] * r[2] = a[2]

\* The power of whole exponents: log and exp, or repeated products.
IntPower(a, n) == <<a[1] ^ n, a[2] ^ n>>
RomPower(a, b) == IF b[1] >= 0 THEN IntPower(a, b[1])
                  ELSE Frac(IntPower(a, -b[1])[2], IntPower(a, -b[1])[1])

\* The characters of a natural number, and of a fraction's decimals
RECURSIVE Digits(_)
Digits(n) == (IF n < 10 THEN <<>> ELSE Digits(n \div 10))
             \o <<DigitChars[(n % 10) + 1]>>
IntText(n) == IF n < 0 THEN <<"-">> \o Digits(-n) ELSE Digits(n)

\* fp_to_str: hundredths
FixedText(fp) ==
  LET a == Abs(fp) IN
  (IF fp < 0 THEN <<"-">> ELSE <<>>) \o Digits(a \div 100)
  \o (IF a % 100 = 0 THEN <<>>
      ELSE <<".", DigitChars[((a % 100) \div 10) + 1]>>
           \o (IF a % 10 = 0 THEN <<>> ELSE <<DigitChars[(a % 10) + 1]>>))

\* The ROM's text of a positive number below MaxPlain: no zero before the point,
\* none at the end.
Scale == 10 ^ Places
PlainText(v) ==
  LET rest  == v[1] % v[2]
      q     == (Floor(v) * Scale) + (((2 * rest * Scale) + v[2]) \div (2 * v[2]))
      tail  == SubSeq(Digits(Scale + (q % Scale)), 2, Places + 1)
      used  == {k \in DOMAIN tail : tail[k] # "0"}
      last  == IF used = {} THEN 0
               ELSE CHOOSE k \in used : \A j \in used : j <= k
  IN  (IF q < Scale /\ last # 0 THEN <<>> ELSE Digits(q \div Scale))
      \o (IF last = 0 THEN <<>> ELSE <<".">> \o SubSeq(tail, 1, last))

\* tf_packed_to_str
FloatText(v) ==
  LET m == <<Abs(v[1]), v[2]>>
      x == Len(Digits(Floor(m))) - 1
  IN  (IF v[1] < 0 THEN <<"-">> ELSE <<>>)
      \o (IF Floor(m) < MaxPlain THEN PlainText(m)
          ELSE PlainText(Frac(m[1], m[2] * (10 ^ x)))
               \o <<"e", "+">> \o SubSeq(Digits(100 + x), 2, 3))

\* The parts of a text of a number: its digits, how many follow the point, its
\* exponent (which is never negative here).
Number(ds)   == LET n[k \in 0 .. Len(ds)] == IF k = 0 THEN 0 ELSE (10 * n[k - 1]) + ds[k]
                IN  n[Len(ds)]
Mantissa(t)  == Before(t, "e")
Decimals(t)  == LET m == Mantissa(t)
                IN  IF \E k \in DOMAIN m : m[k] = "."
                    THEN Len(m) - (CHOOSE k \in DOMAIN m : m[k] = ".") ELSE 0
Exponent(t)  == LET x == SubSeq(t, Len(Mantissa(t)) + 3, Len(t))
                IN  Number([k \in DOMAIN x |-> Digit(x[k])])

\* romfp_eval_literal: the first character is taken for a digit, which a sign or
\* a point is not.
RomLiteral(t) ==
  LET m == Mantissa(t)
      first == IF IsDigit(m[1]) THEN Digit(m[1]) ELSE IF m[1] = "-" THEN -3 ELSE -2
      rest  == SelectSeq(Tail(m), IsDigit)
      n == Number(<<first>> \o [k \in DOMAIN rest |-> Digit(rest[k])])
  IN  Frac(n * (10 ^ Exponent(t)), 10 ^ (IF m[1] = "." THEN 0 ELSE Decimals(t)))

\* tf_approx_to_fixed: the hundredths, rounded digit by digit from the last one.
Rounded(sig, eff) ==
  LET up[k \in 0 .. 40] == IF k = 0 THEN sig
                           ELSE IF up[k - 1] > FP_MAX_ABS THEN up[k - 1]
                           ELSE up[k - 1] * 10
      down[k \in 0 .. 40] == IF k = 0 THEN sig ELSE (down[k - 1] + 5) \div 10
  IN  IF eff >= 0 THEN up[eff] ELSE down[-eff]
Fixed(t) ==
  LET ds  == SelectSeq(Mantissa(t), IsDigit)
      sig == Number([k \in DOMAIN ds |-> Digit(ds[k])])
      fp  == Smaller(Rounded(sig, Exponent(t) - Decimals(t) + 2), FP_MAX_ABS)
  IN  IF t[1] = "-" THEN -fp ELSE fp

\* Division of the C language
Truncated(n, d) == IF n < 0 THEN -((-n) \div d) ELSE n \div d

-----------------------------------------------------------------------------
\* The evaluator.  Its stacks are in static arrays, which the evaluation of a
\* function's argument uses from the bottom, too.
Fail(s, err) == [s EXCEPT !.err = err]
Failed(s)    == s.err # "none"

\* parse_identifier
NameEnd(e, i) == After(e, i, Alphas \cup DigitSet)
Name(e, i)    == SubSeq(e, i, NameEnd(e, i) - 1)

\* apply_func_tf
Applied(f, v, m) ==
  CASE m.calc # "float" /\ f \in FloatOnly -> <<"err", "func mode">>
    [] m.calc = "float" /\ f = "sqr" /\ v[1] < 0 -> <<"err", "domain">>
    [] f = "abs" -> <<"ok", <<Abs(v[1]), v[2]>>>>
    [] f = "sgn" -> <<"ok", Whole(IF v[1] < 0 THEN -1 ELSE IF v[1] > 0 THEN 1 ELSE 0)>>
    [] f = "int" -> <<"ok", Whole(Floor(v))>>
    [] m.calc = "float" /\ f = "sqr" /\ v[1] >= 0 -> <<"ok", RomRoot(v)>>
    [] m.calc = "float" /\ f = "cos" ->
         <<"ok", Cosine[IF m.angle = "deg" THEN RomDiv(RomMul(v, Pi), Whole(180))
                        ELSE v]>>

\* tf_pow
Power(l, r) ==
  CASE r = Zero -> <<"ok", Whole(1)>>
    [] r # Zero /\ l = Zero -> IF r[1] < 0 THEN <<"err", "domain">> ELSE <<"ok", Zero>>
    [] r # Zero /\ l[1] < 0 ->
         IF r[2] # 1 \/ r[1] < 0 THEN <<"err", "domain">> ELSE <<"ok", IntPower(l, r[1])>>
    [] r # Zero /\ l[1] > 0 -> <<"ok", RomPower(l, r)>>

Operated(op, l, r) ==
  CASE op = "+" -> <<"ok", RomAdd(l, r)>>
    [] op = "-" -> <<"ok", RomSub(l, r)>>
    [] op = "*" -> <<"ok", RomMul(l, r)>>
    [] op = "/" -> IF r = Zero THEN <<"err", "div zero">> ELSE <<"ok", RomDiv(l, r)>>
    [] op = "^" -> Power(l, r)
    [] OTHER -> <<"err", "syntax">>

\* apply_top_tf
ApplyTop(s) ==
  IF s.otop < 0 \/ s.vtop < 1 THEN Fail(s, "syntax")
  ELSE LET o == Operated(s.ops[s.otop], s.vals[s.vtop - 1], s.vals[s.vtop])
       IN  IF o[1] = "err" THEN Fail(s, o[2])
           ELSE [s EXCEPT !.otop = @ - 1, !.vtop = @ - 1,
                          !.vals[s.vtop - 1] = o[2]]

Precedence(op) == CASE op = "^" -> 3 [] op \in {"*", "/"} -> 2
                    [] op \in {"+", "-"} -> 1 [] OTHER -> 0

\* should_reduce
ShouldReduce(top, op) ==
  /\ top # "("
  /\ \/ Precedence(top) > Precedence(op)
     \/ Precedence(top) = Precedence(op) /\ op # "^"

RECURSIVE Reduced(_, _)
Reduced(s, op) ==
  IF Failed(s) \/ s.otop < 0 THEN s
  ELSE IF ShouldReduce(s.ops[s.otop], op) THEN Reduced(ApplyTop(s), op) ELSE s

RECURSIVE ReducedToParen(_)
ReducedToParen(s) ==
  IF Failed(s) \/ s.otop < 0 THEN s
  ELSE IF s.ops[s.otop] # "(" THEN ReducedToParen(ApplyTop(s)) ELSE s

Pushed(s, op) ==
  IF Failed(s) THEN s
  ELSE IF s.otop >= EVAL_STACK_MAX - 1 THEN Fail(s, "syntax")
  ELSE [s EXCEPT !.otop = @ + 1, !.ops[s.otop + 1] = op, !.i = @ + 1]

\* A sign before a parenthesis: a zero to subtract from, or to add to.
SignedParen(s, j, op) ==
  IF s.vtop >= EVAL_STACK_MAX - 1 \/ s.otop >= EVAL_STACK_MAX - 1
  THEN Fail(s, "syntax")
  ELSE Pushed(Reduced([s EXCEPT !.vtop = @ + 1, !.vals[s.vtop + 1] = Zero,
                                !.i = j - 1], op), op)

\* The operator's turn: an operator, or a closing parenthesis.
AfterValue(s, c) ==
  IF IsOp(c) THEN [Pushed(Reduced(s, c), c) EXCEPT !.expect = TRUE]
  ELSE IF c # ")" THEN Fail(s, "syntax")
  ELSE LET r == ReducedToParen(s)
       IN  IF Failed(r) THEN r
           ELSE IF r.otop < 0 THEN Fail(r, "syntax")
           ELSE [r EXCEPT !.otop = @ - 1, !.i = @ + 1]

\* extract_call_arg: where the argument's parentheses are, or {}
Depth(e, i, k) == Cardinality({x \in i .. k : e[x] = "("})
                  - Cardinality({x \in i .. k : e[x] = ")"})
Argument(e, i) ==
  LET open  == Skip(e, i)
      close == {k \in open .. Len(e) : Depth(e, open, k) = 0}
  IN  IF At(e, open) # "(" \/ close = {} THEN {}
      ELSE LET k == CHOOSE x \in close : \A y \in close : x <= y
           IN  IF k - open <= 1 THEN {} ELSE {<<open, k>>}

Starting(vals, ops) ==
  [vals |-> vals, ops |-> ops, vtop |-> -1, otop |-> -1, i |-> 1,
   expect |-> TRUE, err |-> "none"]

RECURSIVE Evaluated(_, _, _)
\* parse_number_tf: the value at place i of the line goes on the stack.
ParsedNumber(e, i, neg, s, m) ==
  LET j == CHOOSE x \in i .. Len(e) + 1 :   \* digits and at most one point
             LET takes(k) == \/ IsDigit(At(e, k))
                             \/ At(e, k) = "." /\ \A y \in i .. k - 1 : e[y] # "."
             IN  ~takes(x) /\ \A k \in i .. x - 1 : takes(k)
      Value(t, v, next) ==
        [t EXCEPT !.vals[s.vtop] = IF neg THEN RomSub(Zero, v) ELSE v,
                  !.i = next, !.expect = FALSE]
  IN  CASE At(e, j) = "$" ->
             IF ~IsAlpha(At(e, j + 1)) THEN Fail(s, "syntax")
             ELSE IF Name(e, j + 1) \notin DOMAIN m.vars THEN Fail(s, "bad var")
             ELSE Value(s, m.vars[Name(e, j + 1)], NameEnd(e, j + 1))
        [] At(e, j) # "$" /\ (\E k \in i .. j - 1 : IsDigit(e[k])) ->
             Value(s, RomLiteral(<<"0">> \o SubSeq(e, i, j - 1)), j)
        [] OTHER ->
             IF ~IsAlpha(At(e, j)) THEN Fail(s, "syntax")
             ELSE IF Name(e, j) = <<"pi">> THEN Value(s, Pi, NameEnd(e, j))
             ELSE IF Name(e, j) \notin {<<f>> : f \in Functions} THEN Fail(s, "bad func")
             ELSE IF Argument(e, NameEnd(e, j)) = {} THEN Fail(s, "syntax")
             ELSE LET arg == CHOOSE a \in Argument(e, NameEnd(e, j)) : TRUE
                      r   == Evaluated(SubSeq(e, arg[1] + 1, arg[2] - 1),
                                       Starting(s.vals, s.ops), m)
                      t   == [s EXCEPT !.vals = r.vals, !.ops = r.ops]
                      v   == Applied(e[j], r.vals[0], m)
                  IN  IF Failed(r) THEN Fail(t, r.err)
                      ELSE IF v[1] = "err" THEN Fail(t, v[2])
                      ELSE Value(t, v[2], arg[2] + 1)

Operand(e, i, neg, s, m) ==
  IF s.vtop >= EVAL_STACK_MAX - 1 THEN Fail(s, "syntax")
  ELSE ParsedNumber(e, i, neg, [s EXCEPT !.vtop = @ + 1], m)

\* The value's turn
BeforeValue(e, s, m) ==
  LET c == e[s.i]
      j == Skip(e, s.i + 1)
  IN  IF c = "(" THEN Pushed(s, c)
      ELSE IF c \notin {"+", "-"} THEN Operand(e, s.i, FALSE, s, m)
      ELSE IF j > Len(e) THEN Fail(s, "syntax")
      ELSE IF e[j] = "(" THEN SignedParen(s, j, c)
      ELSE Operand(e, j, c = "-", s, m)

\* The end of the line
Finished(s) ==
  IF s.expect THEN Fail(s, "syntax")
  ELSE LET r == ReducedToParen(s)
       IN  IF Failed(r) THEN r
           ELSE IF r.otop >= 0 \/ r.vtop # 0 THEN Fail(r, "syntax") ELSE r

\* eval_expression_tf: the value is at the bottom of the stack.
Evaluated(e, s, m) ==
  LET i == Skip(e, s.i)
      t == [s EXCEPT !.i = i]
  IN  IF Failed(s) THEN s
      ELSE IF i > Len(e) THEN Finished(s)
      ELSE Evaluated(e, IF s.expect THEN BeforeValue(e, t, m)
                        ELSE AfterValue(t, e[i]), m)

\* evaluate_for_current_mode.  The hundredths are within FP_MAX_ABS, so that the
\* test for an overflow of the integers finds none.
ResultOf(m, r) ==
  LET t  == FloatText(r.vals[0])
      fp == Fixed(t)
      n  == Truncated(fp, 100)
  IN  IF Failed(r) THEN [err |-> r.err]
      ELSE [err |-> "none", packed |-> r.vals[0], i |-> n,
            fp |-> IF m.calc = "int" THEN n * 100 ELSE fp,
            text |-> CASE m.calc = "int" -> IntText(n)
                       [] m.calc = "fixed" -> FixedText(fp) [] OTHER -> t]
Evaluate(e, m) ==
  LET stack(x) == [k \in 0 .. EVAL_STACK_MAX - 1 |-> x]
  IN  ResultOf(m, Evaluated(e, Starting(stack(Zero), stack("none")), m))

-----------------------------------------------------------------------------
\* history_result_to_str
ResultText(h) == CASE h.calc = "float" -> h.text [] h.calc = "fixed" -> FixedText(h.fp)
                   [] OTHER -> IntText(h.i)

\* draw_history_line: the history is at the bottom of its rows.
Line(m, row) ==
  LET idx == row - (HISTORY_MAX - Len(m.hist))
  IN  IF idx < 1 THEN <<>>
      ELSE <<m.hist[idx].expr, ResultText(m.hist[idx]),
             m.focus = "history" /\ idx = m.sel, idx = Len(m.hist), m.hist[idx].carry>>
RowOf(m, idx) == HISTORY_MAX - Len(m.hist) + idx

\* draw_editor
EditorLine(m) ==
  LET start == IF m.cur >= EDITOR_INNER_W THEN m.cur - EDITOR_INNER_W + 1 ELSE 0
  IN  <<m.focus, IF m.focus = "editor" THEN m.cur - start ELSE 0,
        SubSeq(m.ed, start + 1, Smaller(Len(m.ed), start + EDITOR_INNER_W))>>
Indicator(m) == <<m.calc, IF m.calc = "float" THEN m.angle ELSE "-">>

FullScreen(m) == [rows |-> [r \in 1 .. HISTORY_MAX |-> Line(m, r)],
                  ed |-> EditorLine(m), ind |-> Indicator(m)]
DrawnAll(m)   == [m EXCEPT !.screen = FullScreen(m)]

\* calcplus_loop: what a key asks for is drawn again.
Drawn(was, m, parts) ==
  LET rows == IF "history" \in parts THEN 1 .. HISTORY_MAX
              ELSE IF "selection" \notin parts THEN {}
              ELSE {RowOf(m, x.sel) : x \in {y \in {was, m} :
                      y.focus = "history" /\ y.sel <= Len(m.hist)}}
  IN  [m EXCEPT !.screen =
         [rows |-> [r \in 1 .. HISTORY_MAX |-> IF r \in rows THEN Line(m, r)
                                               ELSE @.rows[r]],
          ed   |-> IF "editor" \in parts THEN EditorLine(m) ELSE @.ed,
          ind  |-> IF "mode" \in parts THEN Indicator(m) ELSE @.ind]]

-----------------------------------------------------------------------------
\* trim_span
Trimmed(x) ==
  LET used == {k \in DOMAIN x : x[k] # " "}
  IN  IF used = {} THEN <<>>
      ELSE SubSeq(x, CHOOSE k \in used : \A j \in used : k <= j,
                     CHOOSE k \in used : \A j \in used : j <= k)

\* push_history
WithLast(m, r) ==
  [m EXCEPT !.have = TRUE, !.last = [i |-> r.i, fp |-> r.fp, text |-> r.text]]
Pushes(m, expr, r, carry) ==
  LET kept == IF Len(m.hist) >= HISTORY_MAX THEN Tail(m.hist) ELSE m.hist
  IN  WithLast([m EXCEPT !.hist = Append(kept,
                  [expr |-> expr, calc |-> m.calc, i |-> r.i, fp |-> r.fp,
                   text |-> r.text, carry |-> carry])], r)

Cleared(m) == [m EXCEPT !.ed = <<>>, !.cur = 0, !.focus = "editor"]
Reserved(name) == name \in {<<"pi">>, <<"store">>} \cup {<<f>> : f \in Functions}
CanStore(m, name) == name \in DOMAIN m.vars \/ Cardinality(DOMAIN m.vars) < VAR_MAX
Stored(m, name, v) ==
  [m EXCEPT !.vars = [x \in DOMAIN @ \cup {name} |-> IF x = name THEN v ELSE @[x]]]

\* A line is answered with data, with what is drawn, and with what is said.
Answer(m, parts, said) == [m |-> m, parts |-> parts, said |-> said]
Refused(m, why) == Answer(m, {}, <<"err", why>>)

\* try_assign_command: the name's place is 2.
Assigns(x) == x[1] = "$" /\ IsAlpha(At(x, 2)) /\ At(x, Skip(x, NameEnd(x, 2))) = "="
AssignedTo(m, name, r) ==
  IF r.err # "none" THEN Refused(m, r.err)
  ELSE IF ~CanStore(m, name) THEN Refused(m, "store full")
  ELSE Answer(Cleared(WithLast(Stored(m, name, r.packed), r)), {"editor"},
              <<"assigned", name, r.packed>>)
Assigned(m, x) ==
  LET from == Skip(x, Skip(x, NameEnd(x, 2)) + 1)
  IN  IF from > Len(x) THEN Refused(m, "assign syntax")
      ELSE IF Reserved(Name(x, 2)) THEN Refused(m, "reserved")
      ELSE AssignedTo(m, Name(x, 2), Evaluate(SubSeq(x, from, Len(x)), m))

\* try_store_command: the value is read back from its text.
StoredLast(m, x) ==
  LET i == Skip(x, 2)
  IN  IF At(x, i) # "$" \/ ~IsAlpha(At(x, i + 1)) THEN Refused(m, "store syntax")
      ELSE IF Skip(x, NameEnd(x, i + 1)) <= Len(x) THEN Refused(m, "store syntax")
      ELSE IF Reserved(Name(x, i + 1)) THEN Refused(m, "reserved")
      ELSE IF ~m.have THEN Refused(m, "no value")
      ELSE IF ~CanStore(m, Name(x, i + 1)) THEN Refused(m, "store full")
      ELSE Answer(Cleared(Stored(m, Name(x, i + 1), RomLiteral(m.last.text))),
                  {"editor"}, <<"stored", Name(x, i + 1)>>)

\* The text a line that starts with an operator goes on from
BaseText(m) ==
  CASE m.calc = "float" -> IF m.have THEN m.last.text ELSE <<"0">>
    [] m.calc = "fixed" -> FixedText(IF m.have THEN m.last.fp ELSE 0)
    [] OTHER -> IntText(IF m.have THEN m.last.i ELSE 0)

IsExprChar(m, c) == c # "." \/ m.calc # "int"

\* A line with its result goes into the history.
InHistory(m, expr, carry, r) ==
  IF r.err # "none" THEN Refused(m, r.err)
  ELSE Answer(Cleared(Pushes(m, expr, r, carry)), {"history", "editor"},
              <<"ok", r.i, r.fp, r.text>>)

\* submit_editor
Submitted(m) ==
  LET x     == Trimmed(m.ed)
      fresh == x # <<>> /\ x[1] = ";"
      expr  == IF fresh THEN SubSeq(x, Skip(x, 2), Len(x)) ELSE x
      carry == ~fresh /\ expr # <<>> /\ IsOp(expr[1])
      e     == (IF carry THEN BaseText(m) ELSE <<>>) \o expr
  IN  IF x = <<>> THEN Refused(m, "empty")
      ELSE IF Assigns(x) THEN Assigned(m, x)
      ELSE IF IsAlpha(x[1]) /\ Name(x, 1) = <<"store">> THEN StoredLast(m, x)
      ELSE IF expr = <<>> THEN Refused(m, "empty")
      ELSE IF \E k \in DOMAIN e : ~IsExprChar(m, e[k]) THEN Refused(m, "bad char")
      ELSE InHistory(m, expr, carry, Evaluate(e, m))

\* Mutant: the last result stays the newest one.
ContinuedFromNewest(m) ==
  [m EXCEPT !.hist = SubSeq(@, 1, m.sel), !.have = TRUE, !.focus = "editor",
            !.ed = <<>>, !.cur = 0]

\* handle_history_enter: what came later is forgotten.
Continued(m) ==
  [m EXCEPT !.hist = SubSeq(@, 1, m.sel), !.have = TRUE, !.focus = "editor",
            !.last = [i |-> m.hist[m.sel].i, fp |-> m.hist[m.sel].fp,
                      text |-> m.hist[m.sel].text],
            !.ed = <<>>, !.cur = 0]

\* resume_restore_state, of a payload of its own
Resumed(m) ==
  LET count == Len(m.hist) IN
  DrawnAll([m EXCEPT !.cur = Smaller(@, Len(m.ed)),
                     !.focus = IF count = 0 THEN "editor" ELSE @,
                     !.sel = IF count = 0 THEN 1 ELSE Smaller(@, count)])

-----------------------------------------------------------------------------
\* The characters of an expression.  A line that is to be evaluated is taken as
\* typed.
RECURSIVE Show(_)
Show(t) ==
  CASE t[1] = "num"  -> Digits(t[2])
    [] t[1] = "var"  -> <<"$", t[2]>>
    [] t[1] = "pi"   -> <<"pi">>
    [] t[1] = "prev" -> <<>>
    [] t[1] = "neg"  -> <<"-">> \o Show(t[2])
    [] t[1] = "par"  -> <<"(">> \o Show(t[2]) \o <<")">>
    [] t[1] = "call" -> <<t[2], "(">> \o Show(t[3]) \o <<")">>
    [] t[1] = "bin"  -> Show(t[3]) \o <<t[2]>> \o Show(t[4])

\* The line of an expression: one that begins with a sign would be taken to go on.
RECURSIVE GoesOn(_)
GoesOn(t)   == t[1] = "prev" \/ (t[1] = "bin" /\ GoesOn(t[3]))
LineFor(t) == (IF ~GoesOn(t) /\ IsOp(Show(t)[1]) THEN <<";", " ">> ELSE <<>>) \o Show(t)

Given(calc, angle, have, v) ==
  LET t  == FloatText(v)
      fp == Fixed(t)
  IN  DrawnAll([hist |-> <<>>, vars |-> <<"a">> :> Frac(5, 2), ed |-> <<>>, cur |-> 0,
                focus |-> "editor", sel |-> 1, calc |-> calc, angle |-> angle,
                have |-> have, screen |-> <<>>,
                last |-> [i |-> Truncated(fp, 100), fp |-> fp,
                          text |-> IF calc = "float" THEN t ELSE FixedText(fp)]])

\* calcplus_init
Fresh ==
  DrawnAll([hist |-> <<>>, vars |-> [x \in {} |-> Zero], ed |-> <<>>, cur |-> 0,
            focus |-> "editor", sel |-> 1, calc |-> "int", angle |-> "rad",
            have |-> FALSE, screen |-> <<>>,
            last |-> [i |-> 0, fp |-> 0, text |-> <<"0">>]])

Typed(m, x) == DrawnAll([m EXCEPT !.ed = x, !.cur = Len(x)])

Init ==
  /\ mode \in Modes
  /\ \/ /\ mode = "tree"
        /\ \E t \in Trees, c \in {"int", "fixed", "float"}, a \in {"rad", "deg"} :
             /\ c = "float" \/ a = "rad"
             /\ \E v \in Bases :
                  ram = Typed(Given(c, a, TRUE, v), LineFor(t))
                  /\ todo = [line |-> <<"tree", t, v>>, said |-> <<"none">>, lines |-> 0]
        /\ store = <<>>
     \/ /\ mode = "line"
        /\ \E x \in AnyLines :
             /\ ram = Typed(Given("int", "rad", TRUE, Whole(1)), x)
             /\ todo = [line |-> <<"line", x>>, said |-> <<"none">>, lines |-> 0]
        /\ store = <<>>
     \/ /\ mode \notin {"tree", "line"}
        /\ ram = Fresh /\ todo = [line |-> <<"keys">>, said |-> <<"none">>, lines |-> 0]
        /\ store \in OtherClips[mode]

Types   == mode \notin {"tree", "line"}
Editing == Types /\ ram.focus = "editor"
\* Keys that only one mode presses, to keep the others small
Edits   == mode = "edit"

Key(m, parts, said) ==
  /\ ram' = Drawn(ram, m, parts)
  /\ todo' = [todo EXCEPT !.said = said]
  /\ UNCHANGED mode

Inserted(c) ==
  SubSeq(ram.ed, 1, ram.cur) \o <<c>> \o SubSeq(ram.ed, ram.cur + 1, Len(ram.ed))

\* RETURN in the editor
Submit ==
  /\ ram.focus = "editor" /\ todo.said = <<"none">>
  /\ ram.ed # <<>> /\ todo.lines < MaxLines[mode]
  /\ \E a \in {Submitted(ram)} :
       /\ ram' = Drawn(ram, a.m, a.parts)
       /\ todo' = [todo EXCEPT !.said = a.said, !.lines = @ + 1]
  /\ UNCHANGED <<store, mode>>

\* editor_insert_char
Insert(c) ==
  /\ Editing /\ Len(ram.ed) < EXPR_MAX_LEN /\ IsExprChar(ram, c)
  /\ Inserted(c) \in Texts[mode]
  /\ Key([ram EXCEPT !.ed = Inserted(c), !.cur = @ + 1], {"editor"}, <<"none">>)
  /\ UNCHANGED store

\* A full editor, or a point among integers
InsertRefused(c) ==
  /\ Edits /\ Editing /\ (Len(ram.ed) >= EXPR_MAX_LEN \/ ~IsExprChar(ram, c))
  /\ Key(ram, {"editor"}, <<"none">>) /\ UNCHANGED store

\* editor_backspace
Backspace ==
  /\ Edits /\ Editing /\ ram.cur > 0
  /\ Key([ram EXCEPT !.ed = SubSeq(@, 1, ram.cur - 1) \o SubSeq(@, ram.cur + 1, Len(@)),
                     !.cur = @ - 1], {"editor"}, <<"none">>)
  /\ UNCHANGED store

Cursor(to) ==
  /\ Edits /\ Editing /\ to \in 0 .. Len(ram.ed)
  /\ Key([ram EXCEPT !.cur = to], {"editor"}, <<"none">>) /\ UNCHANGED store

\* Up from the editor to the newest line, and on
ToHistory ==
  /\ Editing /\ ram.hist # <<>>
  /\ Key([ram EXCEPT !.focus = "history", !.sel = Len(ram.hist)],
         {"selection", "editor"}, <<"none">>)
  /\ UNCHANGED store
Up ==
  /\ ram.focus = "history" /\ ram.sel > 1
  /\ Key([ram EXCEPT !.sel = @ - 1], {"selection"}, <<"none">>) /\ UNCHANGED store
Down ==
  /\ ram.focus = "history" /\ ram.sel < Len(ram.hist)
  /\ Key([ram EXCEPT !.sel = @ + 1], {"selection"}, <<"none">>) /\ UNCHANGED store
ToEditor ==
  /\ ram.focus = "history" /\ ram.sel >= Len(ram.hist)
  /\ Key([ram EXCEPT !.focus = "editor"], {"selection", "editor"}, <<"none">>)
  /\ UNCHANGED store
Continue ==
  /\ ram.focus = "history" /\ ram.sel <= Len(ram.hist)
  /\ Key(Continued(ram), {"history", "editor"}, <<"none">>) /\ UNCHANGED store

\* F7, and F6
NextMode ==
  /\ Types /\ ~Edits
  /\ Key([ram EXCEPT !.calc = CASE @ = "int" -> "fixed" [] @ = "fixed" -> "float"
                                [] OTHER -> "int"], {"mode", "editor"}, <<"none">>)
  /\ UNCHANGED store
NextAngle ==
  /\ mode = "hist" /\ ram.calc = "float"
  /\ Key([ram EXCEPT !.angle = IF @ = "rad" THEN "deg" ELSE "rad"], {"mode"}, <<"none">>)
  /\ UNCHANGED store

\* do_copy
Copied(m) ==
  IF m.focus = "history"
  THEN m.hist[m.sel].expr \o <<" ", "=", " ">> \o ResultText(m.hist[m.sel])
  ELSE m.ed
Copy ==
  /\ Edits /\ Copied(ram) # <<>>
  /\ store' = Copied(ram)
  /\ Key(ram, {}, <<"none">>)

\* do_paste: what comes before an equals sign, if the editor may hold it.
Pasted(clip) == Trimmed(Before(clip, "="))
Paste ==
  LET x == Pasted(store) IN
  /\ Edits /\ x # <<>> /\ Len(x) <= EXPR_MAX_LEN
  /\ \A k \in DOMAIN x : IsExprChar(ram, x[k])
  /\ Key([ram EXCEPT !.ed = x, !.cur = Len(x), !.focus = "editor"],
         {"selection", "editor"}, <<"none">>)
  /\ UNCHANGED store

\* F8, or the program is left and entered again
ShowHelp == Edits /\ ram' = DrawnAll(ram) /\ UNCHANGED <<store, todo, mode>>
Resume   == Types /\ ram' = Resumed(ram) /\ UNCHANGED <<store, todo, mode>>

Next ==
  \/ Submit
  \/ Types /\ \E c \in UNION {ToSet(x) : x \in Texts[mode]} : Insert(c) \/ InsertRefused(c)
  \/ Backspace
  \/ \E to \in {ram.cur - 1, ram.cur + 1, 0} : Cursor(to)
  \/ ToHistory \/ Up \/ Down \/ ToEditor \/ Continue
  \/ NextMode \/ NextAngle
  \/ Copy \/ Paste
  \/ ShowHelp \/ Resume

Spec == Init /\ [][Next]_vars

-----------------------------------------------------------------------------
Err(why)   == <<"err", {why}>>
Errs(x)    == IF x[1] = "err" THEN x[2] ELSE {}
Outcome(o) == IF o[1] = "err" THEN Err(o[2]) ELSE o

\* What an expression means, or the errors it has.
RECURSIVE Meaning(_, _, _)
Meaning(t, m, base) ==
  LET M(x) == Meaning(x, m, base) IN
  CASE t[1] = "num"  -> <<"ok", Whole(t[2])>>
    [] t[1] = "var"  -> <<"ok", m.vars[<<t[2]>>]>>
    [] t[1] = "pi"   -> <<"ok", Pi>>
    [] t[1] = "prev" -> <<"ok", base>>
    [] t[1] = "par"  -> M(t[2])
    [] t[1] = "neg"  -> IF M(t[2])[1] = "err" THEN M(t[2])
                        ELSE <<"ok", RomSub(Zero, M(t[2])[2])>>
    [] t[1] = "call" -> IF M(t[3])[1] = "err" THEN M(t[3])
                        ELSE Outcome(Applied(t[2], M(t[3])[2], m))
    [] t[1] = "bin"  ->
         IF Errs(M(t[3])) \cup Errs(M(t[4])) # {}
         THEN <<"err", Errs(M(t[3])) \cup Errs(M(t[4]))>>
         ELSE Outcome(Operated(t[2], M(t[3])[2], M(t[4])[2]))

\* The number a text shows
TextValue(t) ==
  LET ds == SelectSeq(Mantissa(t), IsDigit)
      n  == Number([k \in DOMAIN ds |-> Digit(ds[k])])
  IN  Frac((IF t[1] = "-" THEN -n ELSE n) * (10 ^ Exponent(t)), 10 ^ Decimals(t))

\* A result is a value's: its text in FLOAT; in FIXED within 0.56 hundredths, as
\* each of its decimals is rounded; in INT what is before the point.
NearHundredths(fp, v) == 100 * Abs((100 * v[1]) - (fp * v[2])) <= 56 * v[2]
InRange(v) == Abs(v[1]) <= (FP_MAX_ABS \div 100) * v[2]
IsResult(h, v) ==
  CASE h.calc = "float" -> h.text = FloatText(v)
    [] h.calc = "fixed" -> IF InRange(v) THEN NearHundredths(h.fp, v)
                           ELSE Abs(h.fp) = FP_MAX_ABS /\ (h.fp < 0) = (v[1] < 0)
    [] OTHER -> InRange(v) =>
                  \E fp \in {((100 * v[1]) \div v[2]) + k : k \in -1 .. 1} :
                    NearHundredths(fp, v) /\ h.i = Truncated(fp, 100)

\* The text of a result is read again when a line goes on from it, but not one
\* with an exponent.
CanGoOn(m) == m.calc # "float" \/ "e" \notin ToSet(m.last.text)
BaseOf(m) == CASE m.calc = "float" -> TextValue(m.last.text)
               [] m.calc = "fixed" -> <<m.last.fp, 100>> [] OTHER -> Whole(m.last.i)

\* The two flaws of the evaluator: a function's argument overwrites the stacks of
\* what is before the function, and a signed parenthesis after an operator ends
\* what is before the sign.
RECURSIVE Calls(_), LeadingCalls(_), SignsRight(_)
Calls(t) == CASE t[1] = "call" -> TRUE [] t[1] \in {"par", "neg"} -> Calls(t[2])
              [] t[1] = "bin" -> Calls(t[3]) \/ Calls(t[4]) [] OTHER -> FALSE
LeadingCalls(t) ==
  CASE t[1] = "call" -> LeadingCalls(t[3])
    [] t[1] = "neg"  -> (t[2][1] # "par" /\ LeadingCalls(t[2])) \/ ~Calls(t[2])
    [] t[1] = "bin"  -> LeadingCalls(t[3]) /\ ~Calls(t[4])
    [] OTHER -> ~Calls(t)
SignsRight(t) ==
  CASE t[1] = "bin" -> \/ t[4][1] = "neg" /\ t[4][2][1] = "par"
                       \/ SignsRight(t[3]) \/ SignsRight(t[4])
    [] t[1] \in {"par", "neg"} -> SignsRight(t[2])
    [] t[1] = "call" -> SignsRight(t[3]) [] OTHER -> FALSE
EvaluatedWell(t) == LeadingCalls(t) /\ ~SignsRight(t)

\* A line's answer is what the expression means, in the mode's precision, or one of
\* the errors it has (eval_expression_tf, evaluate_for_current_mode).
LineMeans ==
  (mode = "tree" /\ todo.said[1] # "none") =>
    LET t    == todo.line[2]
        was  == Given(ram.calc, ram.angle, TRUE, todo.line[3])
        goes == GoesOn(t)
        v    == Meaning(t, was, BaseOf(was))
    IN  (goes => CanGoOn(was)) /\ EvaluatedWell(t) =>
          IF v[1] = "err" THEN todo.said[1] = "err" /\ todo.said[2] \in v[2]
          ELSE todo.said[1] = "ok" /\ IsResult(ram.hist[1], v[2])

\* The lines that are expressions
RECURSIVE IsExpression(_)
IsParenthesis(x) == /\ Len(x) > 2 /\ x[1] = "(" /\ x[Len(x)] = ")"
                    /\ IsExpression(SubSeq(x, 2, Len(x) - 1))
IsPrimary(y) ==
  LET x == Trimmed(y) IN
  /\ x # <<>>
  /\ \/ \A k \in DOMAIN x : IsDigit(x[k])
     \/ x[1] = "$" /\ Tail(x) \in DOMAIN ram.vars
     \/ x = <<"pi">>
     \/ IsParenthesis(x)
     \/ x[1] \in Functions \ FloatOnly /\ IsParenthesis(Trimmed(Tail(x)))
IsOperand(y) ==
  LET x == Trimmed(y)
  IN  IsPrimary(x) \/ (x # <<>> /\ x[1] \in {"+", "-"} /\ IsPrimary(Tail(x)))
IsExpression(x) ==
  \/ IsOperand(x)
  \/ \E k \in DOMAIN x : /\ IsOp(x[k])
                         /\ IsExpression(SubSeq(x, 1, k - 1))
                         /\ IsOperand(SubSeq(x, k + 1, Len(x)))

\* A line is refused when it is no expression, and only then; but the digits before
\* a variable's $ are dropped, and see LineMeans for functions.
LineRefused ==
  (mode = "line" /\ todo.said[1] # "none") =>
    LET x == Trimmed(todo.line[2])
        e == (IF x # <<>> /\ IsOp(x[1]) THEN <<"1">> ELSE <<>>) \o x
    IN  \/ \E k \in DOMAIN e : k > 1 /\ e[k] \in Functions
        \/ \E k \in DOMAIN e : IsDigit(e[k]) /\ At(e, k + 1) = "$"
        \/ (todo.said[1] = "ok") = IsExpression(e)

\* A line of the history that goes on does so from the line before it, whatever was
\* typed, chosen or forgotten in between (push_history, handle_history_enter).
HistoryFollows ==
  mode = "hist" =>
    \A k \in 2 .. Len(ram.hist) :
      LET h == ram.hist[k]
          p == ram.hist[k - 1]
          m == [calc |-> h.calc, last |-> [i |-> p.i, fp |-> p.fp, text |-> p.text]]
      IN  h.carry => /\ CanGoOn(m) /\ Len(h.expr) = 2
                     /\ LET v == Operated(h.expr[1], BaseOf(m), Whole(Digit(h.expr[2])))
                        IN  v[1] = "ok" /\ IsResult(h, v[2])

\* A variable holds what was shown when it was stored; but the text of a negative
\* number, or of one below one, is read wrongly (romfp_eval_literal).
VariablesHold ==
  /\ todo.said[1] = "stored" /\ ram.last.text[1] \notin {"-", "."} =>
       ram.vars[todo.said[2]] = TextValue(ram.last.text)
  /\ todo.said[1] = "assigned" =>
       IsResult([i |-> ram.last.i, fp |-> ram.last.fp, text |-> ram.last.text,
                 calc |-> ram.calc], ram.vars[todo.said[2]])
  /\ Cardinality(DOMAIN ram.vars) <= VAR_MAX

\* The screen shows the history, the line and the mode.
ScreenShows == ram.screen = FullScreen(ram)

Sound == LineMeans /\ LineRefused /\ HistoryFollows /\ VariablesHold /\ ScreenShows
=============================================================================
