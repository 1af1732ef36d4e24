----------------------------- MODULE ShellParse -----------------------------
(***************************************************************************)
(* ReadyShell's parser overlay: rs_lexer.c cuts a line of source into at   *)
(* most MaxTokens tokens, rs_parse.c builds a tree from them, every node,  *)
(* name and list of which is a block of its own on the small heap, and     *)
(* rs_parse_free.c gives it back.  Any of the allocations may fail.        *)
(*                                                                         *)
(* In mode "lex" the line is one of characters, in mode "parse" one of     *)
(* types of tokens.  A tree is a tuple of its kind and its parts.          *)
(***************************************************************************)
EXTENDS Integers, Sequences, SequencesExt

CONSTANTS
  MaxTokens, \* the size of the token table, with the end's
  Chars,     \* the characters typed
  MaxChars,  \* bound: characters typed
  Trees,     \* the programs typed, before a change
  Changes,   \* the tokens that are put in by a change
  Heap,      \* numbers of allocations that succeed before one fails
  Modes      \* "lex", "parse"

VARIABLES
  ram,   \* [live, tree or tokens]: blocks in use, what was read from the line
  store, \* the line: a sequence of characters or of tokens
  todo,  \* "typed", "changed", "accepted", "refused", "freed"
  mode

vars == <<ram, store, todo, mode>>

-----------------------------------------------------------------------------
\* The lexer.  A token is its type and its text.

Digits  == {"0", "1"}
Idents  == {"a", "b"} \cup Digits
Singles == {"@", "|", "?", "%", "[", "]", "(", ")", ".", ",", ";", "=", "<", ">"}
Pairs   == {<<".", ".">>, <<"=", "=">>, <<"!", "=">>, <<"<", ">">>, <<">", "=">>, <<"<", "=">>}

\* The end of the run of characters of a set that starts at i
RunEnd(src, i, set) ==
  CHOOSE e \in i .. Len(src) + 1 :
    /\ \A j \in i .. e - 1 : src[j] \in set
    /\ e = Len(src) + 1 \/ src[e] \notin set

RECURSIVE Quote(_, _)
\* The closing quote after i, or the end: a backslash takes the next one along.
Quote(src, i) ==
  IF i > Len(src) THEN Len(src) + 1
  ELSE IF src[i] = "\"" THEN i
  ELSE Quote(src, IF src[i] = "\\" THEN i + 2 ELSE i + 1)

RECURSIVE Unescaped(_)
Unescaped(text) ==
  IF text = <<>> THEN <<>>
  ELSE IF Head(text) = "\\" /\ Len(text) > 1
       THEN <<text[2]>> \o Unescaped(SubSeq(text, 3, Len(text)))
       ELSE <<Head(text)>> \o Unescaped(Tail(text))

\* The token at i and the place after it; a place of 0 is an error.
TokenAt(src, i) ==
  LET c == src[i]
      token(type, from, to, next) ==
        [type |-> type, text |-> SubSeq(src, from, to - 1), next |-> next]
      bad == [type |-> "error", text |-> <<>>, next |-> 0]
      end == RunEnd(src, i + 1, Idents)
  IN CASE c = "nl" -> token("nl", i, i, i + 1)
       [] c = "\"" -> LET q == Quote(src, i + 1)
                      IN IF q > Len(src) THEN bad
                         ELSE [token("str", i + 1, q, q + 1) EXCEPT !.text = Unescaped(@)]
       [] c \in Digits -> LET e == RunEnd(src, i, Digits) IN token("num", i, e, e)
       [] c = "$" -> IF end = i + 1 THEN bad ELSE token("var", i + 1, end, end)
       [] c \in Idents \ Digits -> token("id", i, end, end)
       [] OTHER -> IF i < Len(src) /\ <<c, src[i + 1]>> \in Pairs
                   THEN token(IF c = "." THEN ".." ELSE "cmp", i, i + 2, i + 2)
                   ELSE IF c \in Singles
                   THEN token(IF c \in {"<", ">"} THEN "cmp" ELSE c, i, i + 1, i + 1)
                   ELSE bad

RECURSIVE LexFrom(_, _, _)
LexFrom(src, i, tokens) ==
  IF i > Len(src)
  THEN [ok |-> Len(tokens) < MaxTokens, tokens |-> tokens]
  ELSE IF src[i] = " " THEN LexFrom(src, i + 1, tokens)
  ELSE LET t == TokenAt(src, i)
       IN IF t.next = 0 \/ Len(tokens) = MaxTokens
          THEN [ok |-> FALSE, tokens |-> <<>>]
          ELSE LexFrom(src, t.next, Append(tokens, <<t.type, t.text>>))

Lex(src) == LexFrom(src, 1, <<>>)

-----------------------------------------------------------------------------
\* How many blocks a tree is made of, which is what the functions of
\* rs_parse_free.c give back.

\* The sum of a sequence of numbers
Total(q) == LET s[i \in 0 .. Len(q)] == IF i = 0 THEN 0 ELSE s[i - 1] + q[i] IN s[Len(q)]

RECURSIVE ExprBlocks(_), StmtsBlocks(_)
ItemsBlocks(items) ==
  (IF items = <<>> THEN 0 ELSE 1)
  + Total([i \in DOMAIN items |-> ExprBlocks(items[i])])
ScriptBlocks(stmts) == 1 + StmtsBlocks(stmts)
ExprBlocks(e) ==
  CASE e[1] \in {"num", "bool", "@"} -> 1
    [] e[1] \in {"str", "var"} -> 2
    [] e[1] = "array" -> 1 + ItemsBlocks(e[2])
    [] e[1] \in {"range", "index", "cmp"} -> 1 + ExprBlocks(e[2]) + ExprBlocks(e[3])
    [] e[1] = "prop" -> 2 + ExprBlocks(e[2])
    [] e[1] = "script" -> 1 + ScriptBlocks(e[2])
StageBlocks(s) ==
  CASE s[1] = "cmd" -> 1 + ItemsBlocks(s[2])
    [] s[1] \in {"?", "%"} -> ScriptBlocks(s[2])
    [] s[1] = "expr" -> ExprBlocks(s[2])
PipeBlocks(stages) ==
  (IF stages = <<>> THEN 0 ELSE 1)
  + Total([i \in DOMAIN stages |-> StageBlocks(stages[i])])
StmtBlocks(s) ==
  CASE s[1] = "expr" -> ExprBlocks(s[2])
    [] s[1] = "pipe" -> PipeBlocks(s[2])
    [] s[1] = "assign expr" -> 1 + ExprBlocks(s[2])
    [] s[1] = "assign pipe" -> 1 + PipeBlocks(s[2])
StmtsBlocks(stmts) ==
  (IF stmts = <<>> THEN 0 ELSE 1)
  + Total([i \in DOMAIN stmts |-> StmtBlocks(stmts[i])])

-----------------------------------------------------------------------------
\* The parser.  A state p of it has the place in the tokens, the allocations
\* left before one fails, the blocks in use and the tree it has just made.

TypeAt(p, n) == p.tokens[IF p.pos + n > Len(p.tokens) THEN Len(p.tokens) ELSE p.pos + n]
Cur(p)       == TypeAt(p, 0)
Skip(p, n)   == [p EXCEPT !.pos = @ + n]
Fail(p, freed) == [p EXCEPT !.ok = FALSE, !.live = @ - freed]

\* `tree' from n blocks more and `skip' tokens; otherwise `freed' are given back.
Make(p, n, skip, tree, freed) ==
  IF p.left < n THEN Fail(p, freed)
  ELSE [p EXCEPT !.left = @ - n, !.live = @ + n, !.pos = @ + skip, !.tree = tree]

\* A list is grown by reallocating it: a block the first time.
Grow(p, list, freed) ==
  IF p.left = 0 THEN Fail(p, freed)
  ELSE [p EXCEPT !.left = @ - 1, !.live = @ + (IF list = <<>> THEN 1 ELSE 0),
                 !.tree = Append(list, @)]

ExprStart == {"num", "str", "bool", "var", "@", "(", "["}

RECURSIVE Expr(_, _), Stmts(_, _, _)

\* Each of the operators with End, Rest or Read in its name goes on with a state in
\* which a part has been read, or has failed.
ScriptEnd(s) ==
  IF ~s.ok THEN Fail(s, 1)
  ELSE IF Cur(s) # "]" THEN Fail(s, ScriptBlocks(s.tree)) ELSE Skip(s, 1)
ScriptRest(m) == IF m.ok THEN ScriptEnd(Stmts(m, "]", <<>>)) ELSE m
Script(p) ==
  IF Cur(p) # "[" THEN Fail(p, 0) ELSE ScriptRest(Make(p, 1, 1, <<>>, 0))

ParenEnd(e) ==
  IF e.ok /\ Cur(e) # ")" THEN Fail(e, ExprBlocks(e.tree)) ELSE Skip(e, 1)
ScriptRead(s) ==
  IF s.ok THEN Make(s, 1, 0, <<"script", s.tree>>, ScriptBlocks(s.tree)) ELSE s
Primary(p) ==
  LET t == Cur(p)
  IN CASE t \in {"num", "bool", "@"} -> Make(p, 1, 1, <<t>>, 0)
       [] t \in {"str", "var"} -> Make(p, 2, 1, <<t>>, 0)
       [] t = "(" -> ParenEnd(Expr(Skip(p, 1), TRUE))
       [] t = "[" -> ScriptRead(Script(p))
       [] OTHER -> Fail(p, 0)

\* base with the index that i has read
Indexed(base, i, both) ==
  IF Cur(i) # ")" THEN Fail(i, both)
  ELSE Make(i, 1, 1, <<"index", base, i.tree>>, both)
\* As it would be if the base were not given back
IndexKept(base, i) ==
  IF ~i.ok THEN i ELSE Indexed(base, i, ExprBlocks(base) + ExprBlocks(i.tree))
IndexOf(base, i) ==
  IF ~i.ok THEN Fail(i, ExprBlocks(base))
  ELSE Indexed(base, i, ExprBlocks(base) + ExprBlocks(i.tree))

RECURSIVE PostfixRest(_)
PostfixRest(b) ==
  IF ~b.ok \/ Cur(b) \notin {".", "("} THEN b
  ELSE IF Cur(b) = "("
       THEN PostfixRest(IndexOf(b.tree, Expr(Skip(b, 1), TRUE)))
       ELSE IF TypeAt(b, 1) # "id" THEN Fail(b, ExprBlocks(b.tree))
       ELSE PostfixRest(Make(b, 2, 2, <<"prop", b.tree>>, ExprBlocks(b.tree)))
Postfix(p) == PostfixRest(Primary(p))

\* left and right joined, once the right operand has been read
Joined(kind, left, r) ==
  IF ~r.ok THEN Fail(r, ExprBlocks(left))
  ELSE Make(r, 1, 0, <<kind, left, r.tree>>, ExprBlocks(left) + ExprBlocks(r.tree))

RECURSIVE Term(_, _), ComparisonRest(_), ArrayRest(_, _)
\* A term of a level: a value with its postfixes, a range, a comparison, a list
RangeRest(l) ==
  IF l.ok /\ Cur(l) = ".." THEN Joined("range", l.tree, Term(Skip(l, 1), 0)) ELSE l
ComparisonRest(l) ==
  IF ~l.ok \/ Cur(l) # "cmp" THEN l
  ELSE ComparisonRest(Joined("cmp", l.tree, Term(Skip(l, 1), 1)))
ItemRead(g) ==
  IF ~g.ok THEN g
  ELSE IF Cur(g) = "," THEN ArrayRest(Term(Skip(g, 1), 2), g.tree)
  ELSE Make(g, 1, 0, <<"array", g.tree>>, ItemsBlocks(g.tree))
\* e has read the next item of the list.
ArrayRest(e, items) ==
  IF ~e.ok THEN Fail(e, ItemsBlocks(items))
  ELSE ItemRead(Grow(e, items, ItemsBlocks(items) + ExprBlocks(e.tree)))
ListRest(first) == IF first.ok /\ Cur(first) = "," THEN ArrayRest(first, <<>>) ELSE first
TermRest(l, level) ==
  CASE level = 1 -> RangeRest(l) [] level = 2 -> ComparisonRest(l) [] level = 3 -> ListRest(l)
Term(p, level) ==
  IF level = 0 THEN Postfix(p) ELSE TermRest(Term(p, level - 1), level)
Expr(p, array) == Term(p, IF array THEN 3 ELSE 2)

RECURSIVE Args(_, _)
ArgsRest(g) ==
  IF ~g.ok THEN g
  ELSE IF Cur(g) = "," THEN Args(Skip(g, 1), g.tree)
  ELSE [g EXCEPT !.tree = <<"cmd", @>>]
ArgRead(e, args, cmd) ==
  IF ~e.ok THEN Fail(e, cmd) ELSE ArgsRest(Grow(e, args, cmd + ExprBlocks(e.tree)))
Args(p, args) ==
  IF Cur(p) \notin ExprStart THEN [p EXCEPT !.tree = <<"cmd", args>>]
  ELSE ArgRead(Expr(p, FALSE), args, 1 + ItemsBlocks(args))

CommandRest(name) == IF name.ok THEN Args(name, <<>>) ELSE name
StageEnd(inner, kind) == IF inner.ok THEN [inner EXCEPT !.tree = <<kind, @>>] ELSE inner
Stage(p) ==
  CASE Cur(p) = "id" -> CommandRest(Make(p, 1, 1, <<>>, 0))
    [] Cur(p) \in {"?", "%"} -> StageEnd(Script(Skip(p, 1)), Cur(p))
    [] OTHER -> StageEnd(Expr(p, TRUE), "expr")

\* A pipeline, or an expression alone, after the stages read so far
RECURSIVE Pipe(_, _)
StageRead(g) ==
  IF ~g.ok THEN g
  ELSE IF Cur(g) = "|" THEN Pipe(Skip(g, 1), g.tree)
  ELSE [g EXCEPT !.tree = <<"pipe", @>>]
PipeRest(s, stages) ==
  IF ~s.ok THEN Fail(s, PipeBlocks(stages))
  ELSE IF stages = <<>> /\ Cur(s) # "|" /\ s.tree[1] = "expr" THEN s
  ELSE StageRead(Grow(s, stages, PipeBlocks(stages) + StageBlocks(s.tree)))
Pipe(p, stages) == PipeRest(Stage(p), stages)

StmtEnd(rhs, assigns) ==
  IF ~assigns THEN rhs
  ELSE IF ~rhs.ok THEN Fail(rhs, 1)
  ELSE [rhs EXCEPT !.tree = <<IF @[1] = "expr" THEN "assign expr" ELSE "assign pipe", @[2]>>]
StmtRest(p, assigns) == IF p.ok THEN StmtEnd(Pipe(p, <<>>), assigns) ELSE p
Stmt(p) ==
  LET assigns == Cur(p) = "var" /\ TypeAt(p, 1) = "="
  IN StmtRest(IF assigns THEN Make(p, 1, 2, <<>>, 0) ELSE p, assigns)

RECURSIVE Separators(_)
Separators(p) == IF Cur(p) \in {"nl", ";"} THEN Separators(Skip(p, 1)) ELSE p

\* rs_parse_program_until; what there is of the program is given back by the caller.
StmtRead(s, stmts) ==
  IF ~s.ok THEN Fail(s, StmtsBlocks(stmts))
  ELSE Grow(s, stmts, StmtsBlocks(stmts) + StmtBlocks(s.tree))
StmtsRest(g, end) == IF g.ok THEN Stmts(g, end, g.tree) ELSE g
StmtsFrom(q, end, stmts) ==
  IF Cur(q) \in {"eof", end} THEN [q EXCEPT !.tree = stmts]
  ELSE StmtsRest(StmtRead(Stmt(q), stmts), end)
Stmts(p, end, stmts) == StmtsFrom(Separators(p), end, stmts)

\* rs_parse_source
Parse(line, left) ==
  LET p == [tokens |-> Append(line, "eof"), pos |-> 1, left |-> left, live |-> 0,
            tree |-> <<>>, ok |-> TRUE]
  IN IF Len(line) >= MaxTokens THEN Fail(p, 0) ELSE Stmts(p, "eof", <<>>)

-----------------------------------------------------------------------------
\* Trees written as lines, with no more parentheses than they need

RECURSIVE WriteExpr(_, _), WriteStmts(_)
JoinWith(parts, sep) ==
  FoldLeft(\o, <<>>, [i \in DOMAIN parts |-> (IF i = 1 THEN <<>> ELSE <<sep>>) \o parts[i]])
Level(e) ==
  CASE e[1] \in {"prop", "index"} -> 1 [] e[1] = "range" -> 2 [] e[1] = "cmp" -> 3
    [] e[1] = "array" -> 4 [] OTHER -> 0
WriteExpr(e, level) ==
  IF Level(e) > level THEN <<"(">> \o WriteExpr(e, 4) \o <<")">>
  ELSE CASE e[1] = "prop" -> WriteExpr(e[2], 1) \o <<".", "id">>
         [] e[1] = "index" -> WriteExpr(e[2], 1) \o <<"(">> \o WriteExpr(e[3], 4) \o <<")">>
         [] e[1] = "range" -> WriteExpr(e[2], 1) \o <<"..">> \o WriteExpr(e[3], 1)
         [] e[1] = "cmp" -> WriteExpr(e[2], 3) \o <<"cmp">> \o WriteExpr(e[3], 2)
         [] e[1] = "array" ->
              JoinWith([i \in DOMAIN e[2] |-> WriteExpr(e[2][i], 3)], ",")
         [] e[1] = "script" -> <<"[">> \o WriteStmts(e[2]) \o <<"]">>
         [] OTHER -> <<e[1]>>
WriteStage(s) ==
  CASE s[1] = "cmd" ->
         <<"id">> \o JoinWith([i \in DOMAIN s[2] |-> WriteExpr(s[2][i], 3)], ",")
    [] s[1] = "expr" -> WriteExpr(s[2], 4)
    [] OTHER -> <<s[1], "[">> \o WriteStmts(s[2]) \o <<"]">>
WriteStmt(s) ==
  (IF s[1] \in {"assign expr", "assign pipe"} THEN <<"var", "=">> ELSE <<>>)
  \o (IF s[1] \in {"expr", "assign expr"} THEN WriteExpr(s[2], 4)
      ELSE JoinWith([i \in DOMAIN s[2] |-> WriteStage(s[2][i])], "|"))
WriteStmts(stmts) == JoinWith([i \in DOMAIN stmts |-> WriteStmt(stmts[i])], ";")

-----------------------------------------------------------------------------
Fresh == [live |-> 0, got |-> <<>>]

Init ==
  /\ mode \in Modes /\ ram = Fresh /\ todo = "typed"
  /\ store \in IF mode = "lex" THEN {<<>>} ELSE {WriteStmts(t) : t \in Trees}

Type ==
  /\ mode = "lex" /\ todo = "typed" /\ Len(store) < MaxChars
  /\ \E c \in Chars : store' = Append(store, c)
  /\ UNCHANGED <<ram, todo, mode>>

\* One token is left out, is another, or is put in.
Change ==
  /\ mode = "parse" /\ todo = "typed"
  /\ \/ \E i \in DOMAIN store : store' = RemoveAt(store, i)
     \/ \E i \in DOMAIN store, t \in Changes : store' = [store EXCEPT ![i] = t]
     \/ \E i \in 1 .. Len(store) + 1, t \in Changes : store' = InsertAt(store, i, t)
  /\ todo' = "changed" /\ UNCHANGED <<ram, mode>>

\* The calls of rs_lex and rs_parse_source by rs_vm_exec_source
Enter ==
  /\ todo \in {"typed", "changed"}
  /\ \/ /\ mode = "lex"
        /\ ram' = [ram EXCEPT !.got = Lex(store).tokens]
        /\ todo' = IF Lex(store).ok THEN "accepted" ELSE "refused"
     \/ /\ mode = "parse"
        /\ \E left \in Heap :
             \E p \in {Parse(store, left)} :
                /\ ram' = [live |-> p.live, got |-> IF p.ok THEN p.tree ELSE <<>>]
                /\ todo' = IF p.ok THEN "accepted" ELSE "refused"
  /\ UNCHANGED <<store, mode>>

\* rs_program_free, once the program has run
Free ==
  /\ todo = "accepted" /\ mode = "parse"
  /\ ram' = [live |-> ram.live - StmtsBlocks(ram.got), got |-> <<>>]
  /\ todo' = "freed" /\ UNCHANGED <<store, mode>>

Next == Type \/ Change \/ Enter \/ Free

Spec == Init /\ [][Next]_vars

-----------------------------------------------------------------------------
TypeOK ==
  /\ todo \in {"typed", "changed", "accepted", "refused", "freed"}
  /\ ram.live \in Nat

\* A line that is refused, at whatever token or allocation, leaves no block in use,
\* and neither does a program that has run.
NothingLeaks == todo \in {"refused", "freed"} => ram.live = 0

\* What was typed, but for parentheses, separators and a last comma in the
\* arguments of a command
Words(line) ==
  LET kept(i) == /\ line[i] \notin {"(", ")", ";", "nl"}
                 /\ line[i] = "," => i < Len(line) /\ line[i + 1] \in ExprStart
      places == SelectSeq([j \in DOMAIN line |-> j], kept)
  IN [i \in DOMAIN places |-> line[places[i]]]

\* The tree of a line that is accepted says what the line says, and nothing else
\* reads as that tree: written again, it comes back.
TreeIsLine ==
  todo = "accepted" /\ mode = "parse" =>
    /\ Words(WriteStmts(ram.got)) = Words(store)
    /\ \A again \in {Parse(WriteStmts(ram.got), 1000)} : again.ok => again.tree = ram.got

\* Every tree can be typed, as long as its tokens fit in the table, and is what is
\* then read.
TreesRead ==
  \A t \in Trees :
    mode = "parse" /\ store = WriteStmts(t) =>
      /\ todo = "typed" /\ Len(store) < MaxTokens => Parse(store, 1000).ok
      /\ todo = "accepted" => ram.got = t

Spelled(t) ==
  CASE t[1] = "var" -> <<"$">> \o t[2]
    [] t[1] = "str" ->
         <<"\"">> \o FlattenSeq([i \in DOMAIN t[2] |->
                                   IF t[2][i] \in {"\"", "\\"} THEN <<"\\", t[2][i]>>
                                   ELSE <<t[2][i]>>]) \o <<"\"">>
    [] t[1] = "nl" -> <<"nl">>
    [] OTHER -> t[2]

\* A line that is cut into tokens has the same tokens when they are typed apart,
\* and no character of it has got lost.
LexSound ==
  todo = "accepted" /\ mode = "lex" =>
    LET apart == JoinWith([i \in DOMAIN ram.got |-> Spelled(ram.got[i])], " ")
        plain == [c \in Chars |-> Len(SelectSeq(store, LAMBDA x : x = c))]
    IN /\ Lex(apart) = [ok |-> TRUE, tokens |-> ram.got]
       /\ \A c \in Chars \ {" ", "\\"} :
            Len(SelectSeq(apart, LAMBDA x : x = c)) = plain[c]

Sound == NothingLeaks /\ TreeIsLine /\ TreesRead /\ LexSound
=============================================================================
