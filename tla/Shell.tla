------------------------------- MODULE Shell -------------------------------
(***************************************************************************)
(* ReadyShell runs a line (vm/rs_vm_c64.c): statements one after another,  *)
(* a pipeline item by item and depth first, each item through all of its   *)
(* stages before its source makes the next one.  The commands on files     *)
(* are overlays that take turns in one area of the expansion memory, the   *)
(* scratch: what one has listed there is read back item by item, after     *)
(* the later stages have had each of the items.                            *)
(*                                                                         *)
(* A value is a pair of its kind and its contents; an expression, a stage, *)
(* a statement is a tuple of its kind and its parts.  The text of a line   *)
(* is read by ShellParse.  A directory lists its files in an order of      *)
(* their own, one drive is used, and the log of TAP is left out.           *)
(***************************************************************************)
EXTENDS Integers, Sequences, SequencesExt, FiniteSets

CONSTANTS
  Lines,       \* [pipes, files]: the programs that may be typed
  MaxLines,    \* [pipes, files] -> bound: lines typed
  Interfering, \* those of them whose stages share more than the pipe
  Slots,       \* variables (RS_VARS_MAX)
  StageStates, \* stages of a pipeline that count (RS_STAGE_STATE_MAX)
  CatLines,    \* lines of a file that CAT can list
  Names,       \* the names of files, in the directory's order
  NoFile,      \* the entry of a name that is not in use
  Disks,       \* what is on the drive at first: [name -> NoFile or a file]
  Faults,      \* numbers of accesses to the drive before one that fails
  Modes        \* "pipes", "files"

VARIABLES
  ram,   \* [vars, shown, ok]: the variables, the last line's output and result
  store, \* [disk, scratch]
  todo,  \* the lines typed so far, and what there was before the last of them
  mode

vars == <<ram, store, todo, mode>>

-----------------------------------------------------------------------------
\* Values

Num(n)  == <<"num", n>>
Bool(b) == <<"bool", b>>
Str(x)  == <<"str", x>>
Arr(q)  == <<"arr", q>>
Obj(q)  == <<"obj", q>>       \* pairs of a name and a value

Numeric(v) == v[1] \in {"num", "bool"}
ToU16(v)   == IF v[1] = "num" THEN v[2] ELSE IF v[2] THEN 1 ELSE 0
Truthy(v)  == v \notin {Num(0), Bool(FALSE), Str(""), Arr(<<>>), Obj(<<>>)}
Expanded(v) == IF v[1] = "arr" THEN v[2] ELSE <<v>>

\* The value of a property, as a sequence that is empty without one
Props(v, name) ==
  IF v[1] # "obj" THEN <<>>
  ELSE LET q == SelectSeq(v[2], LAMBDA p : p[1] = name)
       IN IF q = <<>> THEN <<>> ELSE <<q[1][2]>>

FromTo(a, b) ==
  IF a <= b THEN [i \in 1 .. b - a + 1 |-> Num(a + i - 1)]
            ELSE [i \in 1 .. a - b + 1 |-> Num(a - i + 1)]

Compare(op, a, b) ==
  CASE op = "<"  -> a < b
    [] op = ">"  -> a > b
    [] op = "<=" -> a <= b
    [] op = ">=" -> a >= b

-----------------------------------------------------------------------------
\* What a program runs on: the variables, the drive, the scratch, the accesses
\* left, the lines shown, whether the screen is to pause after the next one,
\* what the statement in hand collects, the value in hand, the last value of
\* the program (none or one).

NoCollect(to) == [items |-> <<>>, to |-> to, states |-> <<>>]

Error(s)   == [s EXCEPT !.ok = FALSE]
Value(s, v) == [s EXCEPT !.val = v]

\* shell_writer
Show(s, v) ==
  [s EXCEPT !.shown = @ \o IF s.pause THEN <<<<"line", v>>, <<"pause">>>>
                                      ELSE <<<<"line", v>>>>,
            !.pause = FALSE]

ShowAll(s, q) ==
  LET shown[i \in 0 .. Len(q)] == IF i = 0 THEN s ELSE Show(shown[i - 1], q[i])
  IN shown[Len(q)]

\* A mutant of Restore: what the inner statement collected stays in place.
RestoreNothing(t, s) == t

\* What is left of the statement in hand when another's is done
Restore(t, s) == [t EXCEPT !.col = s.col]

\* No item, or one: "@" is FALSE without.
AtValue(at) == IF at = <<>> THEN Bool(FALSE) ELSE at[1]

-----------------------------------------------------------------------------
\* Commands on files.  An access to the drive fails once the accesses left are
\* used up; a file that was being written is left with a part of its text.

Garbled  == Str("garbage")
Part     == [kind |-> "seq", data |-> <<"part">>]
OneLess(s) == [s EXCEPT !.left = @ - 1]
Fails(s)   == s.left = 0
Put(s, name, f) == [s EXCEPT !.disk[name] = f]
LinesFile(q) == [kind |-> "seq", data |-> <<"lines", q>>]
SavedFile(v) == [kind |-> "seq", data |-> <<"rsv", v>>]

\* A command writes its records from the start of the scratch.
Scratched(s, q) ==
  [s EXCEPT !.scratch = [i \in 1 .. Len(q) |-> q[i]]
                        \o SubSeq(@, Len(q) + 1, Len(@))]

\* The record that a command of this kind reads there
Record(s, kind, i) ==
  IF i <= Len(s.scratch) /\ s.scratch[i][1] = kind THEN s.scratch[i][2] ELSE Garbled

\* The names of the directory that a listing of one name, or of all, has
Listed(disk, args) ==
  SelectSeq(Names, LAMBDA n : disk[n] # NoFile /\ (args = <<>> \/ args[1] = Str(n)))

Entry(disk, n) ==
  Obj(<<<<"NAME", Str(n)>>, <<"TYPE", Str(disk[n].kind)>>>>)

DataLines(f) == IF f.data[1] = "lines" THEN f.data[2] ELSE <<Garbled>>

\* Opened to read, a file that is not there is an empty one.
FileLines(disk, n) == IF disk[n] = NoFile THEN <<>> ELSE DataLines(disk[n])

SavedValue(disk, n) ==
  IF disk[n] # NoFile /\ disk[n].data[1] = "rsv" THEN <<disk[n].data[2]>> ELSE <<>>

IsName(v) == v[1] = "str" /\ v[2] \in ToSet(Names)

\* The text that PUT and ADD write: a string, or an array of strings
TextLines(v) == Expanded(v)
IsText(v) == \A i \in DOMAIN Expanded(v) : Expanded(v)[i][1] = "str"

\* An attempt to write a new file, as [s, err]; DOS refuses a name in use.
WriteNew(s, name, f) ==
  IF Fails(s) THEN [s |-> OneLess(IF s.disk[name] = NoFile THEN Put(s, name, Part) ELSE s),
                    err |-> "io"]
  ELSE IF s.disk[name] # NoFile THEN [s |-> OneLess(s), err |-> "exists"]
  ELSE [s |-> OneLess(Put(s, name, f)), err |-> "none"]

PutFile(s, name, q) ==
  LET first   == WriteNew(s, name, LinesFile(q))
      looked  == OneLess(first.s)
      cleared == OneLess(Put(looked, name, NoFile))
  IN IF first.err # "exists" THEN first
     ELSE IF Fails(first.s) \/ s.disk[name].kind # "seq" THEN [s |-> looked, err |-> "type"]
     ELSE IF Fails(looked) THEN [s |-> OneLess(looked), err |-> "io"]
     ELSE WriteNew(cleared, name, LinesFile(q))

AddFile(s, name, q) ==
  IF s.disk[name] = NoFile
  THEN IF Fails(s) THEN [s |-> OneLess(s), err |-> "io"]
                   ELSE WriteNew(OneLess(s), name, LinesFile(q))
  ELSE IF Fails(s) THEN [s |-> OneLess(IF s.disk[name].kind = "seq" THEN Put(s, name, Part)
                                                                     ELSE s),
                         err |-> "io"]
  ELSE IF s.disk[name].kind # "seq" THEN [s |-> OneLess(OneLess(s)), err |-> "type"]
  ELSE [s |-> OneLess(Put(s, name, LinesFile(DataLines(s.disk[name]) \o q))),
        err |-> "none"]

\* STV writes without a look at the status: to a name in use nothing, and what
\* it says of that depends on the drive.
SaveFile(s, name, v) ==
  LET try == WriteNew(s, name, SavedFile(v))
  IN [try EXCEPT !.err = IF @ = "exists" /\ s.guess THEN "none" ELSE @]

\* A DOS command that the drive carries out, or refuses
Dos(s, refused, done) ==
  IF Fails(s) THEN [s |-> OneLess(s), err |-> "io"]
  ELSE IF refused THEN [s |-> OneLess(s), err |-> "dos"]
  ELSE [s |-> OneLess(done), err |-> "none"]

DeleteFile(s, name) == Dos(s, FALSE, Put(s, name, NoFile))

RenameFile(s, old, new) ==
  IF old = new THEN [s |-> s, err |-> "name"]
  ELSE Dos(s, s.disk[old] = NoFile \/ s.disk[new] # NoFile,
           Put(Put(s, new, s.disk[old]), old, NoFile))

CopyFile(s, old, new) ==
  IF old = new THEN [s |-> s, err |-> "name"]
  ELSE IF Fails(s) \/ s.disk[old] = NoFile THEN [s |-> OneLess(s), err |-> "missing"]
  ELSE IF s.left = 1 /\ s.disk[new] = NoFile
  THEN [s |-> OneLess(OneLess(Put(s, new, Part))), err |-> "io"]
  ELSE Dos(OneLess(s), s.disk[new] # NoFile, Put(OneLess(s), new, s.disk[old]))

-----------------------------------------------------------------------------
\* Running.  Eval leaves the value of an expression in s.val, Script the last
\* value of a program in s.last, and From passes an item on to stage k.

RECURSIVE Eval(_, _, _), EvalAll(_, _, _), Script(_, _, _), Stmts(_, _, _)
RECURSIVE From(_, _, _, _), Each(_, _, _, _), Gen(_, _, _, _, _), Records(_, _, _, _, _, _)

\* The values of a list of expressions, after those in s.args
Evaluated(s, t) == [t EXCEPT !.args = Append(s.args, t.val)]
EvalAll(s, list, at) ==
  IF list = <<>> \/ ~s.ok THEN s
  ELSE EvalAll(Evaluated(s, Eval(s, list[1], at)), Tail(list), at)

\* A list of expressions evaluated for an operation that needs numbers, or not
ArgsOf(s, t) == [s |-> [t EXCEPT !.args = s.args], v |-> t.args]
Operands(s, list, at) == ArgsOf(s, EvalAll([s EXCEPT !.args = <<>>], list, at))

\* An operation on o, its operands
EvalScript(s, t) ==
  [t EXCEPT !.val = IF t.last = <<>> THEN Bool(FALSE) ELSE t.last[1], !.last = s.last]
EvalList(o) == Value(o.s, Arr(o.v))
EvalProp(t, name) ==
  LET q == Props(t.val, name) IN Value(t, IF q = <<>> THEN Bool(FALSE) ELSE q[1])
EvalIndex(o) ==
  LET n == ToU16(o.v[2])
  IN IF ~o.s.ok THEN o.s
     ELSE IF ~Numeric(o.v[2]) THEN Error(o.s)
     ELSE Value(o.s, IF o.v[1][1] = "arr" /\ n < Len(o.v[1][2])
                     THEN o.v[1][2][n + 1] ELSE Bool(FALSE))
EvalRange(o) ==
  IF ~o.s.ok THEN o.s
  ELSE IF ~Numeric(o.v[1]) \/ ~Numeric(o.v[2]) THEN Error(o.s)
  ELSE Value(o.s, Arr(FromTo(ToU16(o.v[1]), ToU16(o.v[2]))))
EvalBinary(op, o, a, b) ==
  IF ~o.s.ok THEN o.s
  ELSE IF op \in {"=", "!="} THEN Value(o.s, Bool((a = b) = (op = "=")))
  ELSE IF ~Numeric(a) \/ ~Numeric(b) THEN Error(o.s)
  ELSE Value(o.s, Bool(Compare(op, ToU16(a), ToU16(b))))
EvalInfix(op, o) == IF op = ".." THEN EvalRange(o) ELSE EvalBinary(op, o, o.v[1], o.v[2])

Eval(s, e, at) ==
  IF ~s.ok THEN s
  ELSE CASE e[1] \in {"num", "str", "bool"} -> Value(s, e)
         [] e[1] = "at"  -> Value(s, AtValue(at))
         [] e[1] = "var" -> Value(s, IF e[2] \in DOMAIN s.vars THEN s.vars[e[2]]
                                                               ELSE Bool(FALSE))
         [] e[1] = "script" -> EvalScript(s, Script(s, e[2], at))
         [] e[1] = "list"   -> EvalList(Operands(s, e[2], at))
         [] e[1] = "prop"   -> EvalProp(Eval(s, e[2], at), e[3])
         [] e[1] = "index"  -> EvalIndex(Operands(s, <<e[2], e[3]>>, at))
         [] e[1] = "op"     -> EvalInfix(e[2], Operands(s, <<e[3], e[4]>>, at))

\* Each of the values goes on to stage k.
Each(s, pipe, k, values) ==
  IF values = <<>> \/ ~s.ok THEN s
  ELSE Each(From(s, pipe, k, <<values[1]>>), pipe, k, Tail(values))

Gen(s, pipe, k, i, n) ==
  IF i > n \/ ~s.ok THEN s
  ELSE Gen(From(s, pipe, k, <<Num(i)>>), pipe, k, i + 1, n)

\* The records of a listing are read one by one, when their turn comes.
Records(s, kind, pipe, k, i, n) ==
  IF i > n \/ ~s.ok THEN s
  ELSE Records(From(s, pipe, k, <<Record(s, kind, i)>>), kind, pipe, k, i + 1, n)

\* The count of items that a stage that counts has seen: one more, if there is
\* room for its state.
Counted(s, k) ==
  IF k \notin DOMAIN s.col.states /\ Cardinality(DOMAIN s.col.states) >= StageStates
  THEN Error(s)
  ELSE LET seen == IF k \in DOMAIN s.col.states THEN s.col.states[k].seen ELSE 0
           args == IF k \in DOMAIN s.col.states THEN s.col.states[k].args ELSE s.args
       IN IF ~(\A i \in DOMAIN args : Numeric(args[i]))
          THEN Error(s)
          ELSE [s EXCEPT !.col.states =
                 [j \in DOMAIN @ \cup {k} |->
                    IF j = k THEN [seen |-> seen + 1, args |-> args] ELSE @[j]]]

Top(s, pipe, k, item) ==
  LET t    == Counted(s, k)
      st   == t.col.states[k]
      skip == IF Len(st.args) > 1 THEN ToU16(st.args[2]) ELSE 0
  IN IF item = <<>> THEN s
     ELSE IF ~t.ok \/ st.args = <<>> THEN Error(s)
     ELSE IF st.seen <= skip \/ st.seen - skip > ToU16(st.args[1]) THEN t
     ELSE From(t, pipe, k + 1, item)

More(s, pipe, k, item) ==
  LET t     == Counted(s, k)
      st    == t.col.states[k]
      every == IF st.args = <<>> THEN 20 ELSE ToU16(st.args[1])
  IN IF item = <<>> THEN s
     ELSE IF ~t.ok \/ Len(st.args) > 1 \/ every = 0 THEN Error(s)
     ELSE From([t EXCEPT !.pause = @ \/ st.seen % every = 0], pipe, k + 1, item)

Sel(s, pipe, k, item) ==
  LET found == [i \in DOMAIN s.args |-> Props(item[1], s.args[i][2])]
  IN IF s.args = <<>> \/ \E i \in DOMAIN s.args : s.args[i][1] # "str" THEN Error(s)
     ELSE IF item = <<>> \/ \E i \in DOMAIN found : found[i] = <<>> THEN s
     ELSE IF Len(s.args) = 1 THEN Each(s, pipe, k + 1, Expanded(found[1][1]))
     ELSE From(s, pipe, k + 1,
               <<Obj([i \in DOMAIN found |-> <<s.args[i][2], found[i][1]>>])>>)

\* A listing: its records to the scratch, and then each of them on
Listing(s, kind, pipe, k, records) ==
  Records(Scratched(s, [i \in DOMAIN records |-> <<kind, records[i]>>]),
          kind, pipe, k + 1, 1, Len(records))

\* The result of a command that runs as a whole
Result(s, pipe, k, v) ==
  IF k < Len(pipe) THEN Each(s, pipe, k + 1, Expanded(v)) ELSE From(s, pipe, k + 1, <<v>>)

\* LDV: within a pipeline the values of an array are items.  A file that is not
\* there is an empty one, which is no value.
Load(s, pipe, k) ==
  LET v == SavedValue(s.disk, s.args[1][2])
      t == Scratched(OneLess(s), <<<<"rsv", Garbled>>>>)
  IN IF Len(s.args) # 1 \/ ~IsName(s.args[1]) THEN Error(s)
     ELSE IF Fails(s) /\ k = Len(pipe) THEN From(OneLess(s), pipe, k + 1, <<Bool(FALSE)>>)
     ELSE IF Fails(s) \/ v = <<>> THEN Error(s)
     ELSE Result(t, pipe, k, v[1])

\* The two names and the text that the commands that write have
Writes(s, id, item) ==
  CASE id = "PUT"  -> PutFile(s, s.args[2][2], TextLines(s.args[1]))
    [] id = "ADD"  -> AddFile(s, s.args[2][2], TextLines(s.args[1]))
    [] id = "STV"  -> IF item = <<>> THEN SaveFile(s, s.args[2][2], s.args[1])
                                     ELSE SaveFile(s, s.args[1][2], item[1])
    [] id = "DEL"  -> DeleteFile(s, s.args[1][2])
    [] id = "REN"  -> RenameFile(s, s.args[1][2], s.args[2][2])
    [] id = "COPY" -> CopyFile(s, s.args[1][2], s.args[2][2])

WriteNames(id, args, item) ==
  CASE id \in {"PUT", "ADD"} -> {2}
    [] id = "STV"  -> IF item = <<>> THEN {2} ELSE {1}
    [] id = "DEL"  -> {1}
    [] id \in {"REN", "COPY"} -> {1, 2}

Written(w, id, pipe, k) ==
  LET said == IF id \in {"PUT", "ADD", "COPY"} THEN Show(w.s, Str(id)) ELSE w.s
  IN IF w.err # "none" THEN Result(w.s, pipe, k, Bool(FALSE))
     ELSE IF id \in {"PUT", "ADD"} THEN said
     ELSE Result(said, pipe, k, Bool(TRUE))
Write(s, id, pipe, k, item) ==
  LET names   == WriteNames(id, s.args, item)
      spooled == IF id \in {"PUT", "ADD", "STV"}
                 THEN Scratched(s, <<<<"spool", Garbled>>>>) ELSE s
  IN IF \E i \in names : i > Len(s.args) \/ ~IsName(s.args[i]) THEN Error(s)
     ELSE IF id \in {"PUT", "ADD"} /\ ~IsText(s.args[1]) THEN Result(s, pipe, k, Bool(FALSE))
     ELSE Written(Writes(spooled, id, item), id, pipe, k)

Command(s, id, pipe, k, item) ==
  CASE id = "GEN"  -> IF s.args = <<>> \/ ~Numeric(s.args[1]) THEN Error(s)
                      ELSE Gen(s, pipe, k + 1, 1, ToU16(s.args[1]))
    [] id = "TAP"  -> IF item = <<>> THEN Error(s) ELSE From(s, pipe, k + 1, item)
    [] id = "PRT"  -> IF s.args # <<>> THEN Show(s, Arr(s.args)) ELSE Show(s, AtValue(item))
    [] id = "TOP"  -> Top(s, pipe, k, item)
    [] id = "MORE" -> More(s, pipe, k, item)
    [] id = "SEL"  -> Sel(s, pipe, k, item)
    [] id = "LST"  -> LET q == Listed(s.disk, s.args)
                      IN IF Fails(s) THEN Error(s)
                         ELSE Listing(OneLess(s), "dir", pipe, k,
                                      [i \in DOMAIN q |-> Entry(s.disk, q[i])])
    [] id = "CAT"  -> LET q == FileLines(s.disk, s.args[1][2])
                      IN IF Len(s.args) # 1 \/ ~IsName(s.args[1]) \/ Len(q) > CatLines
                            \/ Fails(s)
                         THEN Error(s)
                         ELSE Listing(OneLess(s), "text", pipe, k, q)
    [] id = "LDV"  -> Load(s, pipe, k)
    [] OTHER       -> Write(s, id, pipe, k, item)

\* Stage k, once o, its arguments, or t, its expression or script, is evaluated
CommandStage(o, pipe, k, item) ==
  IF ~o.s.ok THEN o.s
  ELSE Command([o.s EXCEPT !.args = o.v], pipe[k][2], pipe, k, item)

ExprStage(t, pipe, k) == Each(t, pipe, k + 1, Expanded(t.val))

FilterStage(t, pipe, k, item) ==
  IF t.ok /\ t.last # <<>> /\ Truthy(t.last[1]) THEN From(t, pipe, k + 1, item) ELSE t

ForeachStage(t, pipe, k) ==
  IF ~t.ok \/ t.last = <<>> THEN t ELSE Each(t, pipe, k + 1, Expanded(t.last[1]))

\* The end of a pipeline: an item is shown, kept or dropped.
AtEnd(s, item) ==
  CASE s.col.to = "print" -> Show(s, item[1])
    [] s.col.to = "keep"  -> [s EXCEPT !.col.items = Append(@, item[1])]
    [] OTHER -> s

\* From stage k of a pipeline on, with an item or (at the first) without.
From(s, pipe, k, item) ==
  IF ~s.ok THEN s
  ELSE IF k > Len(pipe) THEN AtEnd(s, item)
  ELSE CASE pipe[k][1] = "cmd"  -> CommandStage(Operands(s, pipe[k][3], item), pipe, k, item)
         [] pipe[k][1] = "expr" -> ExprStage(Eval(s, pipe[k][2], item), pipe, k)
         [] OTHER ->
              IF item = <<>> THEN s
              ELSE IF pipe[k][1] = "filter"
              THEN FilterStage(Script(s, pipe[k][2], item), pipe, k, item)
              ELSE ForeachStage(Script(s, pipe[k][2], item), pipe, k)

\* What a pipeline that is run to be kept, printed or dropped collects
Run(s, pipe, at, to) == From([s EXCEPT !.col = NoCollect(to)], pipe, 1, at)

Collected(items) ==
  IF items = <<>> THEN Bool(FALSE) ELSE IF Len(items) = 1 THEN items[1] ELSE Arr(items)

Assign(s, name, v) ==
  IF ~s.ok \/ (name \notin DOMAIN s.vars /\ Cardinality(DOMAIN s.vars) >= Slots)
  THEN Error(s)
  ELSE [s EXCEPT !.vars = [n \in DOMAIN @ \cup {name} |-> IF n = name THEN v ELSE @[n]],
                 !.last = <<v>>]

PrintsItems(pipe) == pipe[Len(pipe)][1] # "cmd" \/ pipe[Len(pipe)][2] # "PRT"

\* An assignment takes all that a pipeline collects; the table may be full.
SetPipeline(s, t, name) == Assign(Restore(t, s), name, Collected(t.col.items))

SetValue(t, name) == Assign(t, name, t.val)

\* A pipeline shows its items, or has them for last value if it is in a script
\* that has an item.
RunTo(pipe, at) == IF at # <<>> THEN "keep" ELSE IF PrintsItems(pipe) THEN "print" ELSE "drop"
RunPipeline(s, t) ==
  [Restore(t, s) EXCEPT
     !.last = IF t.col.items = <<>> THEN <<>> ELSE <<Collected(t.col.items)>>]

RunValue(t, at) ==
  LET p == IF at = <<>> /\ t.ok THEN ShowAll(t, Expanded(t.val)) ELSE t
  IN [p EXCEPT !.last = <<t.val>>]

Stmt(s, st, at) ==
  CASE st[1] = "set"  -> SetPipeline(s, Run(s, st[3], at, "keep"), st[2])
    [] st[1] = "let"  -> SetValue(Eval(s, st[3], at), st[2])
    [] st[1] = "pipe" -> RunPipeline(s, Run(s, st[2], at, RunTo(st[2], at)))
    [] st[1] = "expr" -> RunValue(Eval(s, st[2], at), at)

Stmts(s, prog, at) ==
  IF prog = <<>> \/ ~s.ok THEN s
  ELSE Stmts(Stmt(s, prog[1], at), Tail(prog), at)

\* A program within another leaves its own last value only.
Script(s, prog, at) == Stmts([s EXCEPT !.last = <<>>], prog, at)

-----------------------------------------------------------------------------
\* A session: lines typed one after another

Machine(vs, disk, scratch, pause, fault, guess) ==
  [vars |-> vs, disk |-> disk, scratch |-> scratch, left |-> fault, guess |-> guess,
   shown |-> <<>>, pause |-> pause, col |-> NoCollect("drop"), args |-> <<>>,
   val |-> Bool(FALSE), last |-> <<>>, ok |-> TRUE]

NoVars == [n \in {} |-> Bool(FALSE)]

\* The one command that a line is, when it is one
TheCommand(line) ==
  IF Len(line) = 1 /\ line[1][1] = "pipe" /\ Len(line[1][2]) = 1 /\ line[1][2][1][1] = "cmd"
  THEN line[1][2][1] ELSE <<"cmd", "none", <<>>>>

\* What the one who types knows of a file that a command has written, from what
\* was known before it and what it said: <<>>, nothing, after a failure.
Learnt(known, line, shown, ok) ==
  LET cmd  == TheCommand(line)
      id   == cmd[2]
      args == cmd[3]
      said == ok /\ <<"line", IF id \in {"PUT", "ADD", "COPY"} THEN Str(id) ELSE Bool(TRUE)>>
                     \in ToSet(shown)
      name(i) == args[i][2]
      text == IF args[1][1] = "list" THEN args[1][2] ELSE <<args[1]>>
      set(n, f) == [known EXCEPT ![n] = IF said THEN f ELSE <<>>]
      added(f) == CASE f = <<>>       -> f
                    [] f = <<NoFile>> -> <<LinesFile(text)>>
                    [] OTHER          -> <<LinesFile(DataLines(f[1]) \o text)>>
  IN CASE id = "PUT"  -> set(name(2), <<LinesFile(text)>>)
       [] id = "ADD"  -> set(name(2), added(known[name(2)]))
       [] id = "STV"  -> set(name(2), IF known[name(2)] = <<NoFile>> THEN <<SavedFile(args[1])>>
                                                                    ELSE <<>>)
       [] id = "DEL"  -> set(name(1), <<NoFile>>)
       [] id = "COPY" -> IF name(1) = name(2) THEN known
                         ELSE set(name(2), known[name(1)])
       [] id = "REN"  -> IF ~said THEN known
                         ELSE [known EXCEPT ![name(2)] = known[name(1)],
                                            ![name(1)] = <<NoFile>>]
       [] OTHER -> known

Init ==
  /\ mode \in Modes
  /\ ram = [vars |-> NoVars, shown |-> <<>>, ok |-> TRUE, pause |-> FALSE]
  /\ \E d \in Disks : store = [disk |-> d, scratch |-> <<>>]
  /\ todo = [typed |-> 0, line |-> <<>>, before |-> NoVars, disk |-> store.disk,
             known |-> [n \in DOMAIN store.disk |-> <<store.disk[n]>>], pause |-> FALSE]

TypeLine ==
  /\ todo.typed < MaxLines[mode]
  /\ \E line \in Lines[mode], fault \in Faults[mode], guess \in BOOLEAN :
       \E m \in {Stmts(Machine(ram.vars, store.disk, store.scratch, ram.pause, fault, guess),
                       line, <<>>)} :
          /\ ram' = [vars |-> m.vars, shown |-> m.shown, ok |-> m.ok, pause |-> m.pause]
          /\ store' = [disk |-> m.disk, scratch |-> m.scratch]
          /\ todo' = [typed |-> todo.typed + 1, line |-> line, before |-> ram.vars,
                      disk |-> store.disk, pause |-> ram.pause,
                      known |-> Learnt(todo.known, line, m.shown, m.ok)]
  /\ UNCHANGED mode

Next == TypeLine

-----------------------------------------------------------------------------
\* The meaning of a pipeline without its machine: each stage alone turns the
\* list of what comes to it into another, of items, lines, pauses, and perhaps
\* an error at its end.

Counts(stage) == stage[1] = "cmd" /\ stage[2] \in {"TOP", "MORE"}
PassOn == <<"cmd", "TAP", <<>>>>

\* What a stage makes of one item, or of the start of the pipeline
Made(t) ==
  [s |-> t, list |-> t.shown \o [i \in DOMAIN t.col.items |-> <<"item", t.col.items[i]>>]
                     \o IF t.ok THEN <<>> ELSE <<<<"error">>>>]
Alone(s, stage, isLast, item) ==
  Made(Run([s EXCEPT !.shown = <<>>], IF isLast THEN <<stage>> ELSE <<stage, PassOn>>,
           item, "keep"))

\* What one that counts makes of item n of them
Counting(stage, n, v) ==
  LET arg(i) == ToU16(stage[3][i])
      skip   == IF Len(stage[3]) = 2 THEN arg(2) ELSE 0
  IN IF stage[2] = "MORE"
     THEN IF n % (IF stage[3] = <<>> THEN 20 ELSE arg(1)) = 0 THEN <<<<"pause">>, <<"item", v>>>> ELSE <<<<"item", v>>>>
     ELSE IF n \in skip + 1 .. skip + arg(1) THEN <<<<"item", v>>>> ELSE <<>>

\* What a stage, n items of which it has had, makes of an entry of the list
OneOf(s, stage, isLast, room, e, n) ==
  IF e[1] \notin {"item", "start"} THEN [s |-> s, list |-> <<e>>]
  ELSE IF ~Counts(stage) THEN Alone(s, stage, isLast, Tail(e))
  ELSE [s |-> s, list |-> IF room THEN Counting(stage, n + 1, e[2]) ELSE <<<<"error">>>>]

RECURSIVE Along(_, _, _, _, _, _, _)
\* The list through a stage, after what it has made so far: [s, list]
Along(made, list, stage, isLast, room, n, sofar) ==
  IF list = <<>> \/ <<"error">> \in ToSet(made.list)
  THEN [s |-> made.s, list |-> sofar \o made.list]
  ELSE Along(OneOf(made.s, stage, isLast, room, list[1], n), Tail(list), stage, isLast, room,
             IF list[1][1] = "item" THEN n + 1 ELSE n, sofar \o made.list)

RECURSIVE Meaning(_, _, _)
Meaning(r, pipe, k) ==
  IF k > Len(pipe) THEN r
  ELSE Meaning(Along([s |-> r.s, list |-> <<>>], r.list, pipe[k], k = Len(pipe),
                     Cardinality({j \in 1 .. k : Counts(pipe[j])}) <= StageStates, 0, <<>>),
               pipe, k + 1)

MeaningOf(pipe) ==
  Meaning([s |-> Machine(todo.before, todo.disk, <<>>, FALSE, 99, FALSE),
           list |-> <<<<"start">>>>], pipe, 1)

Items(list) == LET q == SelectSeq(list, LAMBDA e : e[1] = "item")
               IN [i \in DOMAIN q |-> q[i][2]]

RECURSIVE Screen(_, _, _)
\* The lines and pauses that a list comes to, where its items are shown or not
Screen(list, pause, prints) ==
  IF list = <<>> THEN <<>>
  ELSE LET e == list[1] IN
       IF e[1] = "line" \/ (e[1] = "item" /\ prints)
       THEN <<<<"line", e[2]>>>> \o (IF pause THEN <<<<"pause">>>> ELSE <<>>)
            \o Screen(Tail(list), FALSE, prints)
       ELSE Screen(Tail(list), pause \/ e[1] = "pause", prints)

-----------------------------------------------------------------------------
\* Properties

TypeOK ==
  /\ Cardinality(DOMAIN ram.vars) <= Slots
  /\ DOMAIN store.disk = ToSet(Names)
  /\ ram.ok \in BOOLEAN

\* A pipeline that runs item by item shows and keeps what its stages, one after
\* another, make of whole lists: TOP and MORE count the items that come to them,
\* an error stops everything at its place, a variable is given the items.
PipelinesCompose ==
  LET st    == todo.line[1]
      pipe  == IF st[1] = "set" THEN st[3] ELSE st[2]
      full  == st[2] \notin DOMAIN todo.before /\ Cardinality(DOMAIN todo.before) >= Slots
  IN (/\ mode = "pipes"
      /\ Len(todo.line) = 1
      /\ todo.line \notin Interfering
      /\ st[1] \in {"set", "pipe"})
     => \A r \in {MeaningOf(pipe)} :
          /\ ram.shown = Screen(r.list, todo.pause, st[1] = "pipe" /\ PrintsItems(pipe))
          /\ ram.ok <=> <<"error">> \notin ToSet(r.list) /\ (st[1] = "set" => ~full)
          /\ ram.ok => store.disk = r.s.disk
          /\ ram.vars = IF st[1] = "set" /\ ram.ok
                        THEN [n \in DOMAIN r.s.vars \cup {st[2]} |->
                                IF n = st[2] THEN Collected(Items(r.list)) ELSE r.s.vars[n]]
                        ELSE IF ram.ok THEN r.s.vars ELSE ram.vars

\* The drive is as the commands said: a file that one reported to be written,
\* deleted, renamed or copied is so until another is about it, whatever fails,
\* and CAT and LDV show what is known to be in one.
FilesAsReported ==
  LET cmd  == TheCommand(todo.line)
      file == todo.known[cmd[3][1][2]]
      has(kind) == file # <<>> /\ file[1] # NoFile /\ file[1].data[1] = kind
  IN mode = "files" =>
       /\ \A n \in ToSet(Names) : todo.known[n] \in {<<>>, <<store.disk[n]>>}
       /\ (cmd[2] = "CAT" /\ ram.ok /\ has("lines"))
          => ram.shown = [i \in DOMAIN file[1].data[2] |-> <<"line", file[1].data[2][i]>>]
       /\ (cmd[2] = "LDV" /\ ram.ok /\ has("rsv"))
          => ram.shown \in {<<<<"line", Bool(FALSE)>>>>, <<<<"line", file[1].data[2]>>>>}

\* What docs/readyshell_rsv1_format.md says of a pipeline that ends in STV: the
\* file is an array of the values that came to it.
PipelineSaved ==
  LET pipe == todo.line[1][2]
      last == pipe[Len(pipe)]
      n    == last[3][1][2]
  IN (/\ mode = "save"
      /\ todo.line # <<>>
      /\ todo.disk[n] = NoFile)
     => store.disk[n] = SavedFile(Arr(Items(MeaningOf(Front(pipe)).list)))
=============================================================================
