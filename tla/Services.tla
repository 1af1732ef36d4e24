------------------------------ MODULE Services ------------------------------
(***************************************************************************)
(* The suite, as Documents, of the other programs: the launcher's parts    *)
(* that run on their own, tools for files, the shell, the calculator, the  *)
(* Ultimate's, the games.                                                  *)
(***************************************************************************)
EXTENDS Integers, Sequences, TLC

CONSTANTS
  Suite,   \* the programs to run
  Nothing  \* a model value, for what is not there

VARIABLES ram, store, todo, mode,
          program   \* whose behaviour it is

vars == <<ram, store, todo, mode, program>>

-----------------------------------------------------------------------------
\* Bank numbers 0..7; an REU of 2, 4 or 8 banks that hold any bytes.
SizeProbe == INSTANCE PhysProbe
  WITH W <- 8, Base <- 1, Byte <- {"5A", "C3", "00"}, Modes <- {2, 4, 8}

\* Directories of three entries, panes of two.
AFile(n, d) == [name |-> n, data |-> d]
DataBlocks == "x" :> 2 @@ "y" :> 3 @@ "part" :> 1
SomeDisks == {<<AFile("a", "x"), AFile("b", "y"), Nothing>>,
              <<Nothing, AFile("sfdup0", "x"), Nothing>>}
Files == INSTANCE SimpleFiles
  WITH Names <- {"a", "b"}, Temps <- <<"sfdup0", "sfdup1">>,
       Data <- {"x", "y"}, Part <- "part", NoFile <- Nothing,
       Blocks <- DataBlocks, Slots <- 3, MaxEntries <- 2, Disks <- SomeDisks,
       Modes <- {"calm", "faulty"}

\* A line of four, and a small board.
LineGame == INSTANCE Game2048
  WITH Rows <- 1, Cols <- 4, WIN_EXPONENT <- 4, MaxScore <- 20,
       Modes <- {"line"}
BoardGame == INSTANCE Game2048
  WITH Rows <- 2, Cols <- 2, WIN_EXPONENT <- 3, MaxScore <- 12,
       Modes <- {"board"}

\* The last cell of the larger board, and of the board with flags, is NoCell.
MineLevels == [beginner |-> [w |-> 3, h |-> 2, mines |-> 1],
               intermediate |-> [w |-> 4, h |-> 2, mines |-> 1]]
Mines == INSTANCE Deminer
  WITH Level <- MineLevels, Beginner <- "beginner", NoCell <- <<3, 1>>,
       Flags <- {}, Modes <- {"calm"}
FlagLevels == [beginner |-> [w |-> 3, h |-> 2, mines |-> 2]]
FlaggedMines == INSTANCE Deminer
  WITH Level <- FlagLevels, Beginner <- "beginner", NoCell <- <<2, 1>>,
       Flags <- {"flags"}, Modes <- {"flags"}

\* Two kinds of pieces on a board of four columns.
Stacker == INSTANCE Sidetris
  WITH BOARD_W <- 4, BOARD_H <- 3, Types <- {"O", "J"}, LINES_PER_LEVEL <- 1,
       MaxScore <- 200, Covered <- {<<1, 0>>, <<1, 1>>, <<2, 1>>},
       Modes <- {"play"}

\* Sources with a folder in a folder, a name that is too long, and files that have
\* the names of the archive and of a temporary one.  Archives that are whole, that
\* have a wrong sum, that were cut off, and that the reader does not take.
HostText(x) == [kind |-> "plain", text |-> x]
ZipMember(n, dir, method, sum, data) ==
  [name |-> n, dir |-> dir, method |-> method, sum |-> sum, data |-> data]
ZipWith(ms) ==
  [kind |-> "zip", members |-> ms,
   central |-> [i \in DOMAIN ms |-> [name |-> ms[i].name, dir |-> ms[i].dir,
                                     method |-> ms[i].method, sum |-> ms[i].sum]]]
NoData == HostText("none")
ZipNames == <<"d", "e", "x", "y", "long", "z.zip", ".uztmp00", ".uztmp01">>
ZipFolds == [i \in {ZipNames[k] : k \in DOMAIN ZipNames} |-> i]
SourceDisks ==
  {[dirs |-> {<<>>, <<"d">>, <<"d", "e">>},
    files |-> <<"x">> :> HostText("1") @@ <<"d", "y">> :> HostText("2")
              @@ <<"d", ".uztmp00">> :> HostText("3") @@ <<"d", "z.zip">> :> HostText("4")],
   [dirs |-> {<<>>, <<"d">>, <<"e">>},
    files |-> <<"e", "long">> :> HostText("1") @@ <<"d", "x">> :> HostText("2")]}
WholeZip == ZipWith(<<ZipMember(<<"d">>, TRUE, 0, NoData, NoData),
                      ZipMember(<<"d", "x">>, FALSE, 8, HostText("1"), HostText("1")),
                      ZipMember(<<"y">>, FALSE, 0, HostText("2"), HostText("2"))>>)
WrongSumZip == ZipWith(<<ZipMember(<<"x", "y">>, FALSE, 8, HostText("1"), HostText("1")),
                         ZipMember(<<"d", "y">>, FALSE, 8, HostText("1"), HostText("2"))>>)
CutZip == [WholeZip EXCEPT !.central = <<>>]
StrangeZip == ZipWith(<<ZipMember(<<"y">>, FALSE, 9, HostText("1"), HostText("1"))>>)
ArchiveDisks ==
  {[dirs |-> {<<>>, <<"d">>, <<"e">>},
    files |-> <<"z.zip">> :> WholeZip @@ <<"e", "z.zip">> :> WrongSumZip
              @@ <<"e", "x">> :> CutZip @@ <<"d", "long">> :> StrangeZip
              @@ <<"e", ".uztmp00">> :> HostText("3")]}
Zipping == INSTANCE UZip
  WITH NameOrder <- ZipNames, Fold <- ZipFolds, Unusable <- {"long"},
       Temps <- <<".uztmp00", ".uztmp01">>, Disks <- SourceDisks,
       ArchiveName <- "z.zip", ENTRIES_MAX <- 4, MaxFaults <- 2, Modes <- {"create"}
Unzipping == INSTANCE UZip
  WITH NameOrder <- ZipNames, Fold <- ZipFolds, Unusable <- {"long"},
       Temps <- <<".uztmp00", ".uztmp01">>, Disks <- ArchiveDisks,
       ArchiveName <- "z.zip", ENTRIES_MAX <- 3, MaxFaults <- 2, Modes <- {"extract"}

\* One data block or two or three, or a status only; the bytes up to their ends.
Amount(d, s) == [data |-> d, stat |-> s]
Replies == {<<Amount(0, 1)>>, <<Amount(1, 0), Amount(2, 1)>>,
            <<Amount(2, 0), Amount(2, 0), Amount(3, 1)>>}
Gateways == INSTANCE UciLink
  WITH Responses <- Replies, Cap <- 2, Commands <- 2, MaxLate <- 2, MaxErrors <- 1,
       Modes <- {"uzip", "readyirc", "setup", "launcher"}

\* An image in a folder and one in the root, another folder with a program of the
\* same name, files that are too long or of another kind, and a disk whose second
\* overlay is another one; slots of two units, banks of two slots.
PrgFile(addr, len, from) == [addr |-> addr, len |-> len, from |-> from]
ImageFiles == "a" :> PrgFile("app", 2, "a") @@ "big" :> PrgFile("app", 6, "big")
              @@ "odd" :> PrgFile("any", 1, "odd") @@ "o1" :> PrgFile("overlay", 2, "o1")
              @@ "o2" :> PrgFile("overlay", 3, "o2") @@ "o3" :> PrgFile("overlay", 1, "o3")
HostFolders == <<>> :> <<>> @@ <<"d">> :> ("a" :> PrgFile("app", 1, "other"))
               @@ <<"d", "i">> :> ImageFiles @@ <<"i">> :> ImageFiles
DriveFiles == [ImageFiles EXCEPT !["o2"] = PrgFile("overlay", 1, "drive")]
Dep(n, o, f) == [name |-> n, ord |-> o, off |-> f]
Dependencies ==
  {<<Dep("o1", 0, 0), Dep("o2", 0, 2), Dep("o3", 1, 0)>>, <<>>,
   <<Dep("o1", 0, 0), Nothing>>, <<Dep("o1", 0, 0)>>}
DmaLoading == INSTANCE DmaLoad
  WITH Paths <- {<<>>, <<"i">>, <<"d", "i">>, <<"d", "j">>}, Host <- HostFolders,
       Disk <- DriveFiles, Apps <- {"a", "big", "odd", "none"},
       DepLines <- Dependencies, Bad <- Nothing, OVERLAYS <- 3, AppMax <- 4, Slot <- 2,
       ClipMax <- 3, BankSize <- 4, AppBank <- 1, Records <- {4, 2},
       Banks <- {{2, 3}, {2}}, MaxFaults <- 1, MaxJobs <- 2, Modes <- {"tcp", "bare"}

\* What the theorems about these three components assume of their constants
ASSUME ServicesAssumption ==
  /\ SizeProbe!ProbeAssumption
  /\ Gateways!UciAssumption
  /\ DmaLoading!DmaAssumption /\ DmaLoading!SlotsApart
  /\ Files!CalmAssumption /\ Files!PiecesShort

\* Lines that hold every form there is, with one token changed and with every
\* allocation that can fail; lines of four characters.
NumExpr == <<"num">>
VarExpr == <<"var">>
AtExpr  == <<"@">>
StrExpr == <<"str">>
ExprStmt(e)      == <<"expr", e>>
CmdStage(args)   == <<"cmd", args>>
PipeStmt(stages) == <<"pipe", stages>>
ParsedTrees ==
  {<<>>,
   <<ExprStmt(<<"array", <<NumExpr, <<"range", NumExpr, VarExpr>>, StrExpr>>>>)>>,
   <<<<"assign expr", <<"cmp", <<"cmp", NumExpr, AtExpr>>,
                               <<"range", <<"index", VarExpr, NumExpr>>, NumExpr>>>>>>,
     ExprStmt(<<"prop", <<"prop", AtExpr>>>>)>>,
   <<ExprStmt(<<"index", <<"prop", <<"array", <<NumExpr, VarExpr>>>>>>,
                         <<"array", <<NumExpr, NumExpr>>>>>>)>>,
   <<PipeStmt(<<CmdStage(<<NumExpr, <<"array", <<NumExpr, StrExpr>>>>>>),
                ExprStmt(<<"cmp", AtExpr, NumExpr>>)>>)>>,
   <<<<"assign pipe", <<ExprStmt(NumExpr),
                        <<"?", <<ExprStmt(AtExpr), <<"assign expr", AtExpr>>>>>>,
                        CmdStage(<<>>)>>>>,
     PipeStmt(<<CmdStage(<<VarExpr>>)>>)>>,
   <<PipeStmt(<<<<"%", <<PipeStmt(<<CmdStage(<<StrExpr, AtExpr>>)>>),
                         ExprStmt(<<"script", <<>>>>)>>>>, <<"?", <<>>>>>>)>>,
   <<ExprStmt(<<"cmp", <<"range", <<"script", <<ExprStmt(NumExpr)>>>>, NumExpr>>,
                       <<"range", <<"index", <<"range", NumExpr, NumExpr>>,
                                             <<"cmp", NumExpr, NumExpr>>>>,
                                  NumExpr>>>>)>>}
ParsedTokens == {"num", "var", "id", "=", ",", "(", ")", "[", "]", ".", "..", "cmp",
                 "|", "?", ";", "nl"}
ParsedChars == {" ", "nl", "\"", "\\", "1", "a", "$", ".", "=", "<", "!", "|"}
Parsing == INSTANCE ShellParse
  WITH MaxTokens <- 18, Chars <- ParsedChars, MaxChars <- 4, Trees <- ParsedTrees,
       Changes <- ParsedTokens, Heap <- 0 .. 11 \cup {99}, Modes <- {"lex", "parse"}

\* One drive with a text, a program, a saved value and a name not in use; two
\* variables, two stages that count.
TheTwoLines == <<<<"str", "x">>, <<"str", "y">>>>
ShellDisk == "a" :> [kind |-> "seq", data |-> <<"lines", TheTwoLines>>]
             @@ "b" :> Nothing @@ "p" :> [kind |-> "prg", data |-> <<"part">>]
             @@ "s" :> [kind |-> "seq", data |-> <<"rsv", <<"arr", TheTwoLines>>>>]
Cmd(id, args) == <<"cmd", id, args>>
Nu(n) == <<"num", n>>
St(x) == <<"str", x>>
Item  == <<"at">>
Piped(stages)   == <<<<"pipe", stages>>>>
Given(v, stages) == <<<<"set", v, stages>>>>
OneCmd(id, args) == Piped(<<Cmd(id, args)>>)
Two(a, b) == <<"list", <<a, b>>>>
Three == Cmd("GEN", <<Nu(3)>>)
ShellInterfering ==
  {Piped(<<Cmd("LST", <<>>), <<"each", OneCmd("LST", <<<<"prop", Item, "NAME">>>>)>>>>),
   Piped(<<Cmd("CAT", <<St("a")>>), Cmd("PUT", <<Item, St("b")>>)>>),
   Piped(<<Three, <<"each", <<<<"let", "v", Item>>>>>>, <<"each", <<<<"expr", <<"var", "v">>>>>>>>>>)}
ShellPipes ==
  {Piped(<<Cmd("LST", <<>>), Cmd("SEL", <<St("NAME")>>), Cmd("MORE", <<Nu(1)>>),
           Cmd("TOP", <<Nu(1), Nu(1)>>)>>),
   Piped(<<Cmd("LST", <<St("a")>>), Cmd("SEL", <<St("TYPE"), St("NAME")>>)>>),
   Piped(<<Three, <<"filter", <<<<"expr", <<"op", ">", Item, Nu(1)>>>>>>>>,
           <<"each", <<<<"pipe", <<Cmd("PRT", <<>>)>>>>, <<"expr", Item>>>>>>>>),
   Given("v", <<Three, Cmd("TOP", <<Nu(1), Nu(1)>>)>>),
   Given("v", <<Three, Cmd("MORE", <<Nu(3)>>)>>),
   Given("w", <<Cmd("CAT", <<St("a")>>), <<"filter", <<<<"expr", <<"op", "=", Item, St("z")>>>>>>>>>>),
   Piped(<<Three, Cmd("TOP", <<Nu(2)>>), Cmd("MORE", <<>>), Cmd("TOP", <<Nu(1)>>)>>),
   Piped(<<Three, <<"each", <<<<"expr", <<"op", "..", Item, Nu(2)>>>>>>>>,
           Cmd("MORE", <<Nu(2)>>), Cmd("TOP", <<Nu(3), Nu(1)>>)>>),
   Piped(<<<<"expr", <<"var", "v">>>>, <<"each", <<<<"expr", Two(Item, Item)>>>>>>,
           Cmd("TOP", <<Nu(3)>>)>>),
   Piped(<<<<"expr", Two(Nu(1), St("x"))>>,
           <<"each", <<<<"expr", <<"index", Two(Nu(5), Nu(6)), Item>>>>>>>>>>),
   Piped(<<Three, <<"each", Piped(<<Cmd("PRT", <<Item>>)>>)>>>>),
   Piped(<<Three, Cmd("TOP", <<Nu(1)>>), Cmd("ADD", <<St("y"), St("a")>>)>>),
   Piped(<<Cmd("LDV", <<St("s")>>), Cmd("TOP", <<Nu(1)>>)>>),
   OneCmd("LDV", <<St("s")>>), OneCmd("LDV", <<St("a")>>),
   <<<<"let", "w", <<"script", OneCmd("CAT", <<St("a")>>)>>>>>>,
   <<<<"let", "u", Nu(1)>>, <<"expr", <<"var", "u">>>>>>,
   Piped(<<Three, Cmd("PRT", <<Item, St("x")>>), Cmd("TAP", <<>>)>>)}
ShellFiles ==
  {OneCmd("PUT", <<St("x"), St("a")>>), OneCmd("PUT", <<Two(St("y"), St("y")), St("b")>>),
   OneCmd("PUT", <<St("x"), St("p")>>), OneCmd("ADD", <<St("y"), St("a")>>),
   OneCmd("ADD", <<St("y"), St("b")>>), OneCmd("STV", <<Nu(1), St("b")>>),
   OneCmd("STV", <<Nu(1), St("s")>>), OneCmd("DEL", <<St("a")>>),
   OneCmd("REN", <<St("a"), St("b")>>), OneCmd("REN", <<St("s"), St("a")>>),
   OneCmd("COPY", <<St("a"), St("b")>>), OneCmd("COPY", <<St("b"), St("a")>>),
   OneCmd("CAT", <<St("b")>>), OneCmd("CAT", <<St("a")>>), OneCmd("LDV", <<St("b")>>)}
ShellSaves ==
  {Piped(<<Cmd("LST", <<>>), Cmd("TOP", <<Nu(2)>>), Cmd("STV", <<St("b")>>)>>)}
ShellLines  == [pipes |-> ShellPipes \cup ShellInterfering, files |-> ShellFiles, save |-> ShellSaves]
ShellTyped  == [pipes |-> 3, files |-> 3, save |-> 1]
ShellFaults == [pipes |-> {99}, files |-> {0, 1, 2, 3, 99}, save |-> {99}]
ShellNames  == <<"a", "b", "p", "s">>
ShellDisks  == {ShellDisk}
Shelled == INSTANCE Shell
  WITH Lines <- ShellLines, MaxLines <- ShellTyped, Interfering <- ShellInterfering,
       Slots <- 2, StageStates <- 2, CatLines <- 4, Names <- ShellNames, NoFile <- Nothing,
       Disks <- ShellDisks, Faults <- ShellFaults, Modes <- {"pipes", "files", "save"}

\* Calc Plus: expressions of two operators with the parentheses they need, functions,
\* lines of four characters, and what is typed.
Num(n)          == <<"num", n>>
Neg(t)          == <<"neg", t>>
Par(t)          == <<"par", t>>
Bin(op, l, r)   == <<"bin", op, l, r>>
Call(f, t)      == <<"call", f, t>>
CalcOps         == {"+", "-", "*", "/", "^"}
Binding(op)     == CASE op = "^" -> 3 [] op \in {"*", "/"} -> 2 [] OTHER -> 1
OnLeft(op, t)   == IF Binding(t[2]) < Binding(op) \/ (t[2] = "^" /\ op = "^")
                   THEN Par(t) ELSE t
OnRight(op, t)  == IF Binding(t[2]) <= Binding(op) THEN Par(t) ELSE t
CalcPairs(lefts) ==
  {Bin(op, l, r) : op \in CalcOps, l \in lefts, r \in {Num(2), Neg(Num(2))}}
  \cup {Bin(op, l, r) : op \in CalcOps \ {"^"}, l \in lefts, r \in {Num(3), Num(0)}}
CalcTrees ==
  LET pairs == CalcPairs({Num(2), Num(3), <<"var", "a">>, Neg(Num(2))})
      goes  == CalcPairs({<<"prev">>})
      diff  == Bin("-", Num(2), Num(3))
      A     == <<"var", "a">>
  IN  pairs \cup goes
      \cup {Bin(op, OnLeft(op, t), Num(2)) : op \in CalcOps, t \in pairs}
      \cup {Bin(op, Num(3), OnRight(op, t)) : op \in CalcOps \ {"^"}, t \in pairs}
      \cup {Bin(op, t, Num(3)) : op \in {"+", "-"}, t \in goes}
      \cup {Bin("^", Num(2), t) : t \in {Bin("^", Num(3), Num(2)), Par(diff)}}
      \cup {Call(f, t) : f \in {"abs", "sgn", "int"}, t \in {Num(2), diff, A, Neg(A)}}
      \cup {Call("sqr", t) : t \in {Bin("+", Num(2), Num(2)), diff}}
      \cup {Call("cos", t) : t \in {<<"pi">>, Num(180)}}
      \cup {Neg(Call("abs", diff)), Neg(Par(diff)), Bin("+", Call("abs", diff), Num(2)),
            Bin("+", Num(2), Call("abs", diff)), Bin("-", Num(2), Neg(Par(diff)))}
CalcLines ==
  UNION {[1 .. n -> {"2", "+", "*", "(", ")", "$", "a", "abs", " "}] : n \in 1 .. 4}
CalcTexts ==
  LET words == {<<"store", "$", "a">>, <<"store", "$", "b">>,
                <<"$", "a", "=", "5", "/", "2">>, <<"$", "b", "=", "$", "a">>,
                <<"3">>, <<"$", "a">>, <<";", "-", "2">>}
  IN  [hist |-> {<<"7">>, <<"/">>, <<"/", "2">>},
       vars |-> UNION {{SubSeq(w, 1, k) : k \in 1 .. Len(w)} : w \in words},
       edit |-> {<<"2">>, <<"*">>, <<"2", "*">>, <<"*", "2">>, <<"2", "2">>, <<"2", ".">>}]
CalcClips  == [hist |-> {<<>>}, vars |-> {<<>>},
               edit |-> {<<>>, <<" ", "2", "*", "2", " ", "=", "4">>}]
CalcTimes  == [tree |-> 1, line |-> 1, hist |-> 4, vars |-> 3, edit |-> 2]
CalcPi     == <<22, 7>>
CalcCosine == CalcPi :> <<-1, 1>> @@ <<180, 1>> :> <<-3, 5>> @@ <<121, 2205>> :> <<1, 1>>
CalcBases  == {<<5, 2>>, <<-3, 4>>, <<150, 1>>}
Calculator == INSTANCE CalcPlus
  WITH HISTORY_MAX <- 2, EXPR_MAX_LEN <- 6, EDITOR_INNER_W <- 2, EVAL_STACK_MAX <- 8,
       VAR_MAX <- 1, FP_MAX_ABS <- 1600, MaxPlain <- 100, Places <- 3, Names <- {"a", "b"},
       Pi <- CalcPi, Cosine <- CalcCosine, Trees <- CalcTrees, AnyLines <- CalcLines,
       Bases <- CalcBases, Texts <- CalcTexts, MaxLines <- CalcTimes,
       OtherClips <- CalcClips, Modes <- {"tree", "line", "hist", "vars", "edit"}

\* The clipboard manager: five banks, of which one at least is not the clipboard's.
Y(c) == <<"byte", c>>
ClipTexts ==
  [list |-> UNION {[1 .. n -> {<<Y("a")>>, <<Y("b"), Y("a")>>}] : n \in 0 .. 3},
   view |-> {<<t>> : t \in UNION {[1 .. n -> {Y("a"), Y("return")}] : n \in 0 .. 7}},
   load |-> {<<>>, <<<<Y("a"), Y("b"), Y("c")>>, <<>>>>,
             <<<<Y("a")>>, <<Y("b")>>, <<Y("a"), Y("b")>>>>, <<<<Y("a")>>>>},
   save |-> {<<<<Y("b"), Y("c"), Y("d")>>, <<Y("a")>>>>, <<<<Y("a")>>, <<>>>>}]
Seq1(bytes)  == [type |-> "seq", bytes |-> bytes]
ClipBundle   == <<<<"hdr", 2>>, <<"rec", 3>>, Y("x"), Y("y"), Y("z"), <<"rec", 1>>, Y("w")>>
ClipFiles ==
  {Seq1(ClipBundle), [type |-> "prg", bytes |-> ClipBundle],
   Seq1(<<<<"hdr", 3>>, <<"rec", 3>>, Y("x"), Y("y"), Y("z"), <<"rec", 1>>, Y("w")>>),
   Seq1(<<<<"hdr", 2>>, <<"rec", 1>>, Y("x"), <<"rec", 0>>>>), Seq1(<<<<"hdr", 0>>>>),
   Seq1(<<<<"hdr", 3>>, <<"rec", 1>>, Y("x"), <<"rec", 1>>, Y("y"), <<"rec", 1>>, Y("z")>>),
   Seq1([k \in 1 .. 8 |-> Y("x")])}
ClipNames == <<"p", "q", "r">>
ClipDisk(f, g, h) == [n \in {"p", "q", "r"} |-> CASE n = "p" -> f [] n = "q" -> g [] OTHER -> h]
ClipEmpty  == ClipDisk(Nothing, Nothing, Nothing)
ClipNone   == {8 :> ClipEmpty @@ 9 :> ClipEmpty}
ClipDisks  ==
  [list |-> ClipNone, view |-> ClipNone,
   load |-> {8 :> ClipDisk(Seq1(ClipBundle), Seq1(<<>>), f) @@ 9 :> ClipDisk(f, Nothing, Nothing)
               : f \in ClipFiles},
   save |-> {8 :> ClipDisk(Nothing, Seq1(ClipBundle), Nothing) @@ 9 :> ClipEmpty}]
ClipFaults == [list |-> {99}, view |-> {99}, load |-> 0 .. 6 \cup {99}, save |-> 0 .. 6 \cup {99}]
ClipSteps  == [list |-> 3, view |-> 0, load |-> 1, save |-> 2]
ClipCopied == {<<Y("c")>>}
ClipBoard == INSTANCE ClipManager
  WITH CLIP_MAX_ITEMS <- 3, CLIP_MAX_BYTES <- 7, IO_BUF_SIZE <- 2, MAX_DIR_ENTRIES <- 2,
       VIEW_TEXT_COLS <- 2, VIEW_TEXT_LINES <- 2, BankIds <- 1 .. 5, Names <- ClipNames,
       NoFile <- Nothing, Clips <- ClipTexts, Copied <- ClipCopied, Disks <- ClipDisks,
       Faults <- ClipFaults, MaxSteps <- ClipSteps, Modes <- {"list", "view", "load", "save"}

\* The launcher's catalog and menu: four apps at most, four rows.
MenuNumber == [n \in {"0", "1", "3", "7", "8", "9", "12", "65544"} |->
               CASE n = "0" -> 0 [] n = "1" -> 1 [] n = "3" -> 3 [] n = "7" -> 7 [] n = "8" -> 8
                 [] n = "9" -> 9 [] n = "12" -> 12 [] OTHER -> 65544]
MenuPrgError == "" :> "prg" @@ "a.prg" :> "prg ext" @@ "a,p" :> "prg"
MenuResource ==
  "" :> [set |-> "none", dep |-> FALSE] @@ "+" :> [set |-> "none", dep |-> TRUE]
  @@ "readybasic+" :> [set |-> "readybasic", dep |-> TRUE]
  @@ "readyshell" :> [set |-> "readyshell", dep |-> FALSE]
MenuApp(drive, prg, slot, res) ==
  [drive |-> drive, prg |-> prg, label |-> prg, slot |-> slot, res |-> res,
   desc |-> <<"text", prg>>]
MenuCatalog(all, first, apps) ==
  [name |-> "readyos", boot |-> "precog", all |-> all, first |-> first, apps |-> apps]
MenuApps == <<MenuApp("9", "a", "1", ""), MenuApp("65544", "b", "", ""), MenuApp("8", "c", "1", "")>>
MenuCatalogs ==
  {MenuCatalog(FALSE, "b", MenuApps), MenuCatalog(FALSE, "zz", MenuApps),
   MenuCatalog(TRUE, "zz", SubSeq(MenuApps, 1, 2)), MenuCatalog(TRUE, "a", MenuApps),
   MenuCatalog(FALSE, "", <<MenuApp("8", "readybasic", "", "readybasic+"),
                            MenuApp("8", "readyshell", "3", ""), MenuApp("8", "a", "3", "readyshell"),
                            MenuApp("8", "b", "", "")>>),
   MenuCatalog(FALSE, "", SubSeq(MenuApps, 1, 1)), MenuCatalog(FALSE, "", MenuApps \o MenuApps)}
MenuLayouts == {{}, 1 .. 20, {9, 10, 12}}
MenuManifests ==
  {<<<<"entry", <<"8", "m", "label m", "3">>>>, <<"blank">>, <<"text", "m">>>>,
   <<<<"entry", <<"8", "a", "label a">>>>, <<"text", "m">>>>,
   <<<<"entry", <<"8", "m", "label m">>>>, <<"text", "m">>, <<"text", "more">>>>}
Menu == INSTANCE LauncherMenu
  WITH disk <- mode, MAX_APPS <- 5, APPS_HEIGHT <- 4, Number <- MenuNumber, PrgError <- MenuPrgError,
       Resource <- MenuResource, Slots <- {1, 3}, Banks <- 3, Catalogs <- MenuCatalogs,
       Layouts <- MenuLayouts, Manifests <- MenuManifests, MaxSteps <- 2

\* Apps that keep one piece or two, two that keep as much, one of another schema.
KeptBy(segs, schema) == [segs |-> segs, schema |-> schema]
ResumingApps == [notes |-> KeptBy(<<2, 1>>, 1), list |-> KeptBy(<<1, 1>>, 1),
                 viewer |-> KeptBy(<<2>>, 1), chat |-> KeptBy(<<3>>, 2)]
Resuming == INSTANCE ResumeState
  WITH App <- ResumingApps, Checkers <- {"notes", "list"}, Tokens <- {1, 2},
       Banks <- {1, 2}, TailSize <- 3, MaxSaves <- 2, NoApp <- Nothing,
       Modes <- {"resume"}

-----------------------------------------------------------------------------
Init ==
  /\ program \in Suite
  /\ \/ program = "probe" /\ SizeProbe!Init
     \/ program = "simplefiles" /\ Files!Init
     \/ program = "game2048" /\ (LineGame!Init \/ BoardGame!Init)
     \/ program = "deminer" /\ (Mines!Init \/ FlaggedMines!Init)
     \/ program = "sidetris" /\ Stacker!Init
     \/ program = "uzip" /\ (Zipping!Init \/ Unzipping!Init)
     \/ program = "uci" /\ Gateways!Init
     \/ program = "dma" /\ DmaLoading!Init
     \/ program = "parse" /\ Parsing!Init
     \/ /\ program \in {"shell", "shellsave"} /\ Shelled!Init
        /\ mode = "save" <=> program = "shellsave"
     \/ program = "calcplus" /\ Calculator!Init
     \/ program = "clipmgr" /\ ClipBoard!Init
     \/ program = "menu" /\ Menu!Init
     \/ program = "resume" /\ Resuming!Init

Next ==
  \/ program = "probe" /\ SizeProbe!Next /\ UNCHANGED program
  \/ program = "simplefiles" /\ Files!Next /\ UNCHANGED program
  \/ /\ program = "game2048"
     /\ \/ mode = "line" /\ LineGame!Next
        \/ mode = "board" /\ BoardGame!Next
     /\ UNCHANGED program
  \/ /\ program = "deminer"
     /\ \/ mode # "flags" /\ Mines!Next
        \/ mode = "flags" /\ FlaggedMines!Next
     /\ UNCHANGED program
  \/ program = "sidetris" /\ Stacker!Next /\ UNCHANGED program
  \/ /\ program = "uzip"
     /\ \/ mode = "create" /\ Zipping!Next
        \/ mode = "extract" /\ Unzipping!Next
     /\ UNCHANGED program
  \/ program = "uci" /\ Gateways!Next /\ UNCHANGED program
  \/ program = "dma" /\ DmaLoading!Next /\ UNCHANGED program
  \/ program = "parse" /\ Parsing!Next /\ UNCHANGED program
  \/ program \in {"shell", "shellsave"} /\ Shelled!Next /\ UNCHANGED program
  \/ program = "calcplus" /\ Calculator!Next /\ UNCHANGED program
  \/ program = "clipmgr" /\ ClipBoard!Next /\ UNCHANGED program
  \/ program = "menu" /\ Menu!Next /\ UNCHANGED program
  \/ program = "resume" /\ Resuming!Next /\ UNCHANGED program

Spec == Init /\ [][Next]_vars

-----------------------------------------------------------------------------
\* The launcher.  Its size probe counts the banks and leaves every byte as it was.  Its
\* menu is what apps.cfg and the manifests say, shows it, starts what it should, and is
\* the same when an app returns.  What an app goes on with is what it saved.
LauncherSound ==
  CASE program = "probe" -> SizeProbe!CountRight /\ SizeProbe!BytesBack
    [] program = "menu" -> Menu!Sound
    [] program = "resume" -> Resuming!Sound
    [] OTHER -> TRUE

\* Programs for files.  SimpleFiles: no file is lost but the one whose overwriting
\* was confirmed; a copy reported as made is one, and an undisturbed copy is made and
\* cleans up.  The clipboard manager: no bank is lost; what is saved and loaded is
\* whole and in order; what the screen shows is there.
FilesSound ==
  CASE program = "simplefiles" ->
         Files!OnlyConfirmedLost /\ Files!CopiedIsEqual /\ Files!CopySucceeds
    [] program = "clipmgr" -> ClipBoard!Sound
    [] OTHER -> TRUE

\* The games.  2048: tiles merge by the rules, the score adds up, the end is
\* recognized.  Deminer: a game is won and lost by the rules and the reveal is
\* complete.  Sidetris: pieces lie on free cells, lines are counted, the tables of
\* turns and speeds are right.  All: the screen shows the game, and a game that was
\* left comes back.
GamesSound ==
  CASE program = "game2048" -> IF mode = "line" THEN LineGame!Sound ELSE BoardGame!Sound
    [] program = "deminer" -> IF mode = "flags" THEN FlaggedMines!Sound ELSE Mines!Sound
    [] program = "sidetris" -> Stacker!Sound
    [] OTHER -> TRUE

\* Ultimate Zip: a file has its name only when it is whole, and the files that
\* were there stay as they are, whatever command is refused and whenever the
\* machine is reset; everything chosen is planned, "complete" means that it is
\* all there, and no bank and, as far as commands are carried out, no temporary
\* file is left.
ZipSound == program = "uzip" => Zipping!Whole /\ Zipping!Clean

\* The Ultimate.  The gateways: a command that is reported as carried out was carried
\* out once, with its whole response, and none is pushed too early.  The launcher's
\* DMA loading: what is loaded is the image's file, overlays lie whole in their
\* places, the rest of the REU stays as it is, and a load of which no command is
\* refused succeeds.
UltimateSound ==
  CASE program = "uci" -> Gateways!Sound
    [] program = "dma" -> DmaLoading!Sound
    [] OTHER -> TRUE

\* ReadyShell's parser: the tree says what the line says, every tree can be typed,
\* and whatever allocation fails, no block stays in use.
ParseSound == program = "parse" => Parsing!Sound

\* ReadyShell's pipelines mean what their stages mean one after another, and
\* its files are as its commands said (Shell).
ShellSound == program = "shell" => Shelled!PipelinesCompose /\ Shelled!FilesAsReported

\* A pipeline into STV saves an array of what came to it (Shell).
ShellSavesItems == program = "shellsave" => Shelled!PipelineSaved

\* Calc Plus: a line means what it says, and is refused when it says nothing; the
\* history goes on from line to line; variables hold what was shown; the screen
\* shows it all.
CalcSound == program = "calcplus" => Calculator!Sound
=============================================================================
