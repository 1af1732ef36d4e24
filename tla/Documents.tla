------------------------------ MODULE Documents ------------------------------
(***************************************************************************)
(* ReadyOS runs one program at a time, and each has the machine to itself  *)
(* until it leaves.  The modules of the programs therefore declare the     *)
(* same variables, and this module is the suite of those that keep what    *)
(* their user writes: a behaviour is a behaviour of one of them, chosen at *)
(* its start, on a small instance.                                         *)
(***************************************************************************)
EXTENDS Integers, Sequences, TLC

CONSTANT Suite   \* the programs to run

VARIABLES ram, store, todo, mode,
          program   \* whose behaviour it is

vars == <<ram, store, todo, mode, program>>

-----------------------------------------------------------------------------
\* Two days, three appointments, two of them on a page; what may fail once, or
\* be cut off, with one kind of text only.
Cal == INSTANCE Cal26
  WITH NDays <- 2, MaxRecord <- 6, Text <- {"x", "y"}, DoneText <- {"y"}, Blank <- "",
       MaxDayItems <- 2, PageSize <- 2, Modes <- {"calm"}
FaultyCal == INSTANCE Cal26
  WITH NDays <- 2, MaxRecord <- 6, Text <- {"x"}, DoneText <- {}, Blank <- "",
       MaxDayItems <- 2, PageSize <- 2, Modes <- {"faulty"}

\* A column of three cells, and seven bytes for their texts.
Term(op, neg, f) == [op |-> op, neg |-> neg] @@ f
Ref(r, c)        == [kind |-> "ref", cell |-> <<r, c>>]
Span(f, r, q)    == [kind |-> "range", name |-> f, from |-> <<r, 0>>,
                     to |-> <<q, 0>>]
Formula(terms)   == [kind |-> "formula", expr |-> terms]
Formulas ==
  ("=A2+A1" :> Formula(<<Term("", FALSE, Ref(1, 0)),
                         Term("+", FALSE, Ref(0, 0))>>))
  @@ ("=-(A3)-A2" :>
        Formula(<<Term("", TRUE, [kind |-> "paren",
                                  expr |-> <<Term("", FALSE, Ref(2, 0))>>]),
                  Term("-", FALSE, Ref(1, 0))>>))
  @@ ("=SUM(A2:A1)" :> Formula(<<Term("", FALSE, Span("SUM", 1, 0))>>))
  @@ ("=AVG(A3:A3)" :> Formula(<<Term("", FALSE, Span("AVG", 2, 2))>>))
  @@ ("=A1+B1" :> Formula(<<Term("", FALSE, Ref(0, 0)),
                            Term("+", FALSE, Ref(0, 1))>>))
Plain == [t \in {"a", "bb", "t"} |-> [kind |-> "text"]]
         @@ ("1" :> [kind |-> "number", val |-> 1])
         @@ ("2" :> [kind |-> "number", val |-> 2])
CellTexts == [pool |-> {"a", "bb"},
              eval |-> {"1", "2", "t"} \cup DOMAIN Formulas]
CellMeaning == Formulas @@ Plain
CellLen == [t \in DOMAIN CellMeaning |-> IF t = "bb" THEN 2 ELSE 1]
Cells == INSTANCE SimpleCells
  WITH MAX_ROWS <- 3, MAX_COLS <- 1, CONTENT_POOL_SIZE <- 6,
       MAX_EVAL_DEPTH <- 3, RESULT_TEXT_LEN <- 2, NoText <- "none",
       Texts <- CellTexts, Len1 <- CellLen, Meaning <- CellMeaning,
       Modes <- {"pool", "eval"}

\* Three tasks, or two where they are kept twice; a pool of four bytes.
TaskTexts == [tree |-> {"", "milk"}, notes |-> {"milk"},
              file |-> {"long"}, resume |-> {"milk"}, clip |-> {"long"}]
TaskNotes == [tree |-> {}, notes |-> {<<>>, <<"b">>, <<"c", "nl">>},
              file |-> {<<>>, <<"nl">>},
              resume |-> {<<>>, <<"b">>}, clip |-> {<<>>, <<"b">>}]
TaskSearches == [tree |-> {"", "mi"}, notes |-> {}, file |-> {},
                 resume |-> {"b"}, clip |-> {}]
TaskUses == [tree |-> {"tree", "search"}, notes |-> {}, file |-> {"file"},
             resume |-> {"search", "resume"}, clip |-> {"clip"}]
SearchWords == "" :> {} @@ "mi" :> {"mi"} @@ "b" :> {"b"}
TextWords == [x \in {"", "nl", "c", "long", "lon"} |-> {}]
             @@ "milk" :> {"mi"} @@ "b" :> {"b"}
TaskTextLen == "" :> 0 @@ "milk" :> 4 @@ "long" :> 40 @@ "lon" :> 38
LoadedText == [x \in {"", "milk", "lon"} |-> x] @@ "long" :> "lon"
Tasks == INSTANCE Tasklist
  WITH MAX_TASKS <- 3, MAX_INDENT <- 2, NOTE_POOL_SIZE <- 4, LIST_HEIGHT <- 2,
       NL <- "nl", Texts <- TaskTexts, Notes <- TaskNotes,
       Searches <- TaskSearches, Words <- SearchWords, WordsOf <- TextWords,
       TextLen <- TaskTextLen, LoadedText <- LoadedText, Uses <- TaskUses,
       Modes <- {"tree", "notes"}
FewTasks == INSTANCE Tasklist
  WITH MAX_TASKS <- 2, MAX_INDENT <- 1, NOTE_POOL_SIZE <- 4, LIST_HEIGHT <- 1,
       NL <- "nl", Texts <- TaskTexts, Notes <- TaskNotes,
       Searches <- TaskSearches, Words <- SearchWords, WordsOf <- TextWords,
       TextLen <- TaskTextLen, LoadedText <- LoadedText, Uses <- TaskUses,
       Modes <- {"file", "resume", "clip"}

\* Lines of two characters; two of three lines in view, or one of two.
TextKeys == [mark |-> {"a"}, find |-> {"a", "b"}, copy |-> {"a"}, file |-> {"a"}]
TextNeedles == [mark |-> {}, find |-> {<<"a">>, <<"B">>, <<"a", "b">>},
                copy |-> {}, file |-> {}]
TextClips == [copy |-> {<<>>, <<"b", "bell", "cr", "b">>}, mark |-> {<<>>},
              find |-> {<<>>}, file |-> {<<>>}]
TextFiles == [mark |-> {}, find |-> {}, copy |-> {},
              file |-> {<<>>, <<"b", "b", "b", "cr">>, <<"cr", "cr", "b">>}]
TextUses == [mark |-> {"select", "page"}, find |-> {"page"},
             copy |-> {"select", "copy"}, file |-> {"file"}]
Lowered == "a" :> "a" @@ "b" :> "b" @@ "B" :> "b"
Editing == INSTANCE Editor
  WITH MAX_LINES <- 3, MAX_LINE_LEN <- 3, EDIT_HEIGHT <- 2,
       CLIP_TEXT_BUF_SIZE <- 8, CR <- "cr", Lower <- Lowered, LINE_DISPLAY <- 1,
       Keys <- TextKeys, Needles <- TextNeedles, Clips <- TextClips,
       OtherFiles <- TextFiles, Uses <- TextUses, Modes <- {"mark", "find"}
EditingFiles == INSTANCE Editor
  WITH MAX_LINES <- 2, MAX_LINE_LEN <- 3, EDIT_HEIGHT <- 1,
       CLIP_TEXT_BUF_SIZE <- 4, CR <- "cr", Lower <- Lowered, LINE_DISPLAY <- 2,
       Keys <- TextKeys, Needles <- TextNeedles, Clips <- TextClips,
       OtherFiles <- TextFiles, Uses <- TextUses, Modes <- {"copy", "file"}

\* Three notes of one character, two of two empty lines, or one of two lines.
NoteModes == {"list", "lines", "text", "disk"}
OnlyIn(m, some, other) == [x \in NoteModes |-> IF x = m THEN some ELSE other]
NoteTitles == [x \in NoteModes |-> {"t"}]
NoteKeys == [list |-> {"a"}, text |-> {"a"}, lines |-> {}, disk |-> {}]
NoteNeedles == OnlyIn("text", {<<"A">>}, {})
NoteClips == OnlyIn("text", {<<"b", "cr", "a">>}, {<<>>})
NoteLines(title, lines) == [title |-> title, lines |-> lines]
NoteFile(notes, part) == [cur |-> 2, count |-> 2, notes |-> notes, part |-> part]
NoteFiles == OnlyIn("disk",
  {NoteFile(<<NoteLines("", <<<<"b">>>>), NoteLines("t", <<<<>>>>)>>, {}),
   NoteFile(<<NoteLines("t", <<<<>>>>)>>,
            {[title |-> "", lines |-> <<>>, count |-> 1]})}, {})
NoteUses == [list |-> {"rename"}, lines |-> {"page"}, disk |-> {"file"},
             text |-> {"select", "copy", "find"}]
NotesLowered == "a" :> "a" @@ "b" :> "b" @@ "A" :> "a"
DefaultTitles == <<"note 1", "note 2", "note 3">>
NotesListed == INSTANCE QuickNotes
  WITH MAX_NOTES <- 3, MAX_LINES <- 1, MAX_LINE_LEN <- 2, EDIT_HEIGHT <- 2,
       CLIP_TEXT_BUF_SIZE <- 4, CR <- "cr", Lower <- NotesLowered,
       Titles <- NoteTitles, DefaultTitle <- DefaultTitles, NoTitle <- "",
       Keys <- NoteKeys, Needles <- NoteNeedles, Clips <- NoteClips,
       OtherFiles <- NoteFiles, Uses <- NoteUses, Modes <- {"list"}
NotesWritten == INSTANCE QuickNotes
  WITH MAX_NOTES <- 2, MAX_LINES <- 2, MAX_LINE_LEN <- 2, EDIT_HEIGHT <- 1,
       CLIP_TEXT_BUF_SIZE <- 4, CR <- "cr", Lower <- NotesLowered,
       Titles <- NoteTitles, DefaultTitle <- DefaultTitles, NoTitle <- "",
       Keys <- NoteKeys, Needles <- NoteNeedles, Clips <- NoteClips,
       OtherFiles <- NoteFiles, Uses <- NoteUses, Modes <- {"lines"}
NotesOnDisk == INSTANCE QuickNotes
  WITH MAX_NOTES <- 2, MAX_LINES <- 1, MAX_LINE_LEN <- 2, EDIT_HEIGHT <- 1,
       CLIP_TEXT_BUF_SIZE <- 4, CR <- "cr", Lower <- NotesLowered,
       Titles <- NoteTitles, DefaultTitle <- DefaultTitles, NoTitle <- "",
       Keys <- NoteKeys, Needles <- NoteNeedles, Clips <- NoteClips,
       OtherFiles <- NoteFiles, Uses <- NoteUses, Modes <- {"disk"}
NoteAlone == INSTANCE QuickNotes
  WITH MAX_NOTES <- 1, MAX_LINES <- 2, MAX_LINE_LEN <- 2, EDIT_HEIGHT <- 1,
       CLIP_TEXT_BUF_SIZE <- 4, CR <- "cr", Lower <- NotesLowered,
       Titles <- NoteTitles, DefaultTitle <- DefaultTitles, NoTitle <- "",
       Keys <- NoteKeys, Needles <- NoteNeedles, Clips <- NoteClips,
       OtherFiles <- NoteFiles, Uses <- NoteUses, Modes <- {"text"}

\* Three cards and a filter in three columns, then two with all flags, then two
\* cards that are kept on the disk.
CardModes == {"sort", "flags", "disk", "faulty"}
CardTitles == [x \in CardModes |-> IF x = "sort" THEN {"", "ab"} ELSE {"a"}]
CardSearches == [x \in CardModes |-> IF x = "sort" THEN {"", "b"} ELSE {}]
CardUses == [sort |-> {"edit"}, flags |-> {"flags"}, disk |-> {"disk", "view"},
             faulty |-> {"disk", "faults"}]
TitleSums == "" :> 0 @@ "a" :> 1 @@ "ab" :> 3
TitlesWith == "" :> {"", "a", "ab"} @@ "b" :> {"ab"}
Board == INSTANCE Dizzy
  WITH NUM_COLUMNS <- 3, MAX_CARDS <- 3, LIST_BODY_ROWS <- 2, NoNumber <- 12,
       Today <- 1, Titles <- CardTitles, NoTitle <- "", Weight <- TitleSums,
       Searches <- CardSearches, Matching <- TitlesWith, NoFilter <- "",
       Uses <- CardUses, Modes <- {"sort"}
SmallBoard == INSTANCE Dizzy
  WITH NUM_COLUMNS <- 2, MAX_CARDS <- 2, LIST_BODY_ROWS <- 1, NoNumber <- 10,
       Today <- 1, Titles <- CardTitles, NoTitle <- "", Weight <- TitleSums,
       Searches <- CardSearches, Matching <- TitlesWith, NoFilter <- "",
       Uses <- CardUses, Modes <- {"flags", "disk", "faulty"}

\* Five rows of which two are in view and one may scroll back two; then three
\* rows, short and long texts and channels, faults and resumes.
IrcModes == {"scroll", "talk", "noreu", "faulty", "stop", "long"}
IrcChannels == "#c" :> 2 @@ "#long" :> 30
IrcTexts == [scroll |-> {}, noreu |-> {}, faulty |-> {"text"}, stop |-> {},
             talk |-> {"text", "/me", "/join", "/names", "/disconnect", "/msg",
                      "/quit"},
             long |-> {"text", "long", "/me long", "/join"}]
IrcTextLen == "text" :> 4 @@ "/me" :> 6 @@ "/join" :> 10 @@ "/msg" :> 5
              @@ "/names" :> 6 @@ "/disconnect" :> 11
              @@ "/quit" :> 5 @@ "long" :> 96 @@ "/me long" :> 96
IrcLines == [scroll |-> {"msg"}, noreu |-> {"msg"}, faulty |-> {"msg", "over"},
             talk |-> {"ping", "dm"}, stop |-> {"msg"}, long |-> {"ping"}]
IrcPieces == "msg" :> 2 @@ "over" :> 3 @@ "ping" :> 1 @@ "dm" :> 2
IrcUses == [scroll |-> {"scroll", "help"}, noreu |-> {"noreu", "help", "resume"},
            talk |-> {"quit", "resume"}, faulty |-> {"faults", "resume"},
            stop |-> {"noreu", "faults", "resume", "stop"}, long |-> {"long", "quit"}]
IrcScrolled == INSTANCE ReadyIrc
  WITH OUTPUT_H <- 2, REU_MAX_LINES <- 5, ScrollCap <- 2, IRC_IN_MAX <- 2,
       SEND_MAX <- 128, INPUT_MAX <- 96, Channels <- {"#c"}, ChannelLen <- IrcChannels,
       Texts <- IrcTexts, TextLen <- IrcTextLen, ServerLines <- IrcLines,
       Pieces <- IrcPieces, Uses <- IrcUses, Modes <- {"scroll"}
Irc == INSTANCE ReadyIrc
  WITH OUTPUT_H <- 2, REU_MAX_LINES <- 3, ScrollCap <- 1, IRC_IN_MAX <- 2,
       SEND_MAX <- 128, INPUT_MAX <- 96, Channels <- {"#c", "#long"},
       ChannelLen <- IrcChannels, Texts <- IrcTexts, TextLen <- IrcTextLen,
       ServerLines <- IrcLines, Pieces <- IrcPieces, Uses <- IrcUses,
       Modes <- IrcModes \ {"scroll"}

-----------------------------------------------------------------------------
Init ==
  /\ program \in Suite
  /\ \/ program = "cal26" /\ (Cal!Init \/ FaultyCal!Init)
     \/ program = "simplecells" /\ Cells!Init
     \/ program = "tasklist" /\ (Tasks!Init \/ FewTasks!Init)
     \/ program = "editor" /\ (Editing!Init \/ EditingFiles!Init)
     \/ program = "readyirc" /\ (IrcScrolled!Init \/ Irc!Init)
     \/ program = "dizzy" /\ (Board!Init \/ SmallBoard!Init)
     \/ program = "quicknotes" /\ NotesListed!Init
     \/ program = "quicknotes" /\ (NotesWritten!Init \/ NotesOnDisk!Init \/ NoteAlone!Init)

Next ==
  \/ /\ program = "cal26"
     /\ \/ mode = "calm" /\ Cal!Next
        \/ mode # "calm" /\ FaultyCal!Next
     /\ UNCHANGED program
  \/ program = "simplecells" /\ Cells!Next /\ UNCHANGED program
  \/ /\ program = "tasklist"
     /\ \/ mode \in {"tree", "notes"} /\ Tasks!Next
        \/ mode \notin {"tree", "notes"} /\ FewTasks!Next
     /\ UNCHANGED program
  \/ /\ program = "editor"
     /\ \/ mode \in {"mark", "find"} /\ Editing!Next
        \/ mode \notin {"mark", "find"} /\ EditingFiles!Next
     /\ UNCHANGED program
  \/ /\ program = "quicknotes"
     /\ \/ mode = "list" /\ NotesListed!Next
        \/ mode = "lines" /\ NotesWritten!Next
        \/ mode = "disk" /\ NotesOnDisk!Next
        \/ mode = "text" /\ NoteAlone!Next
     /\ UNCHANGED program
  \/ /\ program = "dizzy"
     /\ \/ mode = "sort" /\ Board!Next
        \/ mode # "sort" /\ SmallBoard!Next
     /\ UNCHANGED program
  \/ /\ program = "readyirc"
     /\ \/ mode = "scroll" /\ IrcScrolled!Next
        \/ mode # "scroll" /\ Irc!Next
     /\ UNCHANGED program

Spec == Init /\ [][Next]_vars

-----------------------------------------------------------------------------
\* Cal26: what the program remembers is what a fresh load of the file gives, no
\* record is lost, and the upcoming pages list every open appointment.
CalTablesMatch ==
  program = "cal26" => Cal!TablesMatch /\ Cal!UpcomingComplete

\* Cal26: no live appointment's record is given to another, whatever fails.
CalLiveRecordsStable ==
  program = "cal26" => IF mode = "calm" THEN Cal!LiveRecordsStable
                       ELSE FaultyCal!LiveRecordsStable

\* Cal26: the file implements a list of appointments for every day.
CalLists ==
  INSTANCE DayLists
    WITH Day <- 1 .. 2, Text <- {"x", "y"},
         lists <- IF program = "cal26" THEN Cal!ListsView
                  ELSE [d \in 1 .. 2 |-> <<>>]
CalIsLists == CalLists!Spec

\* A step changes what it is about and nothing else.  SimpleCells: an edit changes
\* the active cell alone.  Tasklist: a key changes one task, as long as the notes
\* lie in order.  ReadyIRC: a row that comes in does not move a view that is
\* scrolled back.
OthersKept ==
  [][CASE program = "simplecells" -> Cells!OthersKeptStep
       [] program = "tasklist" -> Tasks!OthersKeptStep
       [] program = "readyirc" -> IF mode = "scroll" THEN IrcScrolled!ViewHolds
                                  ELSE Irc!ViewHolds
       [] OTHER -> TRUE]_vars

\* SimpleCells: the texts in the pool stay whole and apart, a saved workbook can
\* be loaded, a formula that needs no other shows its value, and one without a
\* value an error.
CellsSound ==
  program = "simplecells" =>
    /\ Cells!PoolIntact /\ Cells!SavedLoads
    /\ Cells!ShowsMeaning /\ Cells!ErrorsShown

\* Tasklist: a key changes one task, in whatever order the notes lie.
TasksNotesKept == [][program = "tasklist" => Tasks!NotesKeptStep]_vars

\* Tasklist: notes are whole, the view shows what it should, and a saved list
\* can be loaded.
TasksSound ==
  program = "tasklist" =>
    Tasks!PoolSound /\ Tasks!ViewSound /\ Tasks!SavedLoads

\* Editor: keys change the text at the cursor only, copies and pastes are whole,
\* a find goes to the next hit, the screen shows the text, and a file comes
\* back.
EditorSound ==
  program = "editor" => IF mode \in {"mark", "find"} THEN Editing!Sound
                        ELSE EditingFiles!Sound

\* QuickNotes: keys change the list of notes as they should and keep the other
\* notes, which come back from a file and when the program is resumed.
QuickNotesSound ==
  program = "quicknotes" =>
    CASE mode = "list" -> NotesListed!Sound [] mode = "text" -> NoteAlone!Sound
      [] mode = "lines" -> NotesWritten!Sound [] mode = "disk" -> NotesOnDisk!Sound

\* Dizzy: every card has one place, also after a save that was broken off; the
\* selection follows a card that is moved; a board comes back as it was saved.
DizzySound ==
  program = "dizzy" => IF mode = "sort" THEN Board!Sound ELSE SmallBoard!Sound

\* ReadyIRC: the screen shows the rows said last, lines come and go whole, and
\* the conversation is that of the channel that is shown.
IrcSound ==
  program = "readyirc" => IF mode = "scroll" THEN IrcScrolled!Sound ELSE Irc!Sound
=============================================================================
