------------------------------ MODULE Tasklist ------------------------------
(***************************************************************************)
(* The task list (src/apps/tasklist/tasklist.c): an outline of tasks with  *)
(* notes.  The notes lie in one pool, which is compacted in place, and the *)
(* screen shows a view of the tasks, which a search narrows.               *)
(*                                                                         *)
(* The pool is the sequence of its used bytes; note_pool_used is its       *)
(* length.  Offsets count from 0, tasks and rows of the view from 1.       *)
(***************************************************************************)
EXTENDS Integers, Sequences, SequencesExt, FiniteSetsExt

CONSTANTS
  MAX_TASKS, MAX_INDENT, NOTE_POOL_SIZE, LIST_HEIGHT,
  NL,          \* the byte between two lines of a note
  Texts,       \* mode -> what is typed as a task's text ("" is none)
  Notes,       \* mode -> what is typed as a note, a sequence of bytes
  Searches,    \* mode -> search texts
  Words,       \* search text -> the words that must match
  WordsOf,     \* text or byte -> the words it contains
  TextLen,     \* text -> its length
  LoadedText,  \* text -> what file_load makes of it: lines are cut at 41
  Uses,        \* mode -> the parts of the program that are used
  Modes

VARIABLES
  ram,    \* the program's data
  store,  \* file: what was saved, or {}; saved: the resume payload, or {};
          \* clip: the newest clipboard item, or {}
  todo,   \* "keys", or "hung"
  mode    \* a slice of the program's use

vars == <<ram, store, todo, mode>>

NoOffset == 65535

NewTask == [text |-> "", done |-> FALSE, indent |-> 0, flag |-> FALSE,
            off |-> NoOffset, len |-> 0]

Count(m) == Len(m.tasks)
Noted(t) == t.off # NoOffset /\ t.len > 0
NoteOf(m, t) == IF Noted(t) THEN SubSeq(m.pool, t.off + 1, t.off + t.len)
                ELSE <<>>

-----------------------------------------------------------------------------
\* clamp_cursor; positions count from 0, as in the code.
Clamped(m) ==
  LET n == Len(m.view)
      c == IF m.cursor >= n THEN n - 1 ELSE m.cursor
      s == IF c < m.scroll THEN c ELSE m.scroll
  IN  IF n = 0 THEN [m EXCEPT !.cursor = 0, !.scroll = 0]
      ELSE [m EXCEPT !.cursor = c,
                     !.scroll = IF c >= s + LIST_HEIGHT
                                THEN c - LIST_HEIGHT + 1 ELSE s]

\* A task matches when each word is in its text or in its note.
Match(m, t) ==
  \A w \in Words[m.search] :
    \/ w \in WordsOf[t.text]
    \/ t.flag /\ \E b \in ToSet(NoteOf(m, t)) : w \in WordsOf[b]

\* The walk of apply_filter from task i backwards to its parents.
Parents(m, i) ==
  LET walk[j \in 0 .. i, indent \in 0 .. MAX_INDENT] ==
        IF j = 0 \/ indent = 0 THEN {}
        ELSE IF m.tasks[j].indent < indent
             THEN {j} \cup walk[j - 1, m.tasks[j].indent]
             ELSE walk[j - 1, indent]
  IN  walk[i - 1, m.tasks[i].indent]

\* Mutant: the walk stops at the first parent.
NeededNearest(m) ==
  LET matched == {i \in 1 .. Count(m) : Match(m, m.tasks[i])}
      Nearest(i) == {j \in Parents(m, i) : \A k \in Parents(m, i) : k <= j}
  IN  matched \cup UNION {Nearest(i) : i \in matched}

Needed(m) ==
  LET matched == {i \in 1 .. Count(m) : Match(m, m.tasks[i])}
  IN  matched \cup UNION {Parents(m, i) : i \in matched}

\* rebuild_view and apply_filter: a search counts while it is being typed.
Rebuilt(m) ==
  LET all == [i \in 1 .. Count(m) |-> i]
  IN  Clamped([m EXCEPT !.view =
        IF m.searching /\ Words[m.search] # {}
        THEN SelectSeq(all, LAMBDA i : i \in Needed(m)) ELSE all])

-----------------------------------------------------------------------------
\* Mutant: the last byte stays where it is.
MovedShort(pool, src, dst, len) ==
  [k \in 1 .. Len(pool) |->
     IF dst < k /\ k < dst + len THEN pool[k - dst + src] ELSE pool[k]]

\* memmove within the pool
Moved(pool, src, dst, len) ==
  [k \in 1 .. Len(pool) |->
     IF dst < k /\ k <= dst + len THEN pool[k - dst + src] ELSE pool[k]]

\* note_compact: the notes are moved down one after the other, in the order of
\* their tasks.
Compacted(m) ==
  LET total == FoldLeft(LAMBDA n, t : n + (IF Noted(t) THEN t.len ELSE 0),
                        0, m.tasks)
      after[i \in 0 .. Count(m)] ==
        IF i = 0 THEN [tasks |-> m.tasks, pool |-> m.pool, dst |-> 0]
        ELSE LET c == after[i - 1]
                 t == m.tasks[i]
             IN  IF ~Noted(t) THEN c
                 ELSE [tasks |-> [c.tasks EXCEPT ![i].off = c.dst],
                       pool  |-> Moved(c.pool, t.off, c.dst, t.len),
                       dst   |-> c.dst + t.len]
      done == after[Count(m)]
  IN  IF total = Len(m.pool) THEN m
      ELSE [m EXCEPT !.tasks = done.tasks,
                     !.pool = SubSeq(done.pool, 1, done.dst)]

Dropped(m, i) == [m EXCEPT !.tasks[i].off = NoOffset, !.tasks[i].len = 0]

\* note_save_from_edit: a note for which there is no room is cut; without any
\* room the task loses the note and keeps its flag.
NotedWith(m, i, note) ==
  LET c    == Compacted(Dropped(m, i))
      room == NOTE_POOL_SIZE - Len(c.pool)
      fits == SubSeq(note, 1, IF Len(note) > room THEN room ELSE Len(note))
  IN  IF note = <<>> THEN [c EXCEPT !.tasks[i].flag = FALSE]
      ELSE IF fits = <<>> THEN c
      ELSE [c EXCEPT !.tasks[i].off = Len(c.pool),
                     !.tasks[i].len = Len(fits), !.tasks[i].flag = TRUE,
                     !.pool = c.pool \o fits, !.modified = TRUE]

\* The row of the cursor, and its task.
HasRow(m) == m.cursor < Len(m.view)
Row(m)    == m.view[m.cursor + 1]

\* insert_task and paste_from_clipboard: a task below the cursor's, as deep as
\* the one above it; the cursor goes there.
Inserted(m, t) ==
  LET p  == IF Len(m.view) = 0 THEN 1
            ELSE IF HasRow(m) THEN Row(m) + 1 ELSE Count(m) + 1
      t2 == [t EXCEPT !.indent = IF p > 1 THEN m.tasks[p - 1].indent ELSE 0]
      m2 == Rebuilt([m EXCEPT !.tasks = InsertAt(@, p, t2), !.modified = TRUE])
  IN  IF p \in ToSet(m2.view)
      THEN Clamped([m2 EXCEPT !.cursor = Len(SelectSeq(m2.view,
                                              LAMBDA i : i < p))])
      ELSE m2

\* delete_task; the list is never empty.
Removed(m, i) ==
  LET rest == RemoveAt(m.tasks, i)
  IN  Rebuilt(Compacted(
        [m EXCEPT !.tasks = IF rest = <<>> THEN <<NewTask>> ELSE rest,
                  !.modified = TRUE]))

-----------------------------------------------------------------------------
\* The lines file_save writes for a note: an empty line at its end is lost.
Lines(note) ==
  LET from[s \in 1 .. Len(note) + 2] ==
        LET end == {e \in s .. Len(note) : note[e] = NL} \cup {Len(note) + 1}
        IN  IF s > Len(note) THEN <<>>
            ELSE <<SubSeq(note, s, Min(end) - 1)>> \o from[Min(end) + 1]
  IN  from[1]

Joined(lines) == Tail(FlattenSeq([i \in DOMAIN lines |-> <<NL>> \o lines[i]]))

\* file_save, a record for each task
Saved(m) ==
  [i \in 1 .. Count(m) |->
     [text |-> m.tasks[i].text, done |-> m.tasks[i].done,
      indent |-> m.tasks[i].indent,
      lines |-> IF m.tasks[i].flag THEN Lines(NoteOf(m, m.tasks[i]))
                ELSE <<>>]]

\* The beginnings of a file that ends early, as file_load reads them: a line of
\* less than three characters is none.  Of a text either all is left or nothing.
Short(recs) ==
  LET cut(r) == {[r EXCEPT !.text = "", !.lines = <<>>]}
                \cup {[r EXCEPT !.lines = SubSeq(@, 1, i)] : i \in 0 .. Len(r.lines)}
                \cup UNION {{[r EXCEPT !.lines = Append(SubSeq(@, 1, i - 1),
                                                       SubSeq(@[i], 1, j))] :
                              j \in 0 .. Len(r.lines[i])} : i \in DOMAIN r.lines}
  IN  {<<>>} \cup UNION {{Append(SubSeq(recs, 1, k - 1), r) : r \in cut(recs[k])} :
                         k \in DOMAIN recs}

\* file_load
LoadedFrom(recs) ==
  LET Note(r) == IF r.lines = <<>> THEN <<>> ELSE Joined(r.lines)
      at[i \in 0 .. Len(recs)] ==
        IF i = 0 THEN 0 ELSE at[i - 1] + Len(Note(recs[i]))
      tasks == [i \in 1 .. Len(recs) |->
                  [text |-> LoadedText[recs[i].text], done |-> recs[i].done,
                   indent |-> recs[i].indent,
                   flag |-> recs[i].lines # <<>>,
                   off |-> IF recs[i].lines = <<>> THEN NoOffset
                           ELSE at[i - 1],
                   len |-> Len(Note(recs[i]))]]
  IN  Rebuilt([tasks |-> IF tasks = <<>> THEN <<NewTask>> ELSE tasks,
               pool |-> FlattenSeq([i \in 1 .. Len(recs) |-> Note(recs[i])]),
               view |-> <<>>, search |-> "", searching |-> FALSE,
               cursor |-> 0, scroll |-> 0, named |-> TRUE,
               modified |-> FALSE])

\* resume_validate_state and resume_rebuild_runtime_view
Resumed(m) ==
  LET Sane(t) == IF t.off = NoOffset \/ t.len = 0 \/ t.off + t.len > Len(m.pool)
                 THEN [t EXCEPT !.off = NoOffset, !.len = 0, !.flag = FALSE]
                 ELSE [t EXCEPT !.flag = TRUE]
  IN  Rebuilt([m EXCEPT !.tasks = [i \in DOMAIN @ |-> Sane(@[i])],
                        !.searching = @ /\ m.search # ""])

-----------------------------------------------------------------------------
\* tasklist_init
Cold == Rebuilt([tasks |-> <<NewTask>>, pool |-> <<>>, view |-> <<>>,
                 search |-> "", searching |-> FALSE, cursor |-> 0,
                 scroll |-> 0, named |-> FALSE, modified |-> FALSE])

Init ==
  /\ ram = Cold /\ todo = "keys"
  /\ store = [file |-> {}, saved |-> {}, clip |-> {}]
  /\ mode \in Modes

Used(part) == part \in Uses[mode]
Listens    == todo = "keys" /\ ~ram.searching

\* A key changes the program's data and nothing else.
Becomes(m) == ram' = m /\ UNCHANGED <<store, todo, mode>>

\* edit_task_popup: RETURN takes the text, RUN/STOP leaves it.
Edited(m, x) == IF HasRow(m) THEN [m EXCEPT !.tasks[Row(m)].text = x,
                                            !.modified = TRUE]
                ELSE m

\* RETURN: a new task, and its text or none; a full list is edited instead.
New ==
  /\ Listens
  /\ LET m == IF Count(ram) < MAX_TASKS THEN Inserted(ram, NewTask) ELSE ram
     IN  \/ Becomes(Rebuilt(m))
         \/ \E x \in Texts[mode] : Becomes(Rebuilt(Edited(m, x)))

Edit(x) == Listens /\ Becomes(Rebuilt(Edited(ram, x)))

\* DEL, confirmed where there is a text
Delete == Listens /\ HasRow(ram) /\ Becomes(Removed(ram, Row(ram)))

\* SPACE
Toggle ==
  /\ Listens /\ HasRow(ram) /\ Used("tree")
  /\ Becomes([ram EXCEPT !.tasks[Row(ram)].done = ~@, !.modified = TRUE])

\* ]: at most one deeper than the task above
Indent ==
  /\ Listens /\ HasRow(ram) /\ Used("tree")
  /\ LET i == Row(ram)
     IN  /\ i > 1 /\ ram.tasks[i].indent < MAX_INDENT
         /\ ram.tasks[i].indent <= ram.tasks[i - 1].indent
         /\ Becomes(Rebuilt([ram EXCEPT !.tasks[i].indent = @ + 1,
                                        !.modified = TRUE]))

\* [
Outdent ==
  /\ Listens /\ HasRow(ram) /\ ram.tasks[Row(ram)].indent > 0
  /\ Becomes(Rebuilt([ram EXCEPT !.tasks[Row(ram)].indent = @ - 1,
                                 !.modified = TRUE]))

\* N
Note(n) == Listens /\ HasRow(ram) /\ Becomes(Rebuilt(NotedWith(ram, Row(ram), n)))

\* The cursor keys, + and - (HOME is a long way up).
Move(n) ==
  LET c == ram.cursor + n
  IN  /\ todo = "keys" /\ ram.view # <<>>
      /\ ram.searching => n \in {-1, 1}
      /\ Becomes(Clamped([ram EXCEPT !.cursor = IF c < 0 THEN 0 ELSE c]))

\* / starts a search: the view stays as it is until something is typed.
Search ==
  /\ Listens /\ Used("search")
  /\ Becomes([ram EXCEPT !.searching = TRUE, !.search = ""])

Type(s) ==
  /\ todo = "keys" /\ ram.searching
  /\ Becomes(Rebuilt([ram EXCEPT !.search = s]))

\* RETURN keeps the view, RUN/STOP shows all.
SearchDone ==
  /\ todo = "keys" /\ ram.searching
  /\ \/ Becomes([ram EXCEPT !.searching = FALSE])
     \/ Becomes(Rebuilt([ram EXCEPT !.searching = FALSE, !.search = ""]))

\* F1
Copy ==
  /\ Listens /\ HasRow(ram) /\ Used("clip")
  /\ LET t == ram.tasks[Row(ram)]
     IN  store' = [store EXCEPT !.clip =
           {[text |-> t.text,
             note |-> IF t.flag THEN NoteOf(ram, t) ELSE <<>>]}]
  /\ UNCHANGED <<ram, todo, mode>>

\* The length of the item: text, separator and note.
ClipLen(c) == TextLen[c.text] + (IF c.note = <<>> THEN 0 ELSE 5 + Len(c.note))

\* F3: a note for which there is no room is left out.
Paste ==
  /\ Listens /\ Count(ram) < MAX_TASKS
  /\ \E c \in store.clip :
       LET t == [NewTask EXCEPT !.text = c.text]
           withNote == [t EXCEPT !.off = Len(ram.pool), !.len = Len(c.note),
                                 !.flag = TRUE]
       IN  /\ ClipLen(c) >= 4
           /\ IF c.note # <<>> /\ Len(ram.pool) + Len(c.note) <= NOTE_POOL_SIZE
              THEN Becomes(Inserted([ram EXCEPT !.pool = @ \o c.note], withNote))
              ELSE Becomes(Inserted(ram, t))

\* The separator is looked for at i < plen - 4, a difference that wraps around
\* for a shorter item, with an index that is a byte: the loop does not end.
PasteHangs ==
  /\ Listens /\ Count(ram) < MAX_TASKS
  /\ \E c \in store.clip : 0 < ClipLen(c) /\ ClipLen(c) < 4
  /\ todo' = "hung"
  /\ UNCHANGED <<ram, store, mode>>

\* F5, F6: the old file is deleted and the new one opened, which may fail.  What
\* else the drive refuses, file_save does not ask for: the list counts as saved,
\* and the disk has the old file, none, or a short one.
Save ==
  /\ Listens /\ Used("file")
  /\ \/ /\ \E f \in {store.file, {}} \cup {{recs} : recs \in Short(Saved(ram))} :
             store' = [store EXCEPT !.file = f]
        /\ ram' = [ram EXCEPT !.named = TRUE, !.modified = FALSE]
     \/ /\ \E f \in {store.file, {}} : store' = [store EXCEPT !.file = f]
        /\ UNCHANGED ram
  /\ UNCHANGED <<todo, mode>>

\* F7
Load == Listens /\ \E recs \in store.file : Becomes(LoadedFrom(recs))

\* CTRL+B, F2, F4: the payload is saved before the program is left.
Leave ==
  /\ todo = "keys" /\ Used("resume")
  /\ store' = [store EXCEPT !.saved = {ram}]
  /\ UNCHANGED <<ram, todo, mode>>

\* The program starts again, after RUN/STOP, a reset or a visit elsewhere;
\* it may find an older payload (see ResumeState).
Restart ==
  /\ ram' \in IF store.saved = {} THEN {Cold}
              ELSE {Resumed(m) : m \in store.saved}
  /\ todo' = "keys"
  /\ UNCHANGED <<store, mode>>

Next ==
  \/ New \/ Delete \/ Toggle \/ Indent \/ Outdent
  \/ \E x \in Texts[mode] : Edit(x)
  \/ \E n \in Notes[mode] : Note(n)
  \/ \E n \in {-LIST_HEIGHT, -1, 1, LIST_HEIGHT} : Move(n)
  \/ Search \/ (\E s \in Searches[mode] : Type(s)) \/ SearchDone
  \/ Copy \/ Paste \/ PasteHangs
  \/ Save \/ Load \/ Leave \/ Restart

-----------------------------------------------------------------------------
\* The outline as its user sees it.
Seen(m) == [i \in 1 .. Count(m) |->
              [text |-> m.tasks[i].text, done |-> m.tasks[i].done,
               indent |-> m.tasks[i].indent, note |-> NoteOf(m, m.tasks[i])]]

\* The notes lie in the pool in the order of their tasks.
InOrder(m) == \A i, j \in 1 .. Count(m) :
  i < j /\ Noted(m.tasks[i]) /\ Noted(m.tasks[j]) =>
    m.tasks[i].off < m.tasks[j].off

\* What a key may do to an outline: put a task somewhere, take one away or
\* change one, the others keeping text, place and note.
OneTaskChanged(old, new) ==
  \/ new = old
  \/ \E i \in 1 .. Len(new) : RemoveAt(new, i) = old
  \/ \E i \in 1 .. Len(old) : RemoveAt(old, i) = new
  \/ /\ Len(new) = Len(old)
     /\ \E i \in 1 .. Len(new) : \A j \in 1 .. Len(new) \ {i} : new[j] = old[j]

\* A key that neither loads nor resumes changes one task, and every other one
\* keeps its text and its note, as long as the notes lie in order.
OthersKeptStep ==
  InOrder(ram) => \/ Load \/ Restart
                  \/ OneTaskChanged(Seen(ram), Seen(ram'))

\* "N to add a note" (README.md): the same, in whatever order the notes were
\* written.
NotesKeptStep ==
  Load \/ Restart \/ OneTaskChanged(Seen(ram), Seen(ram'))

\* Notes are whole and apart from each other.
PoolSound ==
  LET Bytes(t) == IF Noted(t) THEN t.off .. t.off + t.len - 1 ELSE {}
  IN  /\ Len(ram.pool) <= NOTE_POOL_SIZE
      /\ \A i \in 1 .. Count(ram) :
           /\ Bytes(ram.tasks[i]) \subseteq 0 .. Len(ram.pool) - 1
           /\ \A j \in 1 .. i - 1 :
                Bytes(ram.tasks[i]) \cap Bytes(ram.tasks[j]) = {}

\* Every row shows a task, in order, and the cursor is on a row.  While a
\* search is typed the rows are the matching tasks with all above them in the
\* tree: those that no task in between is as shallow as.
ViewSound ==
  LET above(i) == {j \in 1 .. i - 1 : \A k \in j + 1 .. i :
                     ram.tasks[j].indent < ram.tasks[k].indent}
      found == {i \in 1 .. Count(ram) : Match(ram, ram.tasks[i])}
  IN  /\ \A r \in DOMAIN ram.view :
           /\ ram.view[r] \in 1 .. Count(ram)
           /\ r > 1 => ram.view[r - 1] < ram.view[r]
      /\ IF ram.view = <<>> THEN ram.cursor = 0 /\ ram.scroll = 0
         ELSE /\ ram.cursor < Len(ram.view)
              /\ ram.scroll <= ram.cursor /\ ram.cursor < ram.scroll + LIST_HEIGHT
      /\ ram.searching /\ Words[ram.search] # {} =>
           ToSet(ram.view) = found \cup UNION {above(i) : i \in found}

\* A saved list loads as it was, but for texts too long for a line and empty
\* lines at the end of a note.
SavedLoads ==
  LET Trimmed(n) == IF n # <<>> /\ Last(n) = NL THEN Front(n) ELSE n
  IN  Seen(LoadedFrom(Saved(ram))) =
        [i \in 1 .. Count(ram) |->
           [Seen(ram)[i] EXCEPT !.text = LoadedText[@],
                                !.note = IF ram.tasks[i].flag
                                         THEN Trimmed(@) ELSE <<>>]]
=============================================================================
