----------------------------- MODULE QuickNotes -----------------------------
(***************************************************************************)
(* QuickNotes (src/apps/quicknotes/quicknotes.c): a list of notes, one of  *)
(* which is edited in RAM as a text of TextLines, while the bodies of all  *)
(* lie in the REU.  The banks they lie in are AppRuntime's matter; here    *)
(* both have been allocated.  What is drawn is left out, and current_dirty,*)
(* which is never read.                                                    *)
(***************************************************************************)
EXTENDS TextLines

CONSTANTS
  MAX_NOTES,
  Titles,        \* mode -> what notes are renamed to
  DefaultTitle,  \* for each place in the list
  NoTitle,       \* the empty title
  Keys,          \* mode -> what is typed
  Needles,       \* mode -> what is searched for
  Clips,         \* mode -> what other programs put on the clipboard
  OtherFiles,    \* mode -> contents of the other file on the disk
  Uses,          \* mode -> "select", "copy", "find", "page", "rename", "file"
  Modes

VARIABLES
  ram,    \* the text, and notes: for each note its title, line count and view;
          \* cur: the one edited; top: the notes scrolled off the list; focus:
          \* the pane; reu: the bodies; own, clip, disk, failed as in Editor;
          \* broken: a load has failed halfway
  store,  \* the resume payload while the program is left, or {}
  todo,   \* "keys", or "left"
  mode

vars == <<ram, store, todo, mode>>

-----------------------------------------------------------------------------
\* list_max_scroll, ensure_current_note_visible, and all of clamp_view_state
TopMax(m) == IF Len(m.notes) > EDIT_HEIGHT THEN Len(m.notes) - EDIT_HEIGHT ELSE 0

InList(m) ==
  [m EXCEPT !.top = IF m.cur <= @ THEN m.cur - 1
                    ELSE IF m.cur > @ + EDIT_HEIGHT
                    THEN Smaller(m.cur - EDIT_HEIGHT, TopMax(m)) ELSE @]

AllClamped(m) == InList([Clamped(m) EXCEPT !.top = Smaller(@, TopMax(m))])

\* save_current_note_to_slot, load_current_note_from_slot
NewNote(i) == [title |-> DefaultTitle[i], count |-> 1, y |-> 1, x |-> 0, scroll |-> 0]

Stored(m) ==
  [m EXCEPT !.notes[m.cur] = [title |-> @.title, count |-> Len(m.lines),
                              y |-> m.y, x |-> m.x, scroll |-> m.scroll],
            !.reu[m.cur] = m.lines]

Fetched(body, count) ==
  [l \in 1 .. IF count = 0 THEN 1 ELSE count |->
     IF l <= Len(body) THEN body[l] ELSE <<>>]

Loaded(m) ==
  LET note == m.notes[m.cur]
  IN  AllClamped(Unmarked(
        [m EXCEPT !.lines = Fetched(m.reu[m.cur], note.count),
                  !.y = note.y, !.x = note.x, !.scroll = note.scroll]))

\* Mutant: the note is not stored first.
SwitchedUnstored(m, i) ==
  IF i = m.cur THEN m ELSE InList(Loaded([m EXCEPT !.cur = i]))

\* switch_to_note
Switched(m, i) ==
  IF i = m.cur THEN m ELSE InList(Loaded([Stored(m) EXCEPT !.cur = i]))

\* create_note_after_current: the notes behind move up, the last one first.
Created(m) ==
  LET i == m.cur + 1
      n == Len(m.notes)
      s == Stored(m)
  IN  IF n >= MAX_NOTES THEN m
      ELSE InList(Unmarked(
        [s EXCEPT !.notes = InsertAt(@, i, NewNote(i)),
                  !.reu = [j \in DOMAIN @ |-> IF j = i THEN <<<<>>>>
                                              ELSE IF j > i /\ j <= n + 1
                                              THEN @[j - 1] ELSE @[j]],
                  !.lines = <<<<>>>>, !.y = 1, !.x = 0, !.scroll = 0,
                  !.cur = i, !.focus = "edit", !.modified = TRUE]))

\* rename_current_note
Renamed(m, title) == [m EXCEPT !.notes[m.cur].title = title, !.modified = TRUE]

\* delete_current_note: the last one is emptied; else those behind move down.
Emptied(m) ==
  Unmarked([m EXCEPT !.notes = <<NewNote(1)>>, !.reu[1] = <<<<>>>>,
                     !.lines = <<<<>>>>, !.y = 1, !.x = 0, !.scroll = 0,
                     !.modified = TRUE])

Removed(m) ==
  LET n == Len(m.notes)
  IN  InList([Loaded([m EXCEPT !.notes = RemoveAt(@, m.cur),
                               !.reu = [j \in DOMAIN @ |->
                                          IF j >= m.cur /\ j < n
                                          THEN @[j + 1] ELSE @[j]],
                               !.cur = Smaller(@, n - 1)])
              EXCEPT !.modified = TRUE])

NoteDeleted(m) == IF Len(m.notes) <= 1 THEN Emptied(m) ELSE Removed(m)

\* move_current_note_up, move_current_note_down
Moved(m, i) ==
  LET s == Stored(m)
  IN  IF i \notin DOMAIN m.notes THEN m
      ELSE InList([s EXCEPT !.notes[i] = s.notes[m.cur],
                            !.notes[m.cur] = s.notes[i],
                            !.reu[i] = m.lines, !.reu[m.cur] = s.reu[i],
                            !.cur = i, !.modified = TRUE])

-----------------------------------------------------------------------------
\* file_save: a file has the header's count and current note, and the notes;
\* one that was broken off has fewer, and some lines of the next, or {}.
Whole(m) ==
  [cur |-> m.cur, count |-> Len(m.notes), part |-> {},
   notes |-> [i \in DOMAIN m.notes |->
                [title |-> m.notes[i].title,
                 lines |-> Fetched(m.reu[i], m.notes[i].count)]]]

BrokenOff(f) ==
  {[f EXCEPT !.notes = SubSeq(@, 1, k)] : k \in 0 .. f.count - 1}
  \cup {[f EXCEPT !.notes = SubSeq(@, 1, k),
                  !.part = {[f.notes[k + 1] EXCEPT !.lines = SubSeq(@, 1, l)]
                            @@ [count |-> Len(f.notes[k + 1].lines)]}]
        : <<k, l>> \in {<<k, l>> \in (0 .. f.count - 1) \X (0 .. MAX_LINES - 1) :
                          l < Len(f.notes[k + 1].lines)}}

\* file_load
Titled(title, i) == IF title = NoTitle THEN DefaultTitle[i] ELSE title

Slots == 1 .. MAX_NOTES

LoadedFrom(m, f, own) ==
  Loaded([m EXCEPT
    !.notes = [i \in 1 .. f.count |->
                 [NewNote(i) EXCEPT !.title = Titled(f.notes[i].title, i),
                                    !.count = Len(f.notes[i].lines)]],
    !.reu = [i \in Slots |-> IF i <= f.count THEN f.notes[i].lines ELSE <<<<>>>>],
    !.cur = f.cur, !.top = 0, !.focus = "edit",
    !.own = own, !.modified = FALSE, !.failed = FALSE, !.broken = FALSE])

\* A file that ends too early: what was read replaces the notes; the lines read
\* last stay in the buffer, which keeps its cursor and line count.
LoadedHalf(m, f) ==
  LET k == Len(f.notes)
      part == IF f.part = {} THEN [title |-> NoTitle, count |-> 0, lines |-> <<>>]
              ELSE CHOOSE p \in f.part : TRUE
      note(i) ==
        IF i <= k THEN [NewNote(i) EXCEPT !.title = Titled(f.notes[i].title, i),
                                          !.count = Len(f.notes[i].lines)]
        ELSE IF i = k + 1 /\ f.part # {}
        THEN [NewNote(i) EXCEPT !.title = Titled(part.title, i),
                                !.count = part.count]
        ELSE [NewNote(i) EXCEPT !.title = NoTitle, !.count = 0]
  IN  Unmarked([m EXCEPT
        !.notes = [i \in 1 .. f.count |-> note(i)],
        !.reu = [i \in Slots |-> IF i <= k THEN f.notes[i].lines ELSE <<<<>>>>],
        !.lines = Fetched(part.lines, Len(m.lines)),
        !.cur = f.cur, !.top = 0, !.focus = "edit", !.broken = TRUE])

-----------------------------------------------------------------------------
\* quicknotes_init, init_blank_document
Blank ==
  NewText @@ [notes |-> <<NewNote(1)>>, cur |-> 1, top |-> 0, focus |-> "edit",
              reu |-> [i \in Slots |-> <<<<>>>>]]

Machine(own, clip, disk) ==
  Blank @@ [own |-> own, clip |-> clip, disk |-> disk, failed |-> FALSE,
            broken |-> FALSE]

Init ==
  /\ mode \in Modes
  /\ ram \in {Machine(FALSE, c, {}) : c \in Clips[mode]}
  /\ store = {} /\ todo = "keys"

InUse(what) == what \in Uses[mode]
Becomes(m)  == todo = "keys" /\ ram' = m /\ UNCHANGED <<store, todo, mode>>
Lists       == ~ram.broken /\ ram.focus = "list"
Edits       == ~ram.broken /\ ram.focus = "edit" /\ ~ram.sel

\* quicknotes_loop: CTRL-L and CTRL-O; in the list also RETURN, RIGHT and keys
\* that belong to the text, in the text LEFT in the first column.
Pane ==
  ~ram.broken /\ Becomes([ram EXCEPT !.focus = IF @ = "list" THEN "edit" ELSE "list"])

\* The keys of the list: up, down, home and list_page_up, list_page_down
Switch ==
  \E i \in {ram.cur - 1, ram.cur + 1, 1,
            IF ram.cur - 1 > Jump THEN ram.cur - Jump ELSE 1,
            Smaller(ram.cur + Jump, Len(ram.notes))} :
    Lists /\ i \in DOMAIN ram.notes /\ Becomes(Switched(ram, i))

\* The keys of the text when nothing is selected
Type   == \E c \in Keys[mode] : Edits /\ Becomes(Typed(ram, c))
Return == Edits /\ Becomes(Broken(ram))
Delete == Edits /\ Becomes(Deleted(ram))

CursorKey(key) ==
  Edits /\ (key = "left" => ram.x > 0) /\ Becomes(Steps(ram, key))

Page    == Edits /\ InUse("page") /\ (Becomes(PagedDown(ram)) \/ Becomes(PagedUp(ram)))
LineEnd == Edits /\ Becomes(Placed(ram, ram.y, Len(ram.lines[ram.y])))

Find ==
  \E needle \in Needles[mode] :
    Edits /\ InUse("find") /\ \E n \in Finds(ram, needle) : Becomes(n)

SelectStart    == Edits /\ InUse("select") /\ Becomes(Selecting(ram))
SelectKey(key) == ram.focus = "edit" /\ ram.sel /\ Becomes(SelectSteps(ram, key))

Clipped(m) == IF CopyText(m) = {} THEN m
              ELSE [m EXCEPT !.clip = CHOOSE t \in CopyText(m) : TRUE]

SelectEnd ==
  /\ ram.focus = "edit" /\ ram.sel
  /\ \E m \in {ram} \cup (IF InUse("copy") THEN {Clipped(ram)} ELSE {}) :
       Becomes(Unmarked(m))

Copy  == Edits /\ InUse("copy") /\ Becomes(Clipped(ram))
Paste == Edits /\ InUse("copy") /\ ram.clip # <<>> /\ Becomes(Pasted(ram, ram.clip))

\* The keys of both panes
Create     == (Lists \/ Edits) /\ Becomes(Created(ram))
DeleteNote == (Lists \/ Edits) /\ Becomes(NoteDeleted(ram))
Move == (Lists \/ Edits) /\ \E i \in {ram.cur - 1, ram.cur + 1} : Becomes(Moved(ram, i))

Rename ==
  /\ Lists \/ Edits
  /\ InUse("rename") /\ \E title \in Titles[mode] : Becomes(Renamed(ram, title))

\* The old file is scratched first; then opening or writing may fail.
Save ==
  /\ Lists \/ Edits
  /\ InUse("file")
  /\ LET s == Stored(ram)
         f == Whole(s)
     IN  \/ Becomes([s EXCEPT !.own = TRUE, !.modified = FALSE, !.disk = {f},
                              !.failed = FALSE])
         \/ \E d \in {{}} \cup {{g} : g \in BrokenOff(f)} :
              Becomes([s EXCEPT !.disk = d, !.failed = TRUE])

\* A file that cannot be opened, or has another header, changes nothing.  What
\* can be done after a load that failed halfway, but to load again, is left out:
\* its cursor may lie behind the end of its line.
Open ==
  /\ Lists \/ Edits \/ ram.broken
  /\ InUse("file")
  /\ \E own \in BOOLEAN : \E f \in IF own THEN ram.disk ELSE OtherFiles[mode] :
       Becomes(IF Len(f.notes) = f.count THEN LoadedFrom(ram, f, own)
               ELSE LoadedHalf(ram, f))

\* handle_global_nav and resume_save_state; RUN/STOP invalidates the payload.
Leave ==
  LET m == Stored(ram)
  IN  /\ todo = "keys" /\ ~ram.broken /\ todo' = "left" /\ ram' = m
      /\ store' \in {{}, {[f \in DOMAIN Blank \ {"reu"} |-> m[f]]}}
      /\ UNCHANGED mode

\* resume_restore_state; another program may have used the clipboard.
Resumed(m, p) == AllClamped([f \in DOMAIN m |-> IF f \in DOMAIN p THEN p[f] ELSE m[f]])

Restart ==
  /\ todo = "left"
  /\ \E c \in Clips[mode] \cup {ram.clip} :
       ram' \in IF store = {} THEN {Machine(FALSE, c, {})}
                ELSE {[Resumed(ram, p) EXCEPT !.clip = c] : p \in store}
  /\ store' = {} /\ todo' = "keys" /\ UNCHANGED mode

Next ==
  \/ Pane \/ Switch \/ Type \/ Return \/ Delete \/ Page \/ LineEnd \/ Find
  \/ \E key \in CursorKeys : CursorKey(key) \/ SelectKey(key)
  \/ SelectStart \/ SelectEnd \/ Copy \/ Paste
  \/ Create \/ DeleteNote \/ Move \/ Rename \/ Save \/ Open \/ Leave \/ Restart

-----------------------------------------------------------------------------
\* The notes as the user knows them: the one edited is in RAM.
Notebook(m) ==
  [i \in DOMAIN m.notes |->
     [title |-> m.notes[i].title,
      lines |-> IF i = m.cur THEN m.lines
                ELSE Fetched(m.reu[i], m.notes[i].count)]]

EmptyNote(i) == [title |-> DefaultTitle[i], lines |-> <<<<>>>>]

\* Switching keeps every note and its cursor, but for a cursor behind a full
\* line; the other keys change the list as their names say.
NotesKept(m) ==
  LET book == Notebook(m)
  IN  /\ \A i \in DOMAIN book :
           LET there == Switched(m, i)
               back == Switched(there, m.cur)
           IN  /\ Notebook(there) = book /\ there.cur = i
               /\ back.y = m.y
               /\ m.x < MAX_LINE_LEN - 1 \/ i = m.cur => back.x = m.x
      /\ Len(book) < MAX_NOTES =>
           Notebook(Created(m)) = InsertAt(book, m.cur + 1, EmptyNote(m.cur + 1))
      /\ Notebook(NoteDeleted(m)) =
           IF Len(book) = 1 THEN <<EmptyNote(1)>> ELSE RemoveAt(book, m.cur)
      /\ \A i \in DOMAIN book \cap {m.cur - 1, m.cur + 1} :
           LET moved == Moved(m, i)
           IN  /\ Notebook(moved) = [book EXCEPT ![i] = book[m.cur],
                                                 ![m.cur] = book[i]]
               /\ moved.cur = i

ListInView(m) == m.cur - m.top \in 1 .. EDIT_HEIGHT

SavedLoads(m) ==
  LET back == LoadedFrom(m, Whole(Stored(m)), TRUE)
  IN  Notebook(back) = Notebook(m) /\ back.cur = m.cur

\* Notes that are not marked as modified are as their file, unless the last
\* save failed.
UnmodifiedSaved(m) ==
  m.own /\ ~m.modified /\ ~m.failed =>
    \A f \in m.disk : Notebook(LoadedFrom(m, f, TRUE)) = Notebook(m)

LeftComesBack ==
  todo = "left" => \A p \in store : Notebook(Resumed(ram, p)) = Notebook(ram)

Sound ==
  /\ LeftComesBack
  /\ ~ram.broken =>
       /\ NotesKept(ram) /\ ListInView(ram) /\ CursorInView(ram)
       /\ InUse("file") => SavedLoads(ram) /\ UnmodifiedSaved(ram)
=============================================================================
