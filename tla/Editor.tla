------------------------------- MODULE Editor -------------------------------
(***************************************************************************)
(* The text editor (src/apps/editor/editor.c): the text of TextLines, what *)
(* is drawn of it key by key, the file, the clipboard and resume.          *)
(***************************************************************************)
EXTENDS TextLines

CONSTANTS
  LINE_DISPLAY,  \* columns of a line on the screen
  Keys,          \* mode -> what is typed
  Needles,       \* mode -> what is searched for
  Clips,         \* mode -> what other programs put on the clipboard
  OtherFiles,    \* mode -> contents of the other file on the disk
  Uses,          \* mode -> "select", "copy", "file", "page": those used in it
  Modes

VARIABLES
  ram,    \* the text, and shown: for each row of the screen the line's number
          \* (0: none), its text and the columns in reverse; own: the text has
          \* the name of a file; clip: the clipboard's newest item; disk: the
          \* own file, or {}; refused: the drive took less than all of the
          \* last save
  store,  \* the resume payload while the program is left, or {}
  todo,   \* "keys", or "left"
  mode

vars == <<ram, store, todo, mode>>

-----------------------------------------------------------------------------
\* draw_line
Rows == 1 .. EDIT_HEIGHT

BlankRow == [no |-> 0, text |-> <<>>, rev |-> {}]

Row(m, l) ==
  IF l > Len(m.lines) THEN BlankRow
  ELSE [no |-> l, text |-> Cut(m.lines[l], LINE_DISPLAY),
        rev |-> Span(m, l) \cap 0 .. LINE_DISPLAY - 1]

DrawnLines(m, lines) ==
  [m EXCEPT !.shown = [r \in Rows |-> IF r + m.scroll \in lines
                                      THEN Row(m, r + m.scroll) ELSE @[r]]]

\* draw_text
DrawnText(m) == DrawnLines(m, m.scroll + 1 .. m.scroll + EDIT_HEIGHT)

\* draw_cursor, undraw_cursor: the last column stands for all behind it.
Column(m) == Smaller(m.x, LINE_DISPLAY - 1)

WithCursor(m) == [m EXCEPT !.shown[m.y - m.scroll].rev = @ \cup {Column(m)}]

NoCursor(m) ==
  [m EXCEPT !.shown[m.y - m.scroll].rev =
     IF m.x \in Span(m, m.y) THEN @ \cup {Column(m)} ELSE @ \ {Column(m)}]

\* editor_draw
Drawn(m) == WithCursor(DrawnText(m))

\* The lines drawn when the view has not been scrolled
Redrawn(m, n, lines) ==
  WithCursor(IF n.scroll # m.scroll THEN DrawnText(n) ELSE DrawnLines(n, lines))

\* Mutant: after DEL only the line of the cursor is drawn.
DeletedOneLine(m) ==
  LET n == Deleted(NoCursor(m))
  IN  Redrawn(m, n, {n.y})

\* RETURN and DEL in editor_loop
Returned(m) ==
  LET n == Broken(NoCursor(m))
  IN  Redrawn(m, n, n.y - 1 .. n.scroll + EDIT_HEIGHT)

DeletedShown(m) ==
  LET n == Deleted(NoCursor(m))
  IN  Redrawn(m, n, IF Len(n.lines) < Len(m.lines)
                    THEN n.y .. n.scroll + EDIT_HEIGHT ELSE {n.y})

\* redraw_selection_transition, and the same for the end of a selection
Reach(m) == From(m)[1] .. To(m)[1]
Selects(m, n, lines) == WithCursor(DrawnLines(n, Min(lines) .. Max(lines)))

-----------------------------------------------------------------------------
\* file_save: a line break after every line but an empty last one.
Saved(lines) ==
  FlattenSeq([i \in DOMAIN lines |->
    IF i = Len(lines) /\ lines[i] = <<>> THEN <<>> ELSE lines[i] \o <<CR>>])

\* file_load: lines are cut, and so is the text.
LoadedFrom(bytes) ==
  LET after[i \in 0 .. Len(bytes)] ==
        IF i = 0 THEN <<<<>>>>
        ELSE LET ls == after[i - 1]
             IN  IF bytes[i] = CR THEN Append(ls, <<>>)
                 ELSE IF Len(Last(ls)) < MAX_LINE_LEN - 1
                 THEN [ls EXCEPT ![Len(ls)] = Append(@, bytes[i])] ELSE ls
  IN  Cut(after[Len(bytes)], MAX_LINES)

Cold == Drawn(NewText @@ [shown |-> [r \in Rows |-> BlankRow]])

Machine(m, clip) ==
  m @@ [own |-> FALSE, clip |-> clip, disk |-> {}, refused |-> FALSE]

Init ==
  /\ mode \in Modes
  /\ ram \in {Machine(Cold, c) : c \in Clips[mode]}
  /\ store = {} /\ todo = "keys"

InUse(what) == what \in Uses[mode]
Becomes(m)  == todo = "keys" /\ ram' = m /\ UNCHANGED <<store, todo, mode>>
Listens     == ~ram.sel

\* editor_loop: the keys when nothing is selected
Type ==
  \E c \in Keys[mode] :
    LET n == Typed(NoCursor(ram), c)
    IN  Listens /\ Becomes(WithCursor(DrawnLines(n, {n.y})))

Return == Listens /\ Becomes(Returned(ram))

Delete == Listens /\ Becomes(DeletedShown(ram))

CursorKey(key) ==
  Listens /\ Becomes(Redrawn(ram, Steps(NoCursor(ram), key), {}))

Page ==
  /\ Listens /\ InUse("page")
  /\ \/ Becomes(Redrawn(ram, PagedDown(NoCursor(ram)), {}))
     \/ Becomes(Redrawn(ram, PagedUp(NoCursor(ram)), {}))

LineEnd ==
  Listens /\ LET n == NoCursor(ram)
             IN  Becomes(WithCursor(Placed(n, n.y, Len(n.lines[n.y]))))

\* CTRL-F, with its dialog, and CTRL-G; a search that fails shows a message.
Find ==
  \E needle \in Needles[mode] :
    /\ Listens
    /\ \/ \E n \in Finds(ram, needle) : Becomes(Drawn(n))
       \/ \E n \in Finds(NoCursor(ram), needle) : Becomes(Redrawn(ram, n, {}))
       \/ Finds(ram, needle) = {} /\ Becomes(Drawn(ram))

SelectStart ==
  Listens /\ InUse("select") /\ Becomes(WithCursor(Selecting(ram)))

SelectKey(key) ==
  LET n == SelectSteps(NoCursor(ram), key)
  IN  ram.sel /\ Becomes(Selects(ram, n, Reach(ram) \cup Reach(n)))

Clipped(m) == IF CopyText(m) = {} THEN m
              ELSE [m EXCEPT !.clip = CHOOSE t \in CopyText(m) : TRUE]

SelectEnd ==
  /\ ram.sel
  /\ \E m \in {ram} \cup (IF InUse("copy") THEN {Clipped(ram)} ELSE {}) :
       Becomes(Selects(m, Unmarked(m), Reach(ram)))

Copy == Listens /\ InUse("copy") /\ Becomes(WithCursor(Clipped(ram)))

Paste ==
  /\ Listens /\ InUse("copy") /\ ram.clip # <<>>
  /\ Becomes(Drawn(Pasted(NoCursor(ram), ram.clip)))

\* What is on the disk after a save of the text the drive did not take in full:
\* the old file, when it could not be scratched, or none, or a beginning.
Refused(m) ==
  {m.disk, {}} \cup {{SubSeq(Saved(m.lines), 1, k)} : k \in 0 .. Len(Saved(m.lines)) - 1}

\* show_save_dialog and F5: the old file is scratched and the new one opened,
\* which may fail.  What else the drive refuses, a full disk or a protected one,
\* file_save does not ask for: the text counts as saved.
Save ==
  /\ Listens /\ InUse("file")
  /\ LET Done(disk, refused) ==
           Drawn([ram EXCEPT !.own = TRUE, !.modified = FALSE, !.disk = disk,
                             !.refused = refused])
     IN  \/ Becomes(Done({Saved(ram.lines)}, FALSE))
         \/ \E disk \in Refused(ram) : Becomes(Done(disk, TRUE))
         \/ \E disk \in {ram.disk, {}} :
              Becomes(Drawn([ram EXCEPT !.disk = disk, !.refused = TRUE]))

Opened(m, bytes, own) ==
  Drawn([m EXCEPT !.lines = LoadedFrom(bytes), !.y = 1, !.x = 0, !.scroll = 0,
                  !.sel = FALSE, !.ay = 1, !.ax = 0, !.modified = FALSE,
                  !.own = own, !.refused = FALSE])

Open ==
  /\ Listens /\ InUse("file")
  /\ \/ \E bytes \in ram.disk : Becomes(Opened(ram, bytes, TRUE))
     \/ \E bytes \in OtherFiles[mode] : Becomes(Opened(ram, bytes, FALSE))

\* handle_editor_nav and resume_save_state; what is known of the screen, the disk
\* and the clipboard is not the program's.
Leave ==
  LET m == Unmarked(ram)
  IN  /\ todo = "keys" /\ todo' = "left" /\ ram' = m
      /\ store' = {[f \in DOMAIN m \ {"shown", "clip", "disk", "refused"} |-> m[f]]}
      /\ UNCHANGED mode

\* main, when the program is entered again, and resume_restore_state; another
\* program may have used the clipboard.
Restart ==
  /\ todo = "left"
  /\ \E p \in store, c \in Clips[mode] \cup {ram.clip} :
       ram' = Drawn(Clamped([f \in DOMAIN ram |->
                CASE f = "clip" -> c [] f = "shown" -> Cold.shown
                  [] f \in DOMAIN p -> p[f] [] OTHER -> ram[f]]))
  /\ store' = {} /\ todo' = "keys" /\ UNCHANGED mode

Next ==
  \/ Type \/ Return \/ Delete \/ Page \/ LineEnd \/ Find
  \/ \E key \in CursorKeys : CursorKey(key) \/ SelectKey(key)
  \/ SelectStart \/ SelectEnd \/ Copy \/ Paste \/ Save \/ Open
  \/ Leave \/ Restart

-----------------------------------------------------------------------------
\* The screen shows the lines in view, and in reverse the selection and the
\* cursor, after every key.
ScreenShows ==
  todo = "keys" => ram.shown = Drawn(ram).shown

\* A saved text comes back, with an empty line when its last was not empty.
SavedLoads ==
  LET back == LoadedFrom(Saved(ram.lines))
  IN  InUse("file") => back \in {ram.lines, Append(ram.lines, <<>>)}

\* The file gives the text.
OnDisk ==
  \E bytes \in ram.disk : LoadedFrom(bytes) \in {ram.lines, Append(ram.lines, <<>>)}

\* A text that is not marked as modified is as its file, unless the drive took
\* less than all of the last save, which the program may take for a success:
\* through edits, saves, switches and loads.
UnmodifiedSaved ==
  ram.own /\ ~ram.modified /\ ~ram.refused => OnDisk

TextSound ==
  /\ CursorInView(ram) /\ EditsAtCursor(ram) /\ CopiesSelection(ram)
  /\ InUse("copy") => PasteInserts(ram, ram.clip)
  /\ \A needle \in Needles[mode] : FindsNext(ram, needle)

Sound == ScreenShows /\ TextSound /\ SavedLoads /\ UnmodifiedSaved
=============================================================================
