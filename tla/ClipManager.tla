---------------------------- MODULE ClipManager ----------------------------
(***************************************************************************)
(* The clipboard manager (src/apps/clipmgr/clipmgr.c): shows the items of  *)
(* the clipboard that all programs share, and saves and loads them.        *)
(*                                                                         *)
(* A file is a sequence of bytes, among them the header of a bundle and    *)
(* the heads of its records, which count as one byte each.  From some      *)
(* access on, the drive may fail.                                          *)
(***************************************************************************)
EXTENDS Integers, Sequences, SequencesExt, FiniteSets

CONSTANTS
  CLIP_MAX_ITEMS, CLIP_MAX_BYTES, IO_BUF_SIZE,
  MAX_DIR_ENTRIES,                  \* on a page of the directory
  VIEW_TEXT_COLS, VIEW_TEXT_LINES,
  BankIds,
  Names,      \* of files, in the order of the directory
  NoFile,
  Clips,      \* by mode: what the clipboard may hold at first
  Copied,     \* what other programs copy
  Disks,      \* by mode: what the two drives may hold
  Faults,     \* by mode: accesses after which a drive fails
  MaxSteps,   \* by mode: loads, saves and copies
  Modes

VARIABLES
  ram,    \* the program's data; screen is what the screen shows
  store,  \* the banks, the clipboard's table, and the disks
  todo,   \* steps to take, and what was asked for last
  mode

vars == <<ram, store, todo, mode>>

Byte(c)   == <<"byte", c>>
Hdr(n)    == <<"hdr", n>>    \* a header of n entries; a wrong one if n is 0
Rec(size) == <<"rec", size>>
Return    == Byte("return")
VIEW_PAGE_BYTES == VIEW_TEXT_COLS * VIEW_TEXT_LINES

Lesser(a, b)  == IF a < b THEN a ELSE b
Chunks(n)     == (n + IO_BUF_SIZE - 1) \div IO_BUF_SIZE
Items(s)      == [k \in DOMAIN s.list |-> SubSeq(s.data[s.list[k].bank], 1, s.list[k].size)]
FreeOnes(s)   == {b \in BankIds : s.types[b] = "free"}
Lowest(S)     == CHOOSE b \in S : \A c \in S : b <= c

-----------------------------------------------------------------------------
\* The clipboard.  The data of a free bank is of no use to anyone.
Alloc(s)        == [s EXCEPT !.types[Lowest(FreeOnes(s))] = "clip"]
Free(s, b)      == [s EXCEPT !.types[b] = "free", !.data[b] = <<>>]
Insert(s, b, n) == [s EXCEPT !.list = <<[bank |-> b, size |-> n]>> \o @]
IsFull(s)       == Len(s.list) >= CLIP_MAX_ITEMS
Delete(s, k)    == [Free(s, s.list[k].bank) EXCEPT !.list = RemoveAt(@, k)]
Clear(s) ==
  LET held == {s.list[k].bank : k \in DOMAIN s.list}
  IN  [s EXCEPT !.list = <<>>,
                !.types = [b \in BankIds |-> IF b \in held THEN "free" ELSE @[b]],
                !.data  = [b \in BankIds |-> IF b \in held THEN <<>> ELSE @[b]]]

\* clip_copy, of another program
Copy(s, bytes) ==
  IF FreeOnes(s) = {} \/ IsFull(s) THEN s
  ELSE LET b == Lowest(FreeOnes(s))
       IN  Insert([Alloc(s) EXCEPT !.data[b] = bytes], b, Len(bytes))

-----------------------------------------------------------------------------
\* A file being read: what is left of it, and how many accesses succeed.
Opened(file, left) == [rest |-> file, left |-> left - 1, ok |-> left > 0]
Skipped(r, n) ==
  IF ~r.ok \/ r.left < Chunks(n) \/ Len(r.rest) < n THEN [r EXCEPT !.ok = FALSE]
  ELSE [r EXCEPT !.rest = SubSeq(@, n + 1, Len(@)), !.left = @ - Chunks(n)]

\* file_load_raw_to_clipboard: a failing read ends the file.
LoadRaw(s, file, left) ==
  LET b     == Lowest(FreeOnes(s))
      r     == Opened(file, left)
      got   == Lesser(Len(file), r.left * IO_BUF_SIZE)
      total == Lesser(got, CLIP_MAX_BYTES)
  IN  IF IsFull(s) THEN <<"full", s>>
      ELSE IF FreeOnes(s) = {} THEN <<"no reu", s>>
      ELSE IF ~r.ok THEN <<"io", Free(Alloc(s), b)>>
      ELSE <<IF got > CLIP_MAX_BYTES THEN "truncated" ELSE "ok",
             Insert([Alloc(s) EXCEPT !.data[b] = SubSeq(file, 1, total)], b, total)>>

\* The entries of a bundle are staged in banks of their own.
RECURSIVE FreeStaged(_, _), Staged(_, _, _, _, _), InsertStaged(_, _)
FreeStaged(s, staged) ==
  IF staged = <<>> THEN s ELSE FreeStaged(Free(s, Last(staged)[1]), Front(staged))
InsertStaged(s, staged) ==
  IF staged = <<>> THEN s
  ELSE InsertStaged(Insert(s, Last(staged)[1], Last(staged)[2]), Front(staged))

Staged(s, r, entries, staged, rc) ==
  IF entries = 0 THEN <<rc, InsertStaged(s, staged)>>
  ELSE
    LET head == Skipped(r, 1)
        size == r.rest[1][2]
        body == Skipped(head, size)
        io   == <<"io", FreeStaged(s, staged)>>
        room == Len(staged) < CLIP_MAX_ITEMS - Len(s.list)
        Short(some, none) == IF staged # <<>> THEN some ELSE none
    IN  IF ~head.ok THEN io
        ELSE IF r.rest[1][1] # "rec" \/ size = 0 THEN io
        ELSE IF ~body.ok THEN io
        ELSE IF ~room \/ rc # "ok"
        THEN Staged(s, body, entries - 1, staged,
                    IF rc = "ok" THEN Short("partial full", "full") ELSE rc)
        ELSE IF FreeOnes(s) = {}
        THEN Staged(s, body, entries - 1, staged, Short("partial reu", "no reu"))
        ELSE LET b == Lowest(FreeOnes(s))
             IN  Staged([Alloc(s) EXCEPT !.data[b] = SubSeq(head.rest, 1, size)], body,
                        entries - 1, Append(staged, <<b, size>>), rc)

\* file_load_to_clipboard
Load(s, file, left) ==
  LET r    == Opened(file.bytes, left)
      head == Skipped(r, 1)
  IN  IF file.type # "seq" THEN LoadRaw(s, file.bytes, left)
      ELSE IF ~r.ok THEN <<"io", s>>
      ELSE IF ~head.ok \/ file.bytes[1][1] # "hdr" THEN LoadRaw(s, file.bytes, head.left)
      ELSE IF file.bytes[1][2] \notin 1 .. CLIP_MAX_ITEMS THEN <<"io", s>>
      ELSE Staged(s, head, file.bytes[1][2], <<>>, "ok")

\* What a bundle is made of, write by write
RECURSIVE Pieces(_)
Pieces(bytes) ==
  IF bytes = <<>> THEN <<>>
  ELSE LET n == Lesser(Len(bytes), IO_BUF_SIZE)
       IN  <<SubSeq(bytes, 1, n)>> \o Pieces(SubSeq(bytes, n + 1, Len(bytes)))
Bundle(items) ==
  <<<<Hdr(Len(items))>>>>
  \o FlattenSeq([k \in DOMAIN items |-> <<<<Rec(Len(items[k]))>>>> \o Pieces(items[k])])

Chosen(s, marked) ==
  LET ks == SetToSortSeq(marked, <) IN [k \in DOMAIN ks |-> Items(s)[ks[k]]]

\* file_save_clip_bundle: the old file is scratched, and a failing write leaves a
\* part of the new one.
Save(s, drive, name, marked, left) ==
  LET writes == Bundle(Chosen(s, marked))
      done   == Lesser(Len(writes), left - 2)
      File(k) == [type |-> "seq", bytes |-> FlattenSeq(SubSeq(writes, 1, k))]
  IN  IF left = 0 THEN <<"error", s>>
      ELSE IF left = 1 THEN <<"error", [s EXCEPT !.disks[drive][name] = NoFile]>>
      ELSE <<IF done = Len(writes) THEN "ok" ELSE "error",
             [s EXCEPT !.disks[drive][name] = File(done)]>>

-----------------------------------------------------------------------------
\* draw_view_page: the rows of a page, of which one ends at a RETURN or when full.
RECURSIVE Rows(_, _)
Rows(bytes, n) ==
  IF bytes = <<>> \/ n = 0 THEN <<>>
  ELSE LET ends == {k \in 1 .. Lesser(VIEW_TEXT_COLS, Len(bytes)) : bytes[k] = Return}
       IN  IF ends = {}
           THEN LET k == Lesser(VIEW_TEXT_COLS, Len(bytes))
                IN  <<SubSeq(bytes, 1, k)>> \o Rows(SubSeq(bytes, k + 1, Len(bytes)), n - 1)
           ELSE LET k == Lowest(ends)
                IN  <<SubSeq(bytes, 1, k - 1)>>
                    \o Rows(SubSeq(bytes, k + 1, Len(bytes)), n - 1)
Page(item, offset) ==
  Rows(SubSeq(item, offset + 1, Lesser(Len(item), offset + VIEW_PAGE_BYTES)), VIEW_TEXT_LINES)

\* clipmgr_draw: the list, the selected item, the banks.
Full(r, s) == [rows |-> Items(s), at |-> r.sel,
               detail |-> IF r.sel <= Len(s.list) THEN Items(s)[r.sel] ELSE <<>>,
               free |-> Cardinality(FreeOnes(s))]

Directory(r, s) == SelectSeq(Names, LAMBDA n : s.disks[r.drive][n] # NoFile)
Entries(r, s) ==
  SubSeq(Directory(r, s), r.page + 1, Lesser(Len(Directory(r, s)), r.page + MAX_DIR_ENTRIES))

\* What the screen of a dialog shows
Shown(r, s) ==
  CASE r.dialog = "list" -> Full(r, s)
    [] r.dialog = "view" -> Page(Items(s)[r.sel], r.at)
    [] r.dialog = "open" -> <<Entries(r, s), r.at - r.page, r.drive>>
    [] r.dialog = "mark" -> <<r.at, r.marked>>
    [] r.dialog = "name" -> <<r.drive>>
InList(r)   == [r EXCEPT !.dialog = "list", !.at = 0, !.page = 0, !.marked = {}]
Drawn(r, s) == [r EXCEPT !.screen = Shown(r, s)]

-----------------------------------------------------------------------------
Start == [sel |-> 1, dialog |-> "list", at |-> 0, page |-> 0, marked |-> {}, drive |-> 8,
          screen |-> <<>>]

Holding(items, disks) ==
  [types |-> [b \in BankIds |-> IF b <= Len(items) THEN "clip"
                                ELSE IF b = Len(items) + 1 THEN "other" ELSE "free"],
   data  |-> [b \in BankIds |-> IF b <= Len(items) THEN items[b] ELSE <<>>],
   list  |-> [k \in DOMAIN items |-> [bank |-> k, size |-> Len(items[k])]],
   disks |-> disks]

NothingDone == [what |-> "none"]

Init ==
  /\ mode \in Modes
  /\ \E items \in Clips[mode], disks \in Disks[mode] : store = Holding(items, disks)
  /\ ram = Drawn(Start, store)
  /\ \E left \in Faults[mode] : todo = [steps |-> 0, left |-> left, last |-> NothingDone]

\* A key that takes a step of a dialog, or one that asks for something.
In(dialog) == ram.dialog = dialog
Goes(r) ==
  /\ ram' = Drawn(r, store)
  /\ todo' = [todo EXCEPT !.last = NothingDone] /\ UNCHANGED <<store, mode>>
Asks(r, s, what) ==
  /\ ram' = Drawn(r, s) /\ store' = s
  /\ todo' = [todo EXCEPT !.last = what, !.steps = @ + 1]
  /\ UNCHANGED mode
Files  == mode \in {"load", "save"}
MayAsk == todo.steps < MaxSteps[mode]

\* The list
Moves(k) ==
  LET r == [ram EXCEPT !.sel = k]
  IN  /\ ram' = [r EXCEPT !.screen = [Shown(r, store) EXCEPT !.free = ram.screen.free]]
      /\ todo' = [todo EXCEPT !.last = NothingDone] /\ UNCHANGED <<store, mode>>
Up   == In("list") /\ ram.sel > 1 /\ Moves(ram.sel - 1)
Down == In("list") /\ ram.sel < Len(store.list) /\ Moves(ram.sel + 1)
Del ==
  /\ In("list") /\ MayAsk /\ mode # "load" /\ ram.sel <= Len(store.list)
  /\ Asks([ram EXCEPT !.sel = IF @ >= Len(store.list) /\ @ > 1 THEN @ - 1 ELSE @],
          Delete(store, ram.sel),
          [what |-> "delete", was |-> Items(store), at |-> ram.sel])
ClearAll ==
  /\ In("list") /\ MayAsk /\ mode # "load" /\ store.list # <<>>
  /\ Asks([ram EXCEPT !.sel = 1], Clear(store), [what |-> "clear"])

\* Another program copies, and the manager is resumed, or started again.
OtherCopies(bytes) ==
  /\ In("list") /\ MayAsk /\ ~Files
  /\ LET s == Copy(store, bytes) IN
     \E sel \in {1, IF ram.sel > Len(s.list) /\ s.list # <<>> THEN Len(s.list)
                   ELSE IF s.list = <<>> THEN 1 ELSE ram.sel} :
       Asks([ram EXCEPT !.sel = sel], s, [what |-> "copy"])

\* An item is viewed page by page.
View ==
  /\ In("list") /\ ~Files /\ ram.sel <= Len(store.list)
  /\ Goes([ram EXCEPT !.dialog = "view"])
PageUp ==
  /\ In("view")
  /\ Goes([ram EXCEPT !.at = IF @ >= VIEW_PAGE_BYTES THEN @ - VIEW_PAGE_BYTES ELSE 0])
PageDown ==
  /\ In("view") /\ ram.at + VIEW_PAGE_BYTES < store.list[ram.sel].size
  /\ Goes([ram EXCEPT !.at = @ + VIEW_PAGE_BYTES])

\* show_open_dialog
Open == In("list") /\ Files /\ Goes([ram EXCEPT !.dialog = "open"])
OpenUp ==
  /\ In("open") /\ ram.at > 0
  /\ Goes([ram EXCEPT !.at = @ - 1,
                      !.page = IF ram.at - 1 < @ THEN @ - MAX_DIR_ENTRIES ELSE @])
OpenDown ==
  /\ In("open") /\ ram.at + 1 < Len(Directory(ram, store))
  /\ Goes([ram EXCEPT !.at = @ + 1,
                      !.page = IF ram.at + 1 >= @ + Len(Entries(ram, store))
                               THEN @ + MAX_DIR_ENTRIES ELSE @])
OpenHome == In("open") /\ ram.at # 0 /\ Goes([ram EXCEPT !.at = 0, !.page = 0])
ToggleDrive ==
  /\ ram.dialog \in {"open", "name"}
  /\ Goes([ram EXCEPT !.drive = 17 - @, !.at = 0, !.page = 0])
LoadFile ==
  /\ In("open") /\ MayAsk /\ Entries(ram, store) # <<>>
  /\ LET name == Entries(ram, store)[ram.at - ram.page + 1]
         file == store.disks[ram.drive][name]
         l    == Load(store, file, todo.left)
     IN  Asks([InList(ram) EXCEPT !.sel = IF l[1] \in {"io", "full", "no reu"} THEN @ ELSE 1],
              l[2], [what |-> "load", rc |-> l[1], was |-> store,
                     name |-> Directory(ram, store)[ram.at + 1], file |-> file])

\* show_save_select_dialog
Mark ==
  /\ In("list") /\ mode = "save" /\ ram.sel <= Len(store.list)
  /\ Goes([ram EXCEPT !.dialog = "mark", !.at = ram.sel, !.marked = {ram.sel}])
MarkMove(k) ==
  /\ In("mark") /\ k \in {1, ram.at - 1, ram.at + 1} /\ k \in DOMAIN store.list
  /\ Goes([ram EXCEPT !.at = k])
MarkToggle ==
  /\ In("mark")
  /\ Goes([ram EXCEPT !.marked = SymDiff(@, {ram.at})])
MarkAll  == In("mark") /\ Goes([ram EXCEPT !.marked = DOMAIN store.list])
MarkNone == In("mark") /\ Goes([ram EXCEPT !.marked = {}])
MarkDone ==
  /\ In("mark") /\ ram.marked # {}
  /\ Goes([ram EXCEPT !.dialog = "name", !.sel = ram.at, !.at = 0])

\* show_save_dialog
SaveFile(name) ==
  /\ In("name") /\ MayAsk
  /\ LET w == Save(store, ram.drive, name, ram.marked, todo.left)
     IN  Asks(InList(ram), w[2],
              [what |-> "save", rc |-> w[1], was |-> store, drive |-> ram.drive,
               name |-> name, marked |-> ram.marked])

\* STOP, or RETURN in a view
Cancel ==
  /\ ~In("list")
  /\ Goes(InList([ram EXCEPT !.sel = IF In("mark") THEN ram.at ELSE @]))

Next ==
  \/ Up \/ Down \/ Del \/ ClearAll
  \/ \E bytes \in Copied : OtherCopies(bytes)
  \/ View \/ PageUp \/ PageDown
  \/ Open \/ OpenUp \/ OpenDown \/ OpenHome \/ ToggleDrive \/ LoadFile
  \/ Mark \/ MarkToggle \/ MarkAll \/ MarkNone \/ MarkDone
  \/ \E k \in 1 .. CLIP_MAX_ITEMS : MarkMove(k)
  \/ \E k \in DOMAIN Names : SaveFile(Names[k])
  \/ Cancel

Spec == Init /\ [][Next]_vars

-----------------------------------------------------------------------------
\* The clipboard's banks are those of its items, one for each, whatever load failed
\* or was cut short (free_staged_entries, clip_delete, clip_clear).
BanksOfItems ==
  /\ {b \in BankIds : store.types[b] = "clip"} = {store.list[k].bank : k \in DOMAIN store.list}
  /\ \A j, k \in DOMAIN store.list : j # k => store.list[j].bank # store.list[k].bank
  /\ Len(store.list) <= CLIP_MAX_ITEMS

\* The items of a bundle, if the file is one; no item is empty.
RECURSIVE ItemsOf(_, _)
ItemsOf(bytes, n) ==
  IF n = 0 THEN <<"bundle", <<>>>>
  ELSE IF bytes = <<>> THEN <<"broken">>
  ELSE LET size == bytes[1][2]
           more == ItemsOf(SubSeq(bytes, size + 2, Len(bytes)), n - 1)
       IN  IF bytes[1][1] # "rec" \/ size = 0 \/ Len(bytes) < 1 + size THEN <<"broken">>
           ELSE IF more = <<"broken">> THEN more
           ELSE <<"bundle", <<SubSeq(bytes, 2, size + 1)>> \o more[2]>>
BundleOf(file) ==
  IF file.type # "seq" \/ file.bytes = <<>> THEN <<"raw">>
  ELSE IF file.bytes[1][1] # "hdr" THEN <<"raw">>
  ELSE IF file.bytes[1][2] \notin 1 .. CLIP_MAX_ITEMS THEN <<"broken">>
  ELSE ItemsOf(Tail(file.bytes), file.bytes[1][2])

\* A load puts the file's items, or as many as there is room for, before the others
\* in the file's order, says which, and else changes nothing; what is taken in of
\* an unmarked file when the drive fails is its beginning.
LoadedAsSaved ==
  todo.last.what = "load" =>
    LET l    == todo.last
        was  == Items(l.was)
        now  == Items(store)
        b    == BundleOf(l.file)
        room == Lesser(CLIP_MAX_ITEMS - Len(was), Cardinality(FreeOnes(l.was)))
        \* The drive works until the whole file is read.
        works == todo.left > Len(l.file.bytes) + 3
    IN  /\ store.disks = l.was.disks /\ l.file = l.was.disks[ram.drive][l.name]
        /\ CASE b[1] = "broken" -> store = l.was /\ l.rc # "ok" /\ (works => l.rc = "io")
             [] b[1] = "bundle" ->
                  LET n == Lesser(Len(b[2]), room)
                  IN  IF l.rc = "io" THEN store = l.was /\ ~works
                      ELSE /\ now = SubSeq(b[2], 1, n) \o was
                           /\ (l.rc = "ok") = (n = Len(b[2]))
                           /\ (l.rc \in {"full", "no reu"}) = (n = 0)
             [] b[1] = "raw" ->
                  IF room = 0 THEN now = was /\ l.rc # "ok"
                  ELSE IF l.rc = "io" THEN store = l.was /\ ~works
                  ELSE /\ now # <<>> /\ Tail(now) = was
                       /\ IsPrefix(now[1], l.file.bytes)
                       /\ works => /\ Len(now[1]) = Lesser(Len(l.file.bytes), CLIP_MAX_BYTES)
                                   /\ (l.rc = "ok") = (now[1] = l.file.bytes)

\* What was saved is a bundle of the items marked, in order (unless one is empty,
\* which a load refuses); no other file is touched, and a failure is reported.
SavedWhole ==
  todo.last.what = "save" =>
    LET l    == todo.last
        file == store.disks[l.drive][l.name]
        items == Chosen(store, l.marked)
    IN  /\ store = [l.was EXCEPT !.disks[l.drive][l.name] = file]
        /\ IF l.rc = "ok"
           THEN (\A k \in DOMAIN items : items[k] # <<>>) =>
                  BundleOf(file) = <<"bundle", items>>
           ELSE todo.left < Len(FlattenSeq(Bundle(items))) + 2

\* A deletion takes the selected item out, and the selection stays on an item.
DeletedOne ==
  /\ todo.last.what = "delete" => Items(store) = RemoveAt(todo.last.was, todo.last.at)
  /\ ram.sel \in 1 .. Len(store.list) \/ (ram.sel = 1 /\ store.list = <<>>)

\* A page shows its part of the item from its first byte on, as far as it has rows:
\* what comes after many short lines is not shown.
ViewShows ==
  ram.dialog = "view" =>
    LET item == Items(store)[ram.sel]
        part == SubSeq(item, ram.at + 1, Lesser(Len(item), ram.at + VIEW_PAGE_BYTES))
        text(x) == SelectSeq(x, LAMBDA c : c # Return)
        rows == ram.screen
    IN  /\ ram.at % VIEW_PAGE_BYTES = 0 /\ (item # <<>> => ram.at < Len(item))
        /\ Len(rows) <= VIEW_TEXT_LINES
        /\ \A k \in DOMAIN rows : Len(rows[k]) <= VIEW_TEXT_COLS
        /\ IsPrefix(FlattenSeq(rows), text(part))
        /\ FlattenSeq(rows) = text(part) \/ Len(rows) = VIEW_TEXT_LINES
        /\ Return \notin ToSet(part) => FlattenSeq(rows) = part

\* The list on the screen is the clipboard, and the open dialog's cursor is on the
\* page that is shown.
ListShows ==
  CASE ram.dialog = "list" -> ram.screen = Full(ram, store)
    [] ram.dialog = "open" -> Directory(ram, store) # <<>> =>
                                ram.screen[2] + 1 \in DOMAIN ram.screen[1]
    [] OTHER -> TRUE

Sound == BanksOfItems /\ LoadedAsSaved /\ SavedWhole /\ DeletedOne /\ ViewShows /\ ListShows
=============================================================================
