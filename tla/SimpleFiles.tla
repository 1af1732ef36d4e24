---------------------------- MODULE SimpleFiles ----------------------------
(***************************************************************************)
(* Simple Files (src/apps/simplefiles/simplefiles.c with                   *)
(* src/lib/file_browser.c): two panes of directory entries as last read,   *)
(* and the scratch, rename, copy and duplicate commands that act on what   *)
(* the panes show while the disks may say otherwise.                       *)
(*                                                                         *)
(* A copy is a job of several drive commands; `todo' is the job, with its  *)
(* next command in pc.  The drive takes the first free directory slot for  *)
(* a new file, refuses to write a file that exists, and reports a failure  *)
(* in its status, which copy_stream reads and does not look at.            *)
(***************************************************************************)
EXTENDS Naturals, Sequences, SequencesExt, FiniteSets

CONSTANTS
  Names,      \* file names
  Temps,      \* the names sfdup0, sfdup1, ... in order: a sequence
  Data,       \* what files hold
  Part,       \* what a broken off copy holds
  Blocks,     \* blocks of each
  NoFile,     \* a free directory slot
  Slots,      \* bound: entries of a directory
  MaxEntries, \* entries a pane holds: 32 in the code
  Disks,      \* directories of disks the user has
  Modes       \* what may go wrong in a behaviour, see mode

VARIABLES
  ram,    \* panes, active pane, what the status line says
  store,  \* the directories in the drives
  todo,   \* the copy under way (pc # "done") or the last one
  mode    \* what may still go wrong.  "calm": nothing; "faulty": the disks are
          \* changed behind the panes; "copying": in the one copy then made a
          \* command may fail or a reset come; "hit": it has

vars == <<ram, store, todo, mode>>

Drives   == {8, 9}
Panes    == {1, 2}
Toggle(x) == IF x = 8 THEN 9 ELSE 8         \* storage_device_toggle_8_9
File(dir, name) == {i \in 1 .. Slots : dir[i] # NoFile /\ dir[i].name = name}
Has(dir, name)  == File(dir, name) # {}
DataOf(dir, name) == dir[CHOOSE i \in File(dir, name) : TRUE].data

\* file_browser_read_directory: the first entries, in slot order.
Used(dir) == {i \in 1 .. Slots : dir[i] # NoFile}
Place(dir, i) == Cardinality({j \in Used(dir) : j <= i})
Shown(dir) == IF Cardinality(Used(dir)) < MaxEntries THEN Cardinality(Used(dir)) ELSE MaxEntries
Listing(dir) ==
  [k \in 1 .. Shown(dir) |-> dir[CHOOSE i \in Used(dir) : Place(dir, i) = k]]

\* A directory without a file, and one with a file in its first free slot.
Without(dir, name) ==
  [i \in 1 .. Slots |-> IF dir[i] # NoFile /\ dir[i].name = name THEN NoFile ELSE dir[i]]
With(dir, name, data) ==
  LET free == (1 .. Slots) \ Used(dir)
  IN  IF free = {} THEN dir ELSE [dir EXCEPT ![Min(free)] = [name |-> name, data |-> data]]

\* file_browser_scratch: no file of that name is no error.
Scratched(dirs, d, name) == [dirs EXCEPT ![d] = Without(@, name)]
Added(dirs, d, name, data) == [dirs EXCEPT ![d] = With(@, name, data)]

\* file_browser_copy_stream.  A file that exists is not written, and a missing
\* source gives an empty copy.
Streamed(dirs, from, src, to, dst) ==
  IF Has(dirs[to], dst) THEN dirs
  ELSE Added(dirs, to, dst, IF Has(dirs[from], src)
                            THEN DataOf(dirs[from], src) ELSE Part)

\* The same broken off, after the copy was opened or before.  The return code
\* does not tell.
BrokenOff(dirs, to, dst) ==
  IF Has(dirs[to], dst) THEN {dirs} ELSE {dirs, Added(dirs, to, dst, Part)}

\* Disks whose files have different names; a temporary name is one like any other.
AllNames == Names \cup ToSet(Temps)
Files    == [name : AllNames, data : Data \cup {Part}]
Dirs     == {dir \in [1 .. Slots -> Files \cup {NoFile}] :
               \A i, j \in Used(dir) : dir[i].name = dir[j].name => i = j}
FilesAssumption ==
  /\ Slots \in Nat /\ MaxEntries \in Nat /\ Temps \in Seq(AllNames)
  /\ NoFile \notin Files /\ Disks \subseteq Dirs
PiecesShort    == \A x \in Data : Blocks[x] # Blocks[Part]
CalmAssumption ==
  FilesAssumption /\ MaxEntries <= Slots /\ Names \cap ToSet(Temps) = {}

-----------------------------------------------------------------------------
\* pane_find_name; 0 for 255
Find(entries, name) ==
  LET hits == {i \in DOMAIN entries : entries[i].name = name}
  IN  IF hits = {} THEN 0 ELSE Min(hits)

\* pane_clamp
Clamp(sel, entries) == IF sel > Len(entries) THEN Len(entries) ELSE sel

\* pane_load: the selection follows the preferred name, or its own.  prefer is
\* a set of at most one name.
PaneLoad(pane, dirs, prefer) ==
  LET entries == Listing(dirs[pane.drive])
      own     == IF pane.sel \in DOMAIN pane.entries
                 THEN {pane.entries[pane.sel].name} ELSE {}
      wanted  == IF prefer # {} THEN prefer ELSE own
      found   == {Find(entries, n) : n \in wanted} \ {0}
  IN  [pane EXCEPT !.entries = entries,
                   !.sel = Clamp(IF found = {} THEN @
                                 ELSE CHOOSE i \in found : TRUE, entries)]

\* reload_matching_drives
Reload(panes, dirs, d, prefer) ==
  [p \in Panes |-> IF panes[p].drive = d THEN PaneLoad(panes[p], dirs, prefer)
                   ELSE panes[p]]

LoadBoth(panes, dirs) == [p \in Panes |-> PaneLoad(panes[p], dirs, {})]

\* browser_normalize_visible_drives
Normalized(panes) ==
  IF panes[1].drive = panes[2].drive
  THEN [panes EXCEPT ![2].drive = Toggle(panes[1].drive)] ELSE panes

Active  == ram.panes[ram.active]
Passive == ram.panes[3 - ram.active]
Entry   == Active.entries[Active.sel]
Chosen  == todo.pc = "done" /\ Active.sel \in DOMAIN Active.entries

\* browser_find_loaded_entry: the data of the entry a pane shows
Loaded(panes, d, name) ==
  LET hit == {p \in Panes : panes[p].drive = d /\ Find(panes[p].entries, name) # 0}
      e   == panes[Min(hit)].entries
  IN  IF hit = {} THEN {} ELSE {e[Find(e, name)].data}

\* Mutant: whatever has the name will do.
VerifiedByName(panes, d, name, pane, i) == Loaded(panes, d, name) # {}

\* browser_verify_copy_result, against the i-th entry the pane shows now: the
\* code keeps a pointer to the entry while the panes are read again.
Verified(panes, d, name, pane, i) ==
  \E x \in Loaded(panes, d, name) :
    /\ i \in DOMAIN panes[pane].entries
    /\ Blocks[x] = Blocks[panes[pane].entries[i].data]

-----------------------------------------------------------------------------
NoJob == [pc |-> "done", result |-> "none"]

\* cold_start_browser
Cold(dirs) ==
  [panes |-> LoadBoth([p \in Panes |-> [drive |-> 7 + p, entries |-> <<>>,
                                        sel |-> 1]], dirs),
   active |-> 1]

Init ==
  /\ store \in [Drives -> Disks]
  /\ ram = Cold(store)
  /\ todo = NoJob
  /\ mode \in Modes

SetPanes(panes) == ram' = [ram EXCEPT !.panes = panes]
Quiet == todo' = NoJob /\ UNCHANGED mode

\* Cursor left and right; browser_move_vertical, browser_page_move, HOME
SwitchActive ==
  todo.pc = "done" /\ ram' = [ram EXCEPT !.active = 3 - @]
  /\ Quiet /\ UNCHANGED store

Move(i) ==
  /\ todo.pc = "done" /\ i \in DOMAIN Active.entries /\ i # Active.sel
  /\ ram' = [ram EXCEPT !.panes[ram.active].sel = i]
  /\ Quiet /\ UNCHANGED store

\* F3: browser_cycle_drive
CycleDrive ==
  /\ todo.pc = "done"
  /\ LET n == Normalized(ram.panes)
         t == [n EXCEPT ![ram.active].drive = Toggle(@)]
     IN  SetPanes([t EXCEPT ![ram.active] = PaneLoad(@, store, {})])
  /\ Quiet /\ UNCHANGED store

\* S: browser_swap_drives
SwapDrives ==
  /\ todo.pc = "done"
  /\ SetPanes(LoadBoth([p \in Panes |->
       [ram.panes[p] EXCEPT !.drive = ram.panes[3 - p].drive]], store))
  /\ Quiet /\ UNCHANGED store

\* F5: browser_refresh_all
RefreshAll ==
  /\ todo.pc = "done"
  /\ SetPanes(LoadBoth(Normalized(ram.panes), store))
  /\ Quiet /\ UNCHANGED store

\* DEL: browser_delete_entry, confirmed; the panes are read again only when the
\* command succeeds.
DeleteEntry ==
  /\ Chosen
  /\ LET dirs == Scratched(store, Active.drive, Entry.name)
     IN  /\ store' = dirs
         /\ SetPanes(Reload(ram.panes, dirs, Active.drive, {}))
  /\ Quiet

\* R: browser_rename_entry
RenameEntry(new) ==
  /\ Chosen
  /\ Find(Active.entries, new) = 0
  /\ Has(store[Active.drive], Entry.name)
  /\ ~Has(store[Active.drive], new)
  /\ LET d    == Active.drive
         dirs == [store EXCEPT ![d] = [i \in 1 .. Slots |->
                    IF i \in File(@, Entry.name)
                    THEN [@[i] EXCEPT !.name = new] ELSE @[i]]]
     IN  /\ store' = dirs
         /\ SetPanes(Reload(ram.panes, dirs, d, {new}))
  /\ Quiet

-----------------------------------------------------------------------------
\* browser_name_exists_on_loaded_drive
NameExists(d, name) ==
  \/ Active.drive = d /\ Find(Active.entries, name) # 0 /\ Entry.name # name
  \/ Passive.drive = d /\ Find(Passive.entries, name) # 0

\* The temporary names the passive pane does not show.
FreeTemps(name) ==
  {k \in DOMAIN Temps : Temps[k] # name /\ Find(Passive.entries, Temps[k]) = 0}

\* What the panes show is what the disks hold, and all of it.  (Not in the
\* program: the properties need to know it of the start of a job.)
Current ==
  /\ {ram.panes[p].drive : p \in Panes} = Drives
  /\ \A p \in Panes :
       LET dir == store[ram.panes[p].drive]
       IN  /\ ram.panes[p].entries = Listing(dir)
           /\ Cardinality(Used(dir)) <= MaxEntries

\* C and N: browser_copy_entry to the other drive.  D: to the same one, by way
\* of a temporary file on the other.
CopyEntry(dup, name) ==
  LET dst == IF dup THEN Active.drive ELSE Toggle(Active.drive)
  IN  /\ Chosen /\ mode \in {"calm", "faulty"}
      /\ dup => name # Entry.name
      /\ todo' = [pc |-> IF NameExists(dst, name) THEN "overwrite" ELSE "copy",
                  pane |-> ram.active, idx |-> Active.sel, src |-> Entry.name,
                  from |-> Active.drive, dst |-> dst, name |-> name, dup |-> dup,
                  temp |-> name, confirmed |-> NameExists(dst, name),
                  before |-> store, current |-> Current,
                  result |-> "none"]
      /\ mode' = IF mode = "calm" THEN "calm" ELSE "copying"   \* bound
      /\ UNCHANGED <<ram, store>>

Goto(pc) == todo' = [todo EXCEPT !.pc = pc]
Ends(r)  == todo' = [todo EXCEPT !.pc = "done", !.result = r]

\* The directories after a copy_stream command, which may be the one that fails.
Streams(ds, before, from, src, to, dst) ==
  \/ ds = Streamed(before, from, src, to, dst) /\ UNCHANGED mode
  \/ mode = "copying" /\ mode' = "hit" /\ ds \in BrokenOff(before, to, dst)

\* The user agrees, and the old file is scratched.
Overwrite ==
  /\ todo.pc = "overwrite"
  /\ store' = Scratched(store, todo.dst, todo.name)
  /\ Goto("copy") /\ UNCHANGED <<ram, mode>>

Copy ==
  /\ todo.pc = "copy" /\ ~todo.dup
  /\ Streams(store', store, todo.from, todo.src, todo.dst, todo.name)
  /\ SetPanes(Reload(Reload(ram.panes, store', todo.dst, {todo.name}),
                     store', todo.from, {todo.src}))
  /\ Goto("verify")

\* The user does not agree.
Cancel ==
  todo.pc = "overwrite" /\ Ends("refused") /\ UNCHANGED <<ram, store, mode>>

\* browser_duplicate_via_stage, up to the temporary file
Refuse ==
  /\ todo.pc = "copy" /\ todo.dup
  /\ Passive.drive = todo.from \/ FreeTemps(todo.name) = {}
  /\ Ends("refused") /\ UNCHANGED <<ram, store, mode>>

Stage ==
  /\ todo.pc = "copy" /\ todo.dup
  /\ Passive.drive # todo.from /\ FreeTemps(todo.name) # {}
  /\ LET t == Temps[Min(FreeTemps(todo.name))]
     IN  /\ Streams(store', Scratched(store, Passive.drive, t),
                    todo.from, todo.src, Passive.drive, t)
         /\ SetPanes(Reload(ram.panes, store', Passive.drive, {t}))
         /\ todo' = [todo EXCEPT !.temp = t, !.pc = "unstage"]

\* Its second half: the temporary file is verified and copied back.
StageVerified ==
  Verified(ram.panes, Passive.drive, todo.temp, todo.pane, todo.idx)

Unstage ==
  /\ todo.pc = "unstage" /\ StageVerified
  /\ Streams(store', store, Passive.drive, todo.temp, todo.dst, todo.name)
  /\ SetPanes(Reload(ram.panes, store', todo.from, {todo.name}))
  /\ Goto("unstaged")

ScratchTemp(then) ==
  /\ store' = Scratched(store, Passive.drive, todo.temp)
  /\ SetPanes(Reload(ram.panes, store', Passive.drive, {}))
  /\ then /\ UNCHANGED mode

StageBad ==
  todo.pc = "unstage" /\ ~StageVerified /\ ScratchTemp(Ends("stage verify"))

Unstaged == todo.pc = "unstaged" /\ ScratchTemp(Goto("verify"))

VerifiedCopy ==
  Verified(ram.panes, todo.dst, todo.name, todo.pane, todo.idx)

Verify ==
  /\ todo.pc = "verify" /\ VerifiedCopy
  /\ Ends("copied") /\ UNCHANGED <<ram, store, mode>>

\* A copy that does not verify is scratched.
VerifyBad ==
  /\ todo.pc = "verify" /\ ~VerifiedCopy
  /\ store' = Scratched(store, todo.dst, todo.name)
  /\ SetPanes(Reload(ram.panes, store', todo.dst,
                     IF todo.dup THEN {todo.src} ELSE {}))
  /\ Ends("verify") /\ UNCHANGED mode

-----------------------------------------------------------------------------
\* The user puts another disk into a drive, here or while another program
\* runs: the program comes back with the panes it left.
ChangeDisk(d, disk) ==
  /\ todo.pc = "done" /\ mode = "faulty"
  /\ store' = [store EXCEPT ![d] = disk]
  /\ Quiet /\ UNCHANGED ram

\* A reset; the program starts afresh.
Restart ==
  /\ mode = "copying" /\ mode' = "hit"
  /\ ram' = Cold(store)
  /\ todo' = NoJob /\ UNCHANGED store

Next ==
  \/ SwitchActive \/ CycleDrive \/ SwapDrives \/ RefreshAll
  \/ \E i \in 1 .. MaxEntries : Move(i)
  \/ DeleteEntry
  \/ \E n \in Names : RenameEntry(n)
  \/ \E n \in Names, dup \in BOOLEAN : CopyEntry(dup, n)
  \/ Cancel \/ Overwrite \/ Copy \/ Verify \/ VerifyBad
  \/ Refuse \/ Stage \/ StageBad \/ Unstage \/ Unstaged
  \/ \E d \in Drives, disk \in Disks : ChangeDisk(d, disk)
  \/ Restart

Spec == Init /\ [][Next]_vars

-----------------------------------------------------------------------------
Job == todo # NoJob

\* A duplicate goes behind the entry it is made of.  (Where it goes before it,
\* the entry the code compares with is another file's.)
EntryStays ==
  \A i \in 1 .. Slots :
    \A j \in File(todo.before[todo.from], todo.src) :
      i < j => todo.before[todo.from][i] # NoFile

\* Whatever fails, a copy or duplicate destroys no file but the one whose
\* overwriting the user confirmed, provided the panes showed both disks in
\* full when it began.  (Otherwise a file of the target name the panes do not
\* show is taken for a bad copy and scratched.)
OnlyConfirmedLost ==
  Job /\ todo.current =>
    \A d \in Drives, i \in 1 .. Slots :
      LET f == todo.before[d][i]
      IN  \/ f = NoFile
          \/ todo.confirmed /\ d = todo.dst /\ f.name = todo.name
          \/ Has(store[d], f.name) /\ DataOf(store[d], f.name) = f.data

\* Whatever fails, a copy reported as made holds what the source held, under
\* the same proviso.
CopiedIsEqual ==
  Job /\ todo.current /\ todo.result = "copied"
      /\ (todo.dup => EntryStays) =>
    /\ Has(store[todo.dst], todo.name)
    /\ DataOf(store[todo.dst], todo.name)
         = DataOf(todo.before[todo.from], todo.src)

\* When nothing fails and the disks have room for a pane's worth, a copy that
\* was begun is made, and a duplicate leaves no temporary file behind.
CopySucceeds ==
  Job /\ todo.current /\ todo.pc = "done" /\ mode = "calm"
      /\ (todo.dup => EntryStays)
      /\ (\A d \in Drives : Cardinality(Used(todo.before[d])) < MaxEntries) =>
    \/ todo.result = "refused"
    \/ /\ todo.result = "copied"
       /\ \A d \in Drives, t \in ToSet(Temps) :
            Has(store[d], t) => Has(todo.before[d], t)
=============================================================================
