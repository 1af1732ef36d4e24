# A verification model of ReadyOS

ReadyOS keeps a Commodore 64 full of applications in a RAM expansion (REU):
a launcher loads programs into 64K banks, a resident shim swaps them in and
out of memory, and everything they share (who owns which bank, which snapshot
is loaded, hotkeys, clipboard) lives in one bank of the REU, the *ReadyOS
bank*. The REU survives a reset and the C64's memory does not. The modules
here model that system and most of the programs it runs in TLA+; TLC checks
them on small instances and TLAPS proves part of it for all sizes.

## The system

| component | state | operations | module |
|---|---|---|---|
| bank-type table | a byte per bank in the ReadyOS bank | prepare at start, allocate, free | `BankTable` |
| registry | token tables, app registry, catalog texts | mirror (publish), restore, sync | `ReadyOsBank` |
| launcher | arrays of apps in C64 memory | start, load, launch, unload, manifest, hotkeys | `Launcher` |
| launcher's menu | catalog, selection, screen | `apps.cfg` and manifests line by line, startup actions, return | `LauncherMenu` |
| shim | current token, last saved token | preload, run, return, switch, mark loaded | `Launcher`, `AppRuntime` |
| resume state | header and payload behind a snapshot | save, load, invalidate | `ResumeState`, `AppRuntime` |
| owned banks | ownership records | allocate with a record, free | `AppRuntime` |
| clipboard | count and table in the ReadyOS bank, a bank per item | copy, paste, delete, clear | `Clipboard`, `ItemList` |
| size probe | none | count banks | `PhysProbe` |
| UCI gateways | registers of the Ultimate | push a command, read, accept, abort | `UciLink` |
| DMA loading | remembered image path, slots of overlays | probe, load to the REU, fall back to the drive | `DmaLoad` |
| SETUP | `apps.cfg` on a disk image | staged rewrite | `SetupCommit` |
| ReadyShell | variables, scratch in the REU, files | parse a line, run pipelines, commands on files | `ShellParse`, `Shell` |
| calendar | a relative file, tables of its days | create, edit, delete, move, rebuild, resume | `Cal26`, `DayLists` |
| editor, QuickNotes | a text; notes in the REU | keys, selection, clipboard, search, file, resume | `TextLines`, `Editor`, `QuickNotes` |
| task list | an outline, a pool of notes | keys, search, file, clipboard, resume | `Tasklist` |
| Simple Cells | a pool of texts, formulas | edit, evaluate, save, load | `SimpleCells` |
| Dizzy | cards, two relative files | edit, move, filter, save, load | `Dizzy` |
| ReadyIRC | ring of rows, socket, conversation | receive, send, scroll, reconnect, resume | `ReadyIrc` |
| Simple Files | two panes, a job of drive commands | copy, duplicate, rename, delete | `SimpleFiles` |
| clipboard manager | list, staged banks | view, load, save, bundles | `ClipManager` |
| Ultimate Zip | plan, catalog bank, archives on the host | create, extract | `UZip` |
| Calc Plus | two stacks, variables, history | evaluate, store, recall | `CalcPlus` |
| 2048, Deminer, Sidetris | a board | the moves of the game, resume | `Game2048`, `Deminer`, `Sidetris` |
| ReadyBASIC, boot, EasyFlash flavour, viewers, test programs | | | not modelled |

The programs interact through the REU, the shim's data area and files only.
There is one processor and no preemption; what makes the system hard is that

- the machine may be reset between any two accesses to the REU, the disk or
  the Ultimate, and the next start trusts what it finds there;
- the same fact is kept in several places (bank type, token status, registry,
  launcher arrays, ownership record, resume payload; the file and the tables
  read from it; what is in memory and what the screen shows) that are written
  at different times;
- tokens, banks and file names are given again, so a stale name means
  something else later;
- a disk may be missing or another one, a command may be refused, or be
  carried out without the answer being heard; banks, records, pools and heaps
  run out;
- data is moved inside small pools and rings, in place, by byte counters.

What makes a component correct: allocators never hand out a fixed, missing or
used bank and lose none; a snapshot is always written under its own app's
token; a loaded token holds its app's image; the warm start loses nothing of
the session; the clipboard is a list; a program changes what a key is about
and nothing else, its screen shows what it holds, what it saved can be loaded
again, what it reports as done is done, and what it was doing comes back when
it is switched to.

## Modules

`ReadyOs` (initial states, specification, properties) extends `AppRuntime`
(applications and shim: start, resume, return, switch, quit, reset; notes
banks, clipboard and hotkeys as single steps), which extends `Launcher`,
`ReadyOsBank` (the shared variables, sync, the mirror) and `BankTable`.
`MCReadyOs` has its programs and catalogs for TLC. Its proofs are in
`ReadyOsProofs` (types and fixed banks) and `SessionProofs` (the invariant of a
session, what follows from it, and the two action properties). `Clipboard` uses `BankTable` and implements `ItemList`, with
`ClipboardProofs`; `SetupCommit` stands alone, with `SetupProofs`.
`PhysProbeProofs`, `UciProofs`, `DmaProofs` and `FilesProofs` are about four of
the components in `Services`, which checks their assumptions for its instances
(`ServicesAssumption`).

Every other program has the machine to itself while it runs. Their modules
declare the same variables: `ram` (the program's data), `store` (what stays
when it leaves: files, payload, REU), `todo` (the operation or loop it is in)
and `mode` (which scenario). `Documents` and `Services` instantiate them side by
side, with a small instance each, and a behaviour of either is a behaviour of
one of them; that keeps each module a specification of its own and lets one
run check several. `Cal26` implements `DayLists`; `Editor` and `QuickNotes` share
`TextLines`, as the programs share their code.

### Correspondence

State of `ReadyOs`: `btype` is the table at `$B640`, `lookup`, `tstat`, `tapp`
the token tables, `reg` the registry at `$BA00` with its count from the `LS`
record, `file` the catalog's file names, `recs` the resource records,
`hotkey` the nine slots, `clip` the banks in the clipboard table, `image` and
`tail` what the app banks hold, `ram`/`count` the launcher's arrays, `cur` and
`saved` the shim's `$C834` and `$C835` (0 for `$FF`). The variables `bound`
and `stale` only remember which program a slot was bound for and whether that
happened since the last cold start.

`Init` lets the REU hold anything (`Unformatted`), or the tables of an earlier
session, valid header included, whose REU had one of the sizes in `Earlier`
(`Formatted`): banks in the clipboard, banks of owners, and in the snapshots the
payload of an owner that names any banks. So a start finds types written for a
smaller or a larger REU than this one.

One action stands for one operation up to its next point where something else
may happen. A load has the steps `alloc`, `preload`, `resources`, and
`loaded` or `failed`; each includes the mirror or sync the code ends it with.
A reset may come between any two steps. Programs are model values; the
content of a snapshot is the program it belongs to (or the launcher, when
the shim stashed memory into which nothing had been loaded). An owner of two
banks takes them one by one (`TakeNote`), each with its record; when one or its
record is missing (`NoteRefused`) it gives back those it took (`GiveBack`) and
leaves for BASIC (`NoRoom`), and its old payload stays. Load-time
variants that change the same state (KERNAL LOAD and Ultimate DMA) share an
action; `DmaLoad` looks inside the second. The ReadyBASIC resource operations
return the set of their outcomes. `Trusting` are the programs that take a
payload's bank without looking at its type (ReadyIRC).

In the programs' modules an action is a key or a menu choice with all that its
handler does. Where a failure may come in the middle, the operation is cut at
its accesses: `Cal26` at each record read or written, where an access is refused
(`Fail`) or a write is lost without a word (`Lose`: the status after the bytes
is not read), `SimpleFiles` at each
drive command, `UZip` and `DmaLoad` at each DOS command, `UciLink` at each
read of the status register, `ResumeState` and `Clipboard` at each transfer,
`ShellParse` at each allocation. Texts are sequences of a few characters
or, where only length and meaning matter, model values with both given
(`Len1`, `Words`, `Meaning`). The editor and the task list write without reading
the results, so that a save may leave a beginning of the file and count as done.
The index of Deminer's blast
is a byte in which `$FF` says none: `NoCell` is that value, which on the largest
board is the last cell as well, and in `Services` it is a cell of the larger
board. What is drawn incrementally is kept in the state
as the code leaves it, so that a property can compare it with what should be
there.

`SetupCommit`: `disk` has the three names SETUP uses in the image, a file being
the path it names and how many WRITE commands of it are there; every Ultimate
DOS command is one action that may be refused, or carried out without SETUP
hearing of it (the time-outs of `setup_uci_command`). What Ultimate DOS does
with a command is external and taken from `docs/ultimate_setup.md`: creating
and renaming never replace a file, and create, rename and delete happen
entirely or not at all.

Abstractions to know:

- one DMA transfer, one mirror and one shim entry point are atomic with
  respect to a reset (`Clipboard`, `ResumeState` and `PhysProbe` look inside
  theirs);
- the registry's 64 records, tokens 1..254 and banks 0..255 are parameters;
- in `ReadyOs` a resume payload is what the accept test compares and the banks
  it names; the REU size may differ between the earlier session and those of
  the behaviour, but not within it, and Skip is always the same (a start with
  another one works on the tables of another bank, which is a behaviour of its
  own, from either kind of initial state); in `ResumeState`, Skip may change;
- a write of the calendar is lost whole or done whole;
- at power-on the ReadyOS bank has an invalid header and arbitrary contents,
  chosen only where the code's zeroing matters;
- a cold start forgets the images of banks no token maps to; the bytes remain
  in the REU but no code reads them before a preload writes them again;
- Calc Plus computes with fractions and prints a few decimals, random
  generators are choices, gravity in Sidetris may act between any two keys.

## Runs

| run | asks | distinct states |
|---|---|---|
| `ReadyOs_notes` | an app that owns two banks, the clipboard, loads, unloads, switches, failing loads and resets, on tables left by a smaller REU: no bank shared, lost, overwritten or out of reach, nothing loaded forgotten | 2,593,259 |
| `ReadyOs_manifest` | apps added from manifests, ReadyBASIC with its two banks among them, rolled back and added again, a record table too small; the invariant of the proofs, no bank lost | 1,649,166 |
| `Clipboard` | the clipboard access by access, with resets; ends, and refines `ItemList` | 558,492 |
| `SetupCommit` | attempts with refused and unheard commands and power cuts | 2,212 |
| `Documents` | the programs that keep something for their user: calendar (refines `DayLists`), sheet, tasks, text, notes, cards, chat | 1,301,947 |
| `Services` | launcher's menu, size probe and resume, gateways and DMA loading, files, archiver, clipboard manager, shell, calculator, games | 2,221,673 |
| `Cal26_stale`, `Tasklist_notes`, `Shell_savelist`, `ReadyOs_scrollback`, `ReadyOs_rollback`, `ReadyOs_shrunk` | expected to be violated, see below | |

Properties of the system (`ReadyOs.tla`, `Clipboard.tla`, `SetupCommit.tla`):
`FixedBanks` (while ReadyOS runs, the ReadyOS bank, banks below it and missing
banks are never given away and no other bank is out of reach), `BanksOwnedOnce` (no bank has two users, every used bank is typed
so), `NoBankLost` (no step of a session makes a bank unreachable, one known
case apart), `RunsAtHome` (what an app stashes goes into its own snapshot),
`SnapshotImage` (a loaded token holds its app's image), `OwnersLoaded` (a
record of an owned bank names a loaded app), `ReturnKeepsLoaded` (the warm
start keeps what was loaded), `SessionInv` (the invariant of the proofs), `HeldBanksAllocated` (a notes
program's banks cannot be given away while it runs), `HotkeyInSession`;
`IsItemList` (refinement), `BanksListed`, `OperationEnds`; `CopyKept` (a whole
copy of the configuration is on the disk at every moment),
`ConfiguredMeansWritten` (success is only reported when it is true),
`PreexistingKept` (files that had a staging name are left alone), `InPlace` (an
attempt with a single refusal leaves `apps.cfg` in place; not claimed for
unheard commands, after which SETUP gives up without a rollback).

Properties of the programs. Each of the names that end in `Sound` is a
conjunction stated in `Documents.tla` or `Services.tla`; its parts are in the programs' modules:

- `CalTablesMatch` (what the calendar remembers is what a fresh load gives, and
  the upcoming pages show every open appointment from today on),
  `CalLiveRecordsStable` (no live record is allocatable, also after failed
  accesses, resets and those lost writes that are `Spared`), `CalIsLists` (the file
  implements a list of appointments for each day);
- `CellsSound` (the pool's texts stay whole and apart, formulas show what they
  mean, errors are shown, what is saved loads); `TasksSound` (notes whole, view
  right, what is saved loads); `EditorSound` and `QuickNotesSound` (keys change
  the text at the cursor only, the screen or the REU agrees, files come back;
  what is not modified is as its file, saves that fell short excepted);
  `DizzySound` (one place for each card, also after a broken off save);
  `IrcSound` (lines whole, the screen shows the rows said last);
  `OthersKept` (what a step is not about stays: cells, tasks with notes in
  order, a view that is scrolled back);
- `LauncherSound` (the probe counts right and puts every byte back; the menu is
  what the catalog says, shows it, starts what it should, and is the same when
  an app returns; an app goes on with the bytes of one save, which is its own
  or one of an app with the same token, schema and length);
- `FilesSound` (Simple Files loses no file but one whose overwriting was
  confirmed, and reports a copy only when it is one; the clipboard manager
  loses no bank and saves and loads whole items in order);
- `ZipSound` (a name is only ever given to a whole file, what was there stays,
  "complete" means complete, no bank or temporary file is left);
- `UltimateSound` (a gateway reports success only with the whole answer to its
  own command; DMA loading puts the image's file in its place and nothing
  elsewhere); `ParseSound` (trees say what lines say, no allocation failure
  leaks); `ShellSound` (pipelines mean the composition of their stages, files
  are as reported); `CalcSound`; `GamesSound` (rules, score, end, and the
  incremental drawing).

### Bounds

Two apps and two tokens are what a token given again, a switch, or two claims
on one bank need; three or four usable banks are fewer than the clients ask
for, so every allocation also fails; one record fewer than needed makes the
record table fail between two records (in `ReadyOs_notes` the banks run out before the
records, so the second bank of an owner is refused for want of a bank; for want
of a record only in the proofs). An earlier REU with one bank less is one whose
tables call an existing bank missing, one with a bank more one whose tables call
a missing bank free or used. Three clipboard entries are the least
for which the direction of a shift shows. Two WRITE commands tell a short file
from an empty one and a whole one, two failures per attempt reach the rollback
and make it fail. Tables of 8 bank numbers give the probe an REU that wraps at
once, one that wraps later and one that does not. Two days with three
appointments have a first, a middle and a last one and a page that is full;
directories of three entries can be full, panes of two scroll; a sheet of
three cells has a cycle of three and a pool too small by a byte; lists of three
tasks have a note before, between and after others; texts of three lines with
two in view scroll both ways; a ring of five rows wraps while it is scrolled
back; archives of three members with one fault or two have a first, a middle
and a last place to break off. The instances are in `Documents.tla` and `Services.tla`, each with
a comment on its size. `Max...` constants bound what counts on without end
(saves, jobs, keys); the modules name them.

### Fairness and deadlock

Fairness appears once: `Clipboard!Spec` has `WF_vars(Step)`, because the one
processor runs a library call it has entered to its end; it is claimed only
where no reset comes in between. Deadlock is checked in the runs of `ReadyOs`,
`Clipboard` and `SetupCommit`. `Documents`, `Services` and `Cal26` say
`CHECK_DEADLOCK FALSE`: a program that has quit, a game that is over or a
behaviour at its bound stops.

### Disagreements

Six runs are expected to be violated. Each shows that something the
repository says of itself does not hold:

- `Cal26_stale`: the calendar resumes its free list and day index from the
  payload without reading the file; with a payload older than the file it gives
  a live appointment's record away.
- `Tasklist_notes`: notes are compacted in place in the order of their tasks;
  when they were written in another order, a note gets bytes of another.
- `Shell_savelist`: `LST | TOP 2 | STV` saves the first entry alone, where the
  format's description promises the array.
- `ReadyOs_scrollback`: ReadyIRC resumes with the scrollback bank that an unload
  has freed, and frees it again when it quits.
- `ReadyOs_rollback`: rolling back a manifest app leaves the published
  registry one app too long, with a blank file name; the next return refuses
  the registry, reads the catalog from disk and forgets the loaded apps.
- `ReadyOs_shrunk`: a start on an REU with fewer banks than before marks the
  missing ones but keeps the clipboard table; deleting an item that lay in one of
  them marks that bank free, and the next allocation can get it.

The repository's README says that "`cal26` currently has a known regression: task
reading is broken" (line 227) and not what is broken. In the functions modelled
here, as they are written, a calendar reads back what it wrote in every calm
behaviour (`CalTablesMatch`, `CalIsLists`); if the regression is still there, it
is in what `Cal26` leaves out: the drive's commands for positioning and
transferring a record, the layout of its 64 bytes, the views.

The models follow the code, so what follows is in them too, and the properties
except it by name:

- calendar: a write that the drive loses is not noticed, because the status is not
  read after the bytes; when it is the mark of a delete, the rest puts the record
  on the free list while the file still lists it as an appointment, and the next
  one is written over it. `Spared` names the writes whose loss costs no more than
  what was to be written;
- editor, task list: a save to a full disk leaves a beginning of the file and
  counts as done (`refused` in `Editor`);
- launcher: `runappfirst` with a name that is not found goes unnoticed with
  `load_all` (the index is compared with 0); a read error of `apps.cfg` is
  taken for its end; a hotkey kept over a restart starts whichever app got its
  token; a failed load is counted as loaded when the shim marked it first;
- task list: a clipboard item of fewer than four characters makes the paste
  never end; editor: a search misses a hit on the cursor's own line before the
  cursor;
- Simple Cells: `SUM` over two used cells shows twice the last one (the running
  sum is in a register the next conversion overwrites);
- Calc Plus: the argument of a function is evaluated on the same stacks as the
  expression around it (`1+ABS(2)` gives 4); a sign before a parenthesis after
  an operator reduces first (`2--(3)` gives -1); digits before a variable are
  dropped; `STORE` of a negative number reads garbage;
- clipboard manager: an empty file loads as an item with which a bundle cannot
  be loaded again; a page of many short lines never shows the rest of its
  bytes;
- ReadyShell: `%[...]` over an empty pipeline has the last value; loading a
  missing file is an error where the documents say FALSE; `PRT` passes nothing
  on;
- ReadyIRC: after a reconnect the rest of a cut line is joined to a new one; a
  long channel name costs a line sent its end; Dizzy: a read error is taken for
  a missing board;
- resume state: two apps of the same token, schema and length accept each
  other's payload (the clipboard manager and the REU viewer keep two bytes
  each);
- Ultimate Zip: the stage of a command in `uz_extract_plan.c` overlaps the
  buffers that `uz_create_job.h` places there; harmless in the order in which
  they are used, and no property covers it.

## Proofs

TLAPS checks what follows for every value of the constants. Each invariant was
checked by TLC on a run before it was proved.

### `ReadyOsProofs`: types and fixed banks

From `BankAssumption`, `CatalogAssumption` and `NotShrunk`, for every catalog,
table size, REU size and number of the ReadyOS bank:

- `InductiveInvariant`: `Spec => []IInv`
- `TypesCorrect`: `Spec => []TypeOK`
- `FixedBanksNeverGiven`: `Spec => []FixedBanks`

`NotShrunk` says that the REU is not smaller than when its tables were written;
with a smaller one `FixedBanks` is false (run `ReadyOs_shrunk`), because the
clipboard table still names banks that are gone. That a larger one gets all its
banks back, whatever the types and the size before, is part of what is proved:
the start prepares every type from what exists (`PrepareAllPresent`).

`TypeOK` and `FixedBanks` are not inductive: a load, an unload or a warm start
writes the type of the bank a token maps to, so the token must be mapped to a
usable bank. `IInv` adds that: `TokensMapped` (valid tokens, the tokens of the
launcher's and the registry's entries, and the current one have a bank),
`LoadedHasToken`, `RunningHasToken`, `JobOK` (a load under way has an index in
the catalog, and a token once allocated), `HeaderValid`. The proof has lemmas
about the operators of `BankTable` (each of them keeps the types and the fixed
banks when given usable banks) and of the sync and the mirror (they keep the
entries' types and tokens), then one lemma per action, and a step over `Next`.

### `SessionProofs`: the facts that are kept in several places

- `SessionInvariant`: `Spec => []SessionInv`
- `BanksHaveOneOwner`, `AppsRunAtHome`, `SnapshotsShowTheirApps`,
  `HeldBanksStayAllocated`, `HotkeysStartTheirApps`: `BanksOwnedOnce`,
  `RunsAtHome`, `SnapshotImage`, `HeldBanksAllocated`, `HotkeyInSession` always
  hold.

None of the five properties is inductive, because each step looks at one copy
of a fact and writes another. `SessionInv` (in `ReadyOs.tla`) is `IInv` and what
the copies owe each other:

- `CatalogInSession`: the catalog is the first `count` entries, the registry has
  the apps while the launcher is away. Without it an unload or a sync could
  work on an entry that names no app.
- `RegistryInStep`: the published registry agrees with the launcher's entries,
  but for an app that a manifest has just added and for the ReadyBASIC banks of
  the app being loaded. This is why a warm start, which has only the registry,
  finds the entries that the launcher had.
- `TokensInSession`: token tables and catalog name each other, and only a token
  whose load was rolled back belongs to no app. With `BanksInSession` (each use
  of a bank has its type, tokens map to different banks, owned banks have one
  record) it makes the owner of a bank unique.
- `BasicInSession`: the ReadyBASIC banks come in pairs, have their types and
  belong to one app; a record of one is that app's.
- `JobInSession`, `AppInSession`, `ImagesInSession`, `HotkeysInSession`: what a
  load under way, the running program, the snapshots and the hotkey slots may
  count on.

The lemmas about operators say that within a session `sync` finds everything as
it is (`SyncSame`, `SyncQuiet`), that the mirror publishes exactly the
launcher's entries (`MirrorExact`, `MirroredKeeps`), that freeing an app's
banks touches no bank of anyone else (`FreedTypes`), and what the outcomes of
the ReadyBASIC resources have in common (`BasicOutcome`). Then there is one
lemma per action.

All of them assume `NotShrunk`, as above. One more hypothesis: `NoTrusting`, the catalog offers no program of `Trusting`.
ReadyIRC frees the bank that its resume payload names without looking at its
type, so that after an unload and a reload it can free a bank that is someone
else's by then; `HeldBanksAllocated` is false with it, which the run
`ReadyOs_scrollback` shows. Every other program of the repository is covered.

The second half of the module proves two action properties:

- `OwnersStayLoaded`: `OwnersLoaded` always holds, under `NoTrusting`.
- `NoStepLosesABank`: `Spec => NoBankLost`, under `NoTrusting`: also when an
  owner gets some of its banks and not the next one or its record, which it
  then gives back one by one.
- `ReturnsKeepLoadedApps`: `Spec => ReturnKeepsLoaded`, under `NoTrusting` and
  `NoManifests`.

For `NoBankLost`, every allocated bank is *reached* by a token, a record, an
entry or the clipboard (`Reached`), and each action either keeps the bank
reached or frees it; the exception in the property, a token left by a rolled
back manifest load, comes up in the lemma of that action alone. A load drops the records of its
app before it writes new ones, so the proof needs that no record of an owned
bank names an app that is being loaded: `OwnersLoaded`, which says more simply
that such records name loaded apps.

For `ReturnKeepsLoaded`, `CatalogWhole` (the published registry lists the whole
catalog, and no manifest is being loaded) makes the registry of a returning app
acceptable, so the launcher starts warm. A rolled-back manifest leaves the
registry longer than the catalog; then the launcher refuses it, and the
property is false (run `ReadyOs_rollback`).

### `ClipboardProofs`: the clipboard is a list

From `BankAssumption` and `ClipboardAssumption`, for every size of the REU and
of the table:

- `ClipboardTypes`, `ClipboardFixedBanks`: `TypeOK` and `FixedBanks`, resets in
  the middle of an operation included;
- `ClipboardLosesNoBank`: `BanksListed`;
- `ClipboardIsItemList`: `Spec => IsItemList`, the refinement.

The first two rest on `TInv` (types, fixed banks, and for each label of the
operations the ranges of the indices and that the bank at hand is usable).
`ClipInv` adds, as long as no reset has cut an operation, `Accounted` (which
entries count at each label while they are shifted one by one, that they list
different banks, and that the banks of type `clip` are these and the one at
hand) and `Stashed` (a bank to be committed has the text). The refinement
follows step by step: the write of the count by a copy (`CommitCopies`), the
start of a delete (`StartDeletes`) and a clear (`ClearClears`) are the list's
steps, and every other access leaves the list as it is.

### `SetupProofs`: the commit of `apps.cfg`

From `SetupAssumption` only, for every file length, every set of paths and any
number of failures:

- `CommitInvariant`, `CopyAlwaysKept`, `SuccessIsTrue`, `StagingNamesKept`:
  `CommitInv`, `CopyKept`, `ConfiguredMeansWritten`, `PreexistingKept` always
  hold;
- `RollbackWorks`: `InPlace` always holds.

`CommitInv` adds to the properties what each step of the commit may rely on:
`StagedOK` (the buffer is whole, the staged file is SETUP's own and, once
compared, equal to it) and `OldKept` (the old file is under its name or, after
the first rename, whole under the backup's). `RollbackWorks` needs `PlaceInv`
besides: the rollback runs only after the one refusal and finds its names free.

### `PhysProbeProofs`: the size of the REU

From `ProbeAssumption` (a bank number selects a bank modulo the REU's size, and
above the base bank there is room for one of its aliases, which the build's
base bank leaves for every size below the largest), for every size and every
content:

- `ProbeInvariant`: `Spec => []PInv`
- `ProbeCounts`, `ProbePutsBytesBack`: `CountRight` and `BytesBack` always hold.

`CountRight` needs to know which banks the probe can have looked at: `PlaceOK`
says that none of them is an alias of the base bank, `BytesOK` what every byte
is at each of the transfers, the marks included. The lemma behind it is number
theory (`Residues`, `Aliases`): of the banks above the base the first with the
same residue is one size away, so the loop that stops at the first mark that
has changed has counted every bank once. Both properties are checked in
`Services` as parts of `LauncherSound`.

### `UciProofs`: the gateways to the Ultimate

From `UciAssumption` (a response is a sequence of blocks whose ends do not
decrease), for every set of responses, every size of the caller's buffer and
any number of commands, waits that run out and errors of the device:

- `UciInvariant`: `Spec => []UInv`
- `CommandsAreWhole`, `NoCommandRefused`, `CalmCommandsSucceed`: `OkIsWhole`,
  `NeverRefused` and `CalmSucceeds` always hold; `GatewaysSound`: the three of
  them, which `Services` checks as a part of `UltimateSound`.

The gateway sees a status register and two queues and never learns which
command a byte belongs to. `UInv` says where a command is: it waits to be taken
up (`Waiting`), or it ran once (`RanOnce`), the device has published so many of
its blocks (`Shown`), the gateway's loop is at one of them (`AtBlock`), and the
bytes read and those in the queues are exactly the bytes of the published blocks
(`Received`). `Calm` says what cannot happen before the first error; it needs
that two of the gateways see MORE turn to BUSY in one piece (`Adjacent`). A
response is given by the ends of its blocks, so that a prefix of it is a number
and the proof needs no induction over it.

### `DmaProofs`: programs and overlays over the DMA

From `DmaAssumption` (directories of files, lines of entries, banks for
overlays that are not the program's), for every tree of directories on the
Ultimate, every image path, all lengths and any number of commands that are
refused or lost:

- `DmaInvariant`: `Spec => []DInv`
- `DmaLoadsTheFile`, `DmaSparesTheRest`, `DmaCalmLoads`: `AppIsFile`,
  `OthersUntouched` and `CalmLoads` always hold;
- `DmaOverlaysWhole`: `OverlaysWhole` always holds, under `SlotsApart` besides:
  the entries of a dependency line are in slots that do not overlap and end
  inside of their banks, as the lines of the repository's catalogs are
  (`rsparser@0:0000`, `rsvm@0:3800`, ... `rsedit@2:0000` in the `.ini` files of
  `build_support`). The launcher does not look at that, and a line without it
  would load one overlay over another.
- `DmaSound`: the four of them, which `Services` checks as a part of
  `UltimateSound`.

None of these mentions the Ultimate's current directory, and all depend on
it: the launcher keeps a flag that says that the directory is the image
(`ready`), programs move the directory, and the flag is trusted without asking.
`DInv` has, for each command of the sequence, the prefix of the path that the
directory has reached (`DirOK`), what was passed to the load (`CallOK`), that
the open file is the image's and its length and address are checked before it
is loaded (`FileOK`), and that an overlay never gets the program's bank
(`BanksOK`). `OInv` adds for the overlays that the banks given to them are
different and not free (`BanksApart`), that the records so far are of the
entries so far and each slot of one has its file (`RecsOK`), and what the slot
at hand has at each command: zeros, then the file (`SlotOK`). The step that
matters is that a load into one slot leaves the slots before it alone, whether
in the same bank or not. `CInv` adds what an undisturbed load may rely on: no
file is open when the next one is opened, and a load that fails had a reason in
the image. The lemmas about operators say what a write to the REU changes
(`WrittenAt`, `WriteOthers`, `WriteHolds`), which replies leave the directory
alone (`CommandStore`), and that the banks given so far stay targets
(`MoreTargets`); then there is one lemma per action and invariant.

### `FilesProofs`: the copies of Simple Files

From `FilesAssumption` (directories in which no two files have a name), for all
names and contents, every number of slots and of entries a pane can show,
whatever the user changes behind the panes, and whichever drive command of a
copy fails or a reset cuts off:

- `FilesInvariant`: `Spec => []FInv`
- `CopiesLoseNothing`: `OnlyConfirmedLost` always holds;
- `CopiesAreEqual`: `CopiedIsEqual` always holds, under `PiecesShort`: a piece of
  a file has another number of blocks than a whole one. The program compares
  blocks, so a copy that broke off in its last block passes for whole; without
  `PiecesShort` the property would be false;
- `CopiesSucceed`: `CopySucceeds` always holds, under `CalmAssumption`: a
  directory has at least as many slots as a pane has entries (144 or more, and
  32), and the names the user gives are none of the program's temporary names.

`FInv` is about jobs that began with panes that showed both disks in full, as the
properties are. `Cleared` names what a drive holds once an old file was
scratched, `Copies` what it may hold after a command that may have failed; with
these, `AtStart`, `AtStage`, `AtCopy` and `AtEnd` say for each step of a job
what each drive holds and which of its states each pane shows. `Staged` has that
the temporary file is new: the program looks for its name in a pane only, and
this is where the pane must show everything. The program keeps the index of the
source's entry and compares with whatever entry is there after the panes were
read again; `StillAt` shows that it is still the source when a duplicate went
behind it (`EntryStays`), for which it counts files before a slot (`Place`), the
slot that overwriting has freed included. `CalmInv` adds that without failures
each copy is whole; `StageVerifies` and `CopyVerifies` that the comparisons
then succeed, the entry being among those a pane can show (`Arrived`). The three
properties are what `FilesSound` says of Simple Files.

### Only model-checked

`OperationEnds` (liveness, which the prover cannot do); the properties of the
calendar and its refinement of `DayLists`; and the properties of the other
programs in `Documents` and `Services`, whose modules mostly use recursive
operators or compute over sequences by induction, about which nothing can be
proved here; and the statements that the theorems exclude: what holds of a
catalog with ReadyIRC, of the return with manifests or of an REU that shrank is
what the runs show of their instances.

## Not modelled

- ReadyBASIC (an assembly interpreter; its banks are in `Launcher`), the boot
  programs (their effect is the state at `Boot`), the EasyFlash flavour, the
  viewers and the README program (they keep nothing), the test programs
  (harnesses for hardware), retired code that is not built.
- A reset inside the mirror or inside a shim entry point, and two programs of
  `Documents` or `Services` meeting in one behaviour: what they share is the REU's banks and
  the clipboard, which `ReadyOs` and `Clipboard` have.
- Layout and wording of screens, help texts, colours, sound, key decoding; the
  dialogs for file names, except where what they return is checked.
- The floating point of the BASIC ROM, deflate and checksums (a member has a
  sum that is right or wrong), the network behind ReadyIRC (it may cut, join
  and drop), the drive's own behaviour beyond status and refusals.
- SETUP's browser and tests, QuickNotes after a load that failed halfway, the
  text viewer of Simple Files, more than one drive in ReadyShell.

`PROJECT.json` lists each component and each hazard with what covers it.

## Plan

1. `Shim`: the entry points access by access, with resets in between, refining
   the snapshot store that `AppRuntime` assumes; the mirror in its writes.
2. The clipboard steps of `AppRuntime` and the clipboard manager's staging as
   clients of `Clipboard` in one behaviour.
3. Proofs about the programs: `ResumeState`, then the modules that need no
   induction over their data, after their recursive operators have been written
   as functions or moved to modules of their own.
4. `SessionInv` for catalogs with ReadyIRC: which parts survive its payload.
