-------------------------------- MODULE UZip --------------------------------
(***************************************************************************)
(* Ultimate Zip (src/apps/uzip): archives are created and extracted on the *)
(* host file system behind the Ultimate's two DOS targets, one for reading *)
(* and one for writing.  Any command may be refused, the user may cancel   *)
(* at an entry, and the machine may be reset.  Nobody else changes files.  *)
(*                                                                         *)
(* `todo' is the operation under way and its next step, pc.  A path is a   *)
(* sequence of names, an archive the sequence of its members and of the    *)
(* central directory's copies of their headers.                            *)
(***************************************************************************)
EXTENDS Naturals, Sequences, SequencesExt, FiniteSets, Functions, TLC

CONSTANTS
  NameOrder,   \* all names, in the order a directory lists them: a sequence
  Fold,        \* what a name is when case is ignored
  Unusable,    \* those that are too long
  Temps,       \* .uztmp00, .uztmp01, ..., in order: a sequence (256 in the code)
  Disks,       \* the file systems to start with: [dirs, files]
  ArchiveName, \* the name given to an archive
  ENTRIES_MAX, \* UZ_CATALOG_MAX_ENTRIES, 400 in the code
  MaxFaults,   \* bound: refused commands in a behaviour
  Modes        \* "create", "extract"

VARIABLES
  ram,    \* the descriptors' file_open flags, the choices, the refused commands
  store,  \* the host's files, what the write target has open, the catalog bank
  todo,   \* the operation
  mode

vars == <<ram, store, todo, mode>>

Plain(t)    == [kind |-> "plain", text |-> t]
ZipFile(ms, cd) == [kind |-> "zip", members |-> ms, central |-> cd]
Broken      == [kind |-> "part"]     \* a file that is written up to some point
Nowhere     == <<>>                  \* nothing is open

Files   == DOMAIN store.files
Dirs    == store.dirs
Parent(p) == Front(p)
Exists(p) == p \in Files \cup Dirs

With(files, p, c) == [q \in DOMAIN files \cup {p} |-> IF q = p THEN c ELSE files[q]]
Without(files, p) == Restrict(files, DOMAIN files \ {p})

\* uz_dos_read_dir, drained; the pages of uz_browser_list put together
Listing(d) == SelectSeq(NameOrder, LAMBDA n : Exists(Append(d, n)))

\* A member's header: its name below the base, its kind, method, and its sizes
\* and CRC, which stand for the contents they were taken of.
Record(name, dir, method, sum) ==
  [name |-> name, dir |-> dir, method |-> method, sum |-> sum]

NoSum    == Plain("none")
Header(m) == Record(m.name, m.dir, m.method, m.sum)

\* The reader finds the end of the directory, goes through it, and compares each
\* entry with what stands before and after the member it names.  The contents it
\* does not read.
Located(c)   == c.kind = "zip" /\ c.central # <<>>
Listed(r)    == r.method \in {0, 8} /\ (r.dir => r.method = 0 /\ r.sum = NoSum)
Agrees(m, r) == r = Header(m)
Readable(c)  ==
  /\ Located(c)
  /\ \A k \in DOMAIN c.central :
       /\ Listed(c.central[k])
       /\ k \in DOMAIN c.members /\ Agrees(c.members[k], c.central[k])

-----------------------------------------------------------------------------
\* equal_folded, prefix_folded
Folded(p)        == [i \in DOMAIN p |-> Fold[p[i]]]
SameFolded(p, q) == Folded(p) = Folded(q)
Below(d, p)      == Len(d) < Len(p) /\ IsPrefix(Folded(d), Folded(p))

\* names_conflict: the same name, or a file that the other needs as a folder
Conflict(r, s) ==
  \/ SameFolded(r.name, s.name)
  \/ ~r.dir /\ Below(r.name, s.name)
  \/ ~s.dir /\ Below(s.name, r.name)

\* uz_catalog_append_unique refuses r.
Unfit(cat, r) == Len(cat) >= ENTRIES_MAX \/ \E i \in DOMAIN cat : Conflict(cat[i], r)

\* Planned with the method of the whole archive; folders are stored.
Candidate(name) ==
  LET dir == ram.base \o name \in Dirs
  IN  Record(name, dir, IF dir THEN 0 ELSE ram.method, NoSum)

\* Catalog and rs, one by one; nothing when one is refused
RECURSIVE AppendAll(_, _)
AppendAll(cat, rs) ==
  IF rs = <<>> THEN cat
  ELSE IF Unfit(cat, Head(rs)) THEN <<>>
  ELSE AppendAll(Append(cat, Head(rs)), Tail(rs))

\* output_safe
OutputSafe(cat, output) ==
  \A i \in DOMAIN cat :
    /\ ~SameFolded(ram.base \o cat[i].name, output)
    /\ cat[i].dir => ~Below(ram.base \o cat[i].name, output)

-----------------------------------------------------------------------------
Idle == [op |-> "none", pc |-> "idle", result |-> "none"]

Init ==
  /\ mode \in Modes
  /\ \E d \in Disks :
       store = [dirs |-> d.dirs, files |-> d.files, held |-> Nowhere,
                catalog |-> <<>>, banks |-> {}]
  /\ ram = [in |-> FALSE, out |-> FALSE, base |-> <<>>, dest |-> <<>>,
            method |-> 8, faults |-> 0]
  /\ todo = Idle

Keeps == UNCHANGED mode
Go(pc) == todo' = [todo EXCEPT !.pc = pc]

\* A command is refused; the drive, the cable or the firmware may do so once or
\* twice.
Refused == ram.faults < MaxFaults
Fault   == [ram EXCEPT !.faults = @ + 1]

\* The operation is over: release_operation_banks, set_result_status
Release(result) ==
  /\ todo' = [todo EXCEPT !.pc = "done", !.result = result]
  /\ store' = [store EXCEPT !.banks = {}]

\* allocate_operation_banks: two banks or none
Both == {"work", "catalog"}
Allocated(op, got, pc, target) ==
  /\ todo.pc = "idle"
  /\ todo' = [op |-> op, pc |-> IF got = Both THEN pc ELSE "done",
              i |-> 1, n |-> 0, at |-> 0, temp |-> Nowhere,
              framed |-> TRUE, before |-> store.files, target |-> target,
              plan |-> <<>>, spoiled |-> FALSE,
              result |-> IF got = Both THEN "none" ELSE "banks"]
  /\ store' = [store EXCEPT !.banks = IF got = Both THEN got ELSE {}]
  /\ Keeps

\* run_create: the banks first, then the questions
StartCreate(got) ==
  /\ mode = "create" /\ Allocated("create", got, "choose", <<>>)
  /\ UNCHANGED ram

\* run_extract: any file and any folder, then the banks
StartExtract(p, d, got) ==
  /\ mode = "extract" /\ p \in Files /\ d \in Dirs
  /\ Allocated("extract", got, "preflight", p)
  /\ ram' = [ram EXCEPT !.dest = d]

\* toggle_seed: the marks lie in the catalog bank.
Toggled(n) ==
  IF <<n>> \in ToSet(store.catalog)
  THEN SelectSeq(store.catalog, LAMBDA s : s # <<n>>)
  ELSE Append(store.catalog, <<n>>)

\* choose_sources: folders are changed only while nothing is marked.
EnterFolder(d) ==
  /\ todo.pc = "choose" /\ store.catalog = <<>> /\ d \in Dirs \ {ram.base}
  /\ ram' = [ram EXCEPT !.base = d]
  /\ UNCHANGED <<store, todo>> /\ Keeps

MarkSource(n) ==
  /\ todo.pc = "choose" /\ n \in ToSet(Listing(ram.base)) \ Unusable
  /\ <<n>> \in ToSet(store.catalog) \/ Len(store.catalog) < ENTRIES_MAX
  /\ store' = [store EXCEPT !.catalog = Toggled(n)]
  /\ UNCHANGED <<ram, todo>> /\ Keeps

UnmarkAll ==
  /\ todo.pc = "choose" /\ store.catalog # <<>>
  /\ store' = [store EXCEPT !.catalog = <<>>]
  /\ UNCHANGED <<ram, todo>> /\ Keeps

\* The marks, or without any the folder itself (seed_current_folder), seen from
\* its parent.  The output's folder, name and method are asked for.
ChosenSources(dest, method) ==
  /\ todo.pc = "choose" /\ dest \in Dirs
  /\ store.catalog # <<>> \/ ram.base # <<>>
  /\ IF store.catalog = <<>>
     THEN /\ store' = [store EXCEPT !.catalog = <<<<Last(ram.base)>>>>]
          /\ ram' = [ram EXCEPT !.base = Parent(@), !.dest = dest, !.method = method]
     ELSE /\ ram' = [ram EXCEPT !.dest = dest, !.method = method]
          /\ UNCHANGED store
  /\ todo' = [todo EXCEPT !.pc = "seed", !.target = Append(dest, ArchiveName)]
  /\ Keeps

\* RUN/STOP at any question
Escape ==
  /\ todo.pc \in {"choose", "confirm"}
  /\ Release("cancelled") /\ UNCHANGED ram /\ Keeps

\* uz_create_plan_overlay_entry, the seeds: read from their slots, checked and
\* written back
SeedPlan ==
  /\ todo.pc = "seed"
  /\ LET cat == AppendAll(<<>>, [i \in DOMAIN store.catalog |->
                                   Candidate(store.catalog[i])])
     IN  IF cat # <<>> /\ OutputSafe(cat, todo.target)
         THEN store' = [store EXCEPT !.catalog = cat] /\ Go("plan")
         ELSE Release("plan")
  /\ UNCHANGED ram /\ Keeps

\* uz_create_plan_build: the folders in the catalog, first come first served, and
\* what they contain goes to its end.
ExpandPlan ==
  /\ todo.pc = "plan" /\ todo.i <= Len(store.catalog)
  /\ LET r   == store.catalog[todo.i]
         d   == ram.base \o r.name
         kids == Listing(d)
         cat == AppendAll(store.catalog,
                  [k \in DOMAIN kids |-> Candidate(Append(r.name, kids[k]))])
         fit == cat # <<>> /\ ToSet(kids) \cap Unusable = {}
     IN  \/ /\ r.dir => fit
            /\ store' = [store EXCEPT !.catalog = IF r.dir THEN cat ELSE @]
            /\ todo' = [todo EXCEPT !.i = @ + 1] /\ UNCHANGED ram
         \/ r.dir /\ ~fit
            /\ Release("plan") /\ UNCHANGED ram
         \/ r.dir /\ Refused /\ ram' = Fault /\ Release("plan")
  /\ Keeps

PlanDone ==
  /\ todo.pc = "plan" /\ todo.i > Len(store.catalog)
  /\ todo' = [todo EXCEPT !.pc = "confirm", !.i = 1, !.n = Len(store.catalog),
                          !.plan = store.catalog]
  /\ UNCHANGED <<ram, store>> /\ Keeps

-----------------------------------------------------------------------------
\* uz_workflow_create: confirmed; the targets answer and the folder is there.
BeginCreate ==
  /\ todo.pc = "confirm"
  /\ \/ ram.dest \in Dirs /\ Go("temp") /\ UNCHANGED <<ram, store>>
     \/ Refused /\ ram' = Fault /\ Release("failed")
  /\ Keeps

FreeTemps(d) == SelectSeq(Temps, LAMBDA t : ~Exists(Append(d, t)))

\* open_unique_archive, open_unique_temp: WRITE_NEW, the first name that is free,
\* or the next one when the command for it is refused.
OpenTemp(d, c, then, failed) ==
  LET free == FreeTemps(d)
      Open(k) ==
        LET p == Append(d, free[k])
        IN  /\ store' = [store EXCEPT !.files = With(@, p, c), !.held = p]
            /\ todo' = [todo EXCEPT !.pc = then, !.temp = p]
  IN  \/ Len(free) >= 1 /\ Open(1) /\ ram' = [ram EXCEPT !.out = TRUE]
      \/ Len(free) >= 2 /\ Refused /\ Open(2)
         /\ ram' = [Fault EXCEPT !.out = TRUE]
      \/ Len(free) = 0 /\ failed /\ UNCHANGED ram
      \/ Len(free) = 1 /\ Refused /\ failed /\ ram' = Fault

OpenArchive ==
  /\ todo.pc = "temp"
  /\ OpenTemp(ram.dest, ZipFile(<<>>, <<>>), "member", Release("failed"))
  /\ Keeps

Member == store.catalog[todo.i]

\* Mutant: the redraw is forgotten to have erased the descriptors.
RedrawnBlank(r) == [r EXCEPT !.in = FALSE, !.out = FALSE]

\* create_progress draws over the descriptors; init_dos makes them again, and
\* that the output is open is all that is carried over.
Redrawn(r) == [r EXCEPT !.in = FALSE, !.out = TRUE]

\* The progress of member i, and RUN/STOP
CancelCreate ==
  /\ todo.pc = "member"
  /\ ram' = Redrawn(ram)
  /\ todo' = [todo EXCEPT !.pc = "failed", !.result = "cancelled"]
  /\ UNCHANGED store /\ Keeps

\* The progress of member i, and its file is opened and measured.  A failure of
\* FILE_INFO closes it.
OpenMember ==
  /\ todo.pc = "member"
  /\ \/ ram' = [Redrawn(ram) EXCEPT !.in = ~Member.dir] /\ Go("job")
     \/ /\ Refused /\ ~Member.dir
        /\ ram' = [Redrawn(ram) EXCEPT !.faults = @ + 1] /\ Go("failed")
  /\ UNCHANGED store /\ Keeps

\* What the descriptor of the output lets be written to the archive
Written(files, ms, cd) == IF ram.out THEN [files EXCEPT ![todo.temp] = ZipFile(ms, cd)] ELSE files

\* What store_member and deflate_member write, and sum up: all of the file, of which
\* there is as much as was announced
Deflated == store.files[ram.base \o Member.name]
Stored   == IF Member.dir THEN NoSum ELSE store.files[ram.base \o Member.name]

\* uz_create_job_entry: header, contents and descriptor of one member; its record
\* goes to the catalog.
PackMember ==
  /\ todo.pc = "job"
  /\ LET z  == store.files[todo.temp]
         c  == IF Member.method = 0 THEN Stored ELSE Deflated
         ok == ram.out
         r  == Record(Member.name, Member.dir, Member.method, c)
         m  == [data |-> c] @@ r
     IN  \/ /\ ok
            /\ store' = [store EXCEPT !.catalog[todo.i] = r,
                           !.files = Written(@, Append(z.members, m), <<>>)]
            /\ Go(IF todo.i = todo.n THEN "central" ELSE "closing") /\ UNCHANGED ram
         \/ ~ok /\ todo' = [todo EXCEPT !.framed = FALSE, !.pc = "closing"]
            /\ UNCHANGED <<ram, store>>
         \/ Refused /\ ram' = Fault
            /\ todo' = [todo EXCEPT !.framed = FALSE, !.pc = "closing"]
            /\ UNCHANGED store
  /\ Keeps

\* The last member's job also writes the central directory, from the catalog.
EmitCentral ==
  /\ todo.pc = "central"
  /\ \/ /\ store' = [store EXCEPT !.files = Written(@, @[todo.temp].members,
                                                    SubSeq(store.catalog, 1, todo.n))]
        /\ Go("closing") /\ UNCHANGED ram
     \/ Refused /\ ram' = Fault
        /\ todo' = [todo EXCEPT !.framed = FALSE, !.pc = "closing"] /\ UNCHANGED store
  /\ Keeps

\* What CLOSE does to the write target; a refused one leaves the file open there.
Closed(ok) == IF ok /\ ram.out THEN Nowhere ELSE store.held

\* The job closes the input, and after the last member the output.
CloseMember ==
  /\ todo.pc = "closing"
  /\ \E ok \in BOOLEAN, last \in {todo.i = todo.n} :
       /\ ok \/ (Refused /\ (last \/ ~Member.dir))
       /\ ram' = [ram EXCEPT !.in = FALSE, !.out = IF last THEN FALSE ELSE @,
                             !.faults = IF ok THEN @ ELSE @ + 1]
       /\ store' = [store EXCEPT !.held = IF last THEN Closed(ok) ELSE @]
       /\ todo' = [todo EXCEPT
            !.pc = IF ~ok \/ ~todo.framed THEN "failed"
                   ELSE IF last THEN "verify" ELSE "member",
            !.i = IF ok /\ todo.framed /\ ~last THEN @ + 1 ELSE @,
            !.spoiled = @ \/ ~ok]
  /\ Keeps

\* uz_extract_plan_build of the new archive: it is read back, over the catalog.
VerifyArchive ==
  /\ todo.pc = "verify"
  /\ LET z == store.files[todo.temp]
     IN  \/ /\ Readable(z)
            /\ store' = [store EXCEPT !.catalog = z.central]
            /\ Go(IF Len(z.central) = todo.n THEN "commit" ELSE "failed")
            /\ UNCHANGED ram
         \/ ~Readable(z) /\ Go("failed") /\ UNCHANGED <<ram, store>>
         \/ Refused /\ ram' = Fault /\ Go("failed") /\ UNCHANGED store
  /\ Keeps

\* RENAME never replaces a file, nor moves one that is open.
CanRename(from, to) == from \in Files /\ ~Exists(to) /\ store.held # from
Renamed(from, to)   == With(Without(store.files, from), to, store.files[from])

\* The archive gets its name.  A refused command may have been carried out.
CommitArchive ==
  /\ todo.pc = "commit"
  /\ \/ /\ CanRename(todo.temp, todo.target)
        /\ store' = [store EXCEPT !.files = Renamed(todo.temp, todo.target), !.banks = {}]
        /\ todo' = [todo EXCEPT !.pc = "done", !.result = "complete"] /\ UNCHANGED ram
     \/ ~CanRename(todo.temp, todo.target) /\ Go("failed") /\ UNCHANGED <<ram, store>>
     \/ Refused /\ ram' = Fault /\ Go("failed")
        /\ \/ UNCHANGED store
           \/ /\ CanRename(todo.temp, todo.target)
              /\ store' = [store EXCEPT !.files = Renamed(todo.temp, todo.target)]
  /\ Keeps

\* The files a DELETE of the temporary file leaves, if it is carried out
Deleted == IF todo.temp \in Files /\ store.held # todo.temp
           THEN Without(store.files, todo.temp) ELSE store.files

\* failed: close both descriptors, delete the temporary file
CloseFailed ==
  /\ todo.pc = "failed"
  /\ \E ok \in BOOLEAN :
       /\ ok \/ (Refused /\ (ram.in \/ ram.out))
       /\ ram' = [ram EXCEPT !.in = FALSE, !.out = FALSE,
                             !.faults = IF ok THEN @ ELSE @ + 1]
       /\ store' = [store EXCEPT !.held = Closed(ok)]
       /\ todo' = [todo EXCEPT !.pc = "discard", !.spoiled = @ \/ ~ok]
  /\ Keeps

DiscardArchive ==
  /\ todo.pc = "discard" /\ todo.op = "create"
  /\ \E ok \in BOOLEAN :
       /\ ok \/ Refused
       /\ ram' = IF ok THEN ram ELSE Fault
       /\ store' = [store EXCEPT !.files = IF ok THEN Deleted ELSE @, !.banks = {}]
       /\ todo' = [todo EXCEPT !.pc = "done", !.spoiled = @ \/ ~ok,
                     !.result = IF @ = "none" THEN "failed" ELSE @]
  /\ Keeps

-----------------------------------------------------------------------------
\* uz_workflow_extract: the archive is read over the catalog.
Preflight ==
  /\ todo.pc = "preflight"
  /\ LET z == store.files[todo.target]
     IN  \/ /\ Readable(z) /\ Len(z.central) <= ENTRIES_MAX
            /\ store' = [store EXCEPT !.catalog = z.central]
            /\ todo' = [todo EXCEPT !.pc = "input", !.n = Len(z.central),
                                    !.plan = z.central]
            /\ UNCHANGED ram
         \/ ~(Readable(z) /\ Len(z.central) <= ENTRIES_MAX)
            /\ Release("failed") /\ UNCHANGED ram
         \/ Refused /\ ram' = Fault /\ Release("failed")
  /\ Keeps

OpenInput ==
  /\ todo.pc = "input"
  /\ \/ ram' = [ram EXCEPT !.in = TRUE] /\ Go("entry") /\ UNCHANGED store
     \/ Refused /\ ram' = Fault /\ Release("failed")
  /\ Keeps

\* The progress of entry i, RUN/STOP, and prepare_destination's first step: to the
\* destination's folder
BeginEntry ==
  /\ todo.pc = "entry" /\ todo.i <= todo.n
  /\ \/ todo' = [todo EXCEPT !.pc = "path", !.at = 0] /\ UNCHANGED ram
     \/ todo' = [todo EXCEPT !.pc = "leave", !.result = "cancelled"] /\ UNCHANGED ram
     \/ Refused /\ ram' = Fault /\ Go("leave")
  /\ UNCHANGED store /\ Keeps

\* The folders of the entry's name, and the one the output is in
Folders(r) == IF r.dir THEN r.name ELSE Front(r.name)
InFolder   == ram.dest \o SubSeq(Member.name, 1, todo.at)

\* ensure_directory: into it, or made and into it
EnsureDirectory ==
  /\ todo.pc = "path" /\ todo.at < Len(Folders(Member))
  /\ LET d == Append(InFolder, Member.name[todo.at + 1])
     IN  \/ /\ d \notin Files
            /\ store' = [store EXCEPT !.dirs = @ \cup {d}]
            /\ todo' = [todo EXCEPT !.at = @ + 1] /\ UNCHANGED ram
         \/ d \in Files /\ Go("leave") /\ UNCHANGED <<ram, store>>
         \/ Refused /\ ram' = Fault /\ Go("leave")
            /\ \/ UNCHANGED store
               \/ d \notin Files /\ store' = [store EXCEPT !.dirs = @ \cup {d}]
  /\ Keeps

EntryDone == [todo EXCEPT !.pc = "entry", !.i = @ + 1]

\* All folders are there: that was the entry, or its temporary file is opened.
OpenOutput ==
  /\ todo.pc = "path" /\ todo.at = Len(Folders(Member))
  /\ IF Member.dir
     THEN todo' = EntryDone /\ UNCHANGED <<ram, store>>
     ELSE OpenTemp(InFolder, Broken, "unpack", Go("leave") /\ UNCHANGED store)
  /\ Keeps

\* uz_store_job_entry, uz_inflate_job_entry: what was written adds up.
SumRight(m) == m.data = m.sum

\* SEEK, and the job writes the member to the temporary file.
UnpackMember ==
  /\ todo.pc = "unpack"
  /\ LET m == store.files[todo.target].members[todo.i]
     IN  \/ /\ store' = [store EXCEPT !.files = With(@, todo.temp, m.data)]
            /\ Go(IF SumRight(m) THEN "close" ELSE "discard") /\ UNCHANGED ram
         \/ Refused /\ ram' = Fault /\ Go("discard") /\ UNCHANGED store
  /\ Keeps

CloseOutput ==
  /\ todo.pc = "close"
  /\ \E ok \in BOOLEAN :
       /\ ok \/ Refused
       /\ ram' = [ram EXCEPT !.out = FALSE, !.faults = IF ok THEN @ ELSE @ + 1]
       /\ store' = [store EXCEPT !.held = Closed(ok)]
       /\ todo' = [todo EXCEPT !.pc = IF ok THEN "name" ELSE "discard",
                               !.spoiled = @ \/ ~ok]
  /\ Keeps

\* The file gets its name: an existing one stays.
NameOutput ==
  /\ todo.pc = "name"
  /\ LET to == Append(InFolder, Last(Member.name))
     IN  \/ /\ CanRename(todo.temp, to)
            /\ store' = [store EXCEPT !.files = Renamed(todo.temp, to)]
            /\ todo' = EntryDone /\ UNCHANGED ram
         \/ ~CanRename(todo.temp, to) /\ Go("discard") /\ UNCHANGED <<ram, store>>
         \/ Refused /\ ram' = Fault /\ Go("discard")
            /\ \/ UNCHANGED store
               \/ /\ CanRename(todo.temp, to)
                  /\ store' = [store EXCEPT !.files = Renamed(todo.temp, to)]
  /\ Keeps

\* discard_temp, one command after the other
DiscardOutput ==
  /\ todo.pc = "discard" /\ todo.op = "extract"
  /\ \E ok \in BOOLEAN :
       /\ ok \/ Refused
       /\ ram' = [ram EXCEPT !.out = FALSE, !.faults = IF ok THEN @ ELSE @ + 1]
       /\ IF ram.out
          THEN /\ store' = [store EXCEPT !.held = Closed(ok)]
               /\ todo' = [todo EXCEPT !.spoiled = @ \/ ~ok]
          ELSE /\ store' = [store EXCEPT !.files = IF ok THEN Deleted ELSE @]
               /\ todo' = [todo EXCEPT !.pc = "leave", !.spoiled = @ \/ ~ok]
  /\ Keeps

\* The archive is closed, after a failure too.
CloseInput ==
  /\ \/ todo.pc = "leave"
     \/ todo.pc = "entry" /\ todo.i > todo.n
  /\ \E ok \in BOOLEAN :
       /\ ok \/ Refused
       /\ ram' = [ram EXCEPT !.in = FALSE, !.faults = IF ok THEN @ ELSE @ + 1]
       /\ Release(IF todo.result # "none" THEN todo.result
                  ELSE IF todo.pc = "entry" /\ ok THEN "complete" ELSE "failed")
  /\ Keeps

\* The machine is reset: what the host holds open is closed there.
Reset ==
  /\ todo.pc \notin {"idle", "done"} /\ Refused
  /\ ram' = [Fault EXCEPT !.in = FALSE, !.out = FALSE]
  /\ store' = [store EXCEPT !.held = Nowhere, !.banks = {}]
  /\ todo' = [todo EXCEPT !.pc = "done", !.result = "reset", !.spoiled = TRUE]
  /\ Keeps

Names == ToSet(NameOrder)

Next ==
  \/ \E got \in SUBSET Both : StartCreate(got)
  \/ \E p \in Files, d \in Dirs, got \in SUBSET Both : StartExtract(p, d, got)
  \/ \E d \in Dirs : EnterFolder(d)
  \/ (\E n \in Names : MarkSource(n)) \/ UnmarkAll
  \/ \E d \in Dirs, method \in {0, 8} : ChosenSources(d, method)
  \/ Escape \/ SeedPlan \/ ExpandPlan \/ PlanDone
  \/ BeginCreate \/ OpenArchive \/ CancelCreate \/ OpenMember \/ PackMember
  \/ EmitCentral \/ CloseMember \/ VerifyArchive \/ CommitArchive
  \/ CloseFailed \/ DiscardArchive
  \/ Preflight \/ OpenInput \/ BeginEntry \/ EnsureDirectory
  \/ OpenOutput \/ UnpackMember \/ CloseOutput \/ NameOutput \/ DiscardOutput
  \/ CloseInput \/ Reset

Spec == Init /\ [][Next]_vars

-----------------------------------------------------------------------------
Working == todo # Idle

\* The files there were before an operation stay as they are, whatever it does
\* and whatever fails.
OthersUntouched ==
  Working => \A p \in DOMAIN todo.before : p \in Files /\ store.files[p] = todo.before[p]

\* The files that are new, and those of them that do not have a temporary name
NewFiles  == IF Working THEN Files \ DOMAIN todo.before ELSE {}
NamedFiles == {p \in NewFiles : Last(p) \notin ToSet(Temps)}

\* A new archive has its name only when it is whole: it has exactly what was
\* planned, with the contents of the files that the plan names.
ArchiveWhole ==
  Working /\ todo.op = "create" =>
    \A p \in NamedFiles :
      /\ p = todo.target /\ Readable(store.files[p])
      /\ LET ms == store.files[p].members
         IN  /\ Len(ms) = Len(todo.plan)
             /\ \A i \in DOMAIN ms :
                  /\ ms[i].name = todo.plan[i].name /\ ms[i].dir = todo.plan[i].dir
                  /\ ~ms[i].dir =>
                       /\ ms[i].data = todo.before[ram.base \o ms[i].name]
                       /\ ms[i].sum = ms[i].data

\* A file that is extracted has its name only when it is whole.
ExtractedWhole ==
  Working /\ todo.op = "extract" =>
    \A p \in NamedFiles : \E m \in ToSet(todo.before[todo.target].members) :
      /\ p = ram.dest \o m.name /\ ~m.dir
      /\ store.files[p] = m.data /\ m.data = m.sum

\* What is planned has one place each, a folder comes before what it contains,
\* and everything below a planned folder is planned.
PlanComplete ==
  Working /\ todo.op = "create" /\ todo.plan # <<>> =>
    LET planned == {todo.plan[i].name : i \in DOMAIN todo.plan}
    IN  /\ Cardinality(planned) = Len(todo.plan)
        /\ \A i, j \in DOMAIN todo.plan :
             Below(todo.plan[i].name, todo.plan[j].name) => i < j
        /\ \A i \in DOMAIN todo.plan :
             LET d == ram.base \o todo.plan[i].name
             IN  \A p \in DOMAIN todo.before \cup Dirs :
                   todo.plan[i].dir /\ IsStrictPrefix(d, p)
                   => SubSeq(p, Len(ram.base) + 1, Len(p)) \in planned

\* "COMPLETE" is said when everything is there.
CompleteHasAll ==
  Working /\ todo.result = "complete" =>
    IF todo.op = "create" THEN todo.target \in Files
    ELSE \A m \in ToSet(todo.before[todo.target].members) :
           ram.dest \o m.name \in (IF m.dir THEN Dirs ELSE NewFiles)

\* At the end the banks are free, and no temporary file is left unless a command
\* that closes or deletes it was refused.
CleanEnd ==
  todo.pc = "done" =>
    /\ store.banks = {}
    /\ ~todo.spoiled => NewFiles = NamedFiles /\ store.held = Nowhere

Whole == OthersUntouched /\ ArchiveWhole /\ ExtractedWhole
Clean == PlanComplete /\ CompleteHasAll /\ CleanEnd
=============================================================================
