------------------------------ MODULE DmaLoad ------------------------------
(***************************************************************************)
(* The launcher's DMA loading (launcher_uci_dma.s and its callers in       *)
(* launcher.c): a program or an overlay goes from a disk image on the      *)
(* Ultimate straight into a bank of the REU, by a sequence of DOS commands *)
(* of which any may be refused or lost; what cannot be had that way is     *)
(* read from the drive.  The programs that run in between leave the        *)
(* Ultimate's DOS in whatever directory they were in.                      *)
(*                                                                         *)
(* A command is one step (UciLink is about what happens inside).  Sizes    *)
(* are in units of which a slot for an overlay takes Slot; `todo' is the   *)
(* load under way.                                                         *)
(***************************************************************************)
EXTENDS Naturals, Sequences, SequencesExt, FiniteSets

CONSTANTS
  Paths,     \* values of the image path: components, <<>> for one without a leaf
  Host,      \* the host's directories: paths -> names -> [addr, len, from]
  Disk,      \* the drive's: names -> [addr, len, from]
  Apps,      \* names of programs
  DepLines,  \* ReadyShell's dependency lines: sequences of [name, ord, off] or Bad
  Bad,       \* an entry of such a line that cannot be parsed
  OVERLAYS,  \* READYSHELL_OVERLAY_COUNT, 9 in the code
  AppMax,    \* APP_SAVE_SIZE
  Slot,      \* READYSHELL_OVERLAY_SLOT_LEN, $3800
  ClipMax,   \* the longest overlay that is cut off instead of refused, $3A00
  BankSize,
  AppBank,   \* the bank of the program that is loaded
  Records,   \* sets of free resource records: their numbers
  Banks,     \* sets of free banks
  MaxFaults, \* bound: commands that go wrong
  MaxJobs,   \* bound: loads and runs of programs
  Modes      \* "tcp": the interface is there; "bare": there is none

VARIABLES
  ram,   \* the launcher's DMA flags, its overlay records and banks, the outcome
  store, \* the Ultimate's DOS, the REU, the flags kept there
  todo,  \* the load, or the menu
  mode

vars == <<ram, store, todo, mode>>

\* All strings; the provers have to be told that literals are.
Texts   == STRING \cup {"", "old", "zero"}
PrgFile == [addr : Texts, len : Nat, from : Texts]
Line    == [name : Texts, ord : 0 .. 2, off : Nat]

\* Directories are what the Ultimate shows; banks for overlays are not the
\* program's, and bank 0 is the launcher's sign for none.
DmaAssumption ==
  /\ AppMax \in Nat /\ Slot \in Nat /\ BankSize \in Nat /\ AppMax <= BankSize
  /\ ClipMax \in Nat
  /\ AppBank \in Nat \ {0} /\ Apps \subseteq Texts
  /\ Paths \subseteq Seq(Texts) /\ DOMAIN Host \subseteq Seq(Texts)
  /\ \A d \in DOMAIN Host : \A n \in DOMAIN Host[d] :
       n \in Texts /\ Host[d][n] \in PrgFile
  /\ \A n \in DOMAIN Disk : Disk[n] \in PrgFile
  /\ Bad \notin Line /\ \A l \in DepLines : l \in Seq(Line \cup {Bad})
  /\ \A s \in Banks : s \subseteq Nat \ {0, AppBank}
  /\ \A n \in Records : n \in Nat

\* The entries of a line are in slots of their own, inside of their banks; the
\* lines of the catalogs are.
SlotsApart ==
  \A l \in DepLines : \A i, j \in DOMAIN l :
    l[i] # Bad /\ l[j] # Bad =>
      /\ l[i].off + Slot <= BankSize
      /\ \/ i = j \/ l[i].ord # l[j].ord
         \/ l[i].off + Slot <= l[j].off \/ l[j].off + Slot <= l[i].off

Menu == [pc |-> "menu"]
NoResult == [way |-> "none", name |-> ""]
Going(pc) == todo' = [todo EXCEPT !.pc = pc]
Old  == <<"old", 0>>
Zero == <<"zero", 0>>
Payload(f, from, n) == [i \in 1 .. n |-> <<f.from, from + i>>]

\* The REU with `what' written from `off' on
Written(reu, bank, off, what) ==
  [reu EXCEPT ![bank] = [i \in DOMAIN @ |->
     IF i - off \in DOMAIN what THEN what[i - off] ELSE @[i]]]
Zeroed(reu, bank, off) == Written(reu, bank, off, [i \in 1 .. Slot |-> Zero])

Here == IF store.cwd \in DOMAIN Host THEN Host[store.cwd] ELSE <<>>
IsDir(p) == p \in DOMAIN Host

\* launcher_dma_check_available
Available(r) == r.avail /\ r.probe

-----------------------------------------------------------------------------
\* The sequence of commands of launcher_uci_dma_load_prg.  "path" changes into
\* one directory of the path after the other.

Identify == {"identify", "drvinfo"}
After(pc) ==
  CASE pc = "identify" -> "drvinfo"
    [] pc = "drvinfo" -> IF todo.assume THEN "mounted" ELSE "root"
    [] pc = "root" -> IF Len(ram.path) > 1 THEN "path" ELSE "mount"
    [] pc = "path" -> IF todo.k + 2 < Len(ram.path) THEN "path" ELSE "mount"
    [] pc = "mount" -> "image"
    [] pc \in {"image", "again"} -> "mounted"
    [] pc = "open" -> "info"
    [] pc = "info" -> "header"
    [] pc = "header" -> "seek"
    [] pc = "seek" -> "load"
    [] pc = "load" -> "close"

\* The class of the error code: ERR_NO_UCI, a path's ($08..$10), or the load's.
ErrorOf(pc) ==
  CASE pc \in Identify -> "nouci"
    [] pc \in {"root", "path", "mount", "image", "again"} -> "path"
    [] OTHER -> "load"

\* What the device does with a command, if it can.
CanDo(pc) ==
  CASE pc = "path" -> IsDir(Append(store.cwd, ram.path[todo.k + 1]))
    [] pc \in {"image", "again"} -> IsDir(Append(store.cwd, Last(ram.path)))
    [] pc = "open" -> todo.name \in DOMAIN Here
    [] pc \in {"info", "header", "seek", "load", "close"} -> store.open # <<>>
    [] OTHER -> TRUE
Opened == Host[store.open[1]][store.open[2]]
Done(pc) ==
  CASE pc = "root" -> [store EXCEPT !.cwd = <<>>]
    [] pc = "path" -> [store EXCEPT !.cwd = Append(@, ram.path[todo.k + 1])]
    [] pc \in {"image", "again"} -> [store EXCEPT !.cwd = Append(@, Last(ram.path))]
    [] pc = "open" -> [store EXCEPT !.open = <<store.cwd, todo.name>>]
    [] pc = "load" -> [store EXCEPT !.reu =
                         Written(@, todo.bank, todo.off, Payload(Opened, 0, todo.left))]
    [] pc = "close" -> [store EXCEPT !.open = <<>>]
    [] OTHER -> store

\* The replies: 00, a refusal, or nothing that the gateway could make out.
Replies(pc) ==
  {[got |-> "ok", store |-> Done(pc)] : x \in IF CanDo(pc) THEN {1} ELSE {}}
  \cup {[got |-> "refused", store |-> store] : x \in IF CanDo(pc) THEN {} ELSE {1}}
  \cup IF store.faults = MaxFaults THEN {}
       ELSE LET hit(s) == [s EXCEPT !.faults = @ + 1]
            IN {[got |-> "refused", store |-> hit(store)],
                [got |-> "lost", store |-> hit(store)]}
               \cup {[got |-> "lost", store |-> hit(Done(pc))] :
                       x \in IF CanDo(pc) THEN {1} ELSE {}}

\* Of these only the transport counts, not the status.
StatusIgnored(pc) == pc \in Identify \cup {"mount", "close"}

Sent(pc, r) ==
  /\ r \in Replies(pc)
  /\ store' = r.store /\ UNCHANGED mode

\* status_ok.  A load that was cut off to the slot may be refused all the same.
Accepted(pc, r) ==
  \/ r.got = "ok"
  \/ r.got = "refused" /\ (StatusIgnored(pc) \/ (pc = "load" /\ todo.clipped))

\* load_fail_close and load_fail
Fails(pc, error) ==
  /\ ram' = [ram EXCEPT !.error = error]
  /\ Going(IF pc \in Identify THEN "return" ELSE "shut")

Command ==
  /\ todo.pc \in {"identify", "drvinfo", "root", "mount", "seek"}
  /\ \E r \in Replies(todo.pc) :
       /\ Sent(todo.pc, r)
       /\ IF Accepted(todo.pc, r)
          THEN todo' = [todo EXCEPT !.pc = After(@), !.k = 0] /\ UNCHANGED ram
          ELSE Fails(todo.pc, ErrorOf(todo.pc))

\* dos_cd_path
PathCommand ==
  /\ todo.pc = "path"
  /\ \E r \in Replies("path") :
       /\ Sent("path", r)
       /\ IF Accepted("path", r)
          THEN todo' = [todo EXCEPT !.pc = After("path"), !.k = @ + 1] /\ UNCHANGED ram
          ELSE Fails("path", "path")

\* The image is tried under its mount name once more.
ImageCommand ==
  /\ todo.pc \in {"image", "again"}
  /\ \E r \in Replies(todo.pc) :
       /\ Sent(todo.pc, r)
       /\ \/ Accepted(todo.pc, r) /\ Going("mounted") /\ UNCHANGED ram
          \/ r.got = "refused" /\ todo.pc = "image" /\ Going("again") /\ UNCHANGED ram
          \/ (r.got = "lost" \/ (r.got = "refused" /\ todo.pc = "again"))
             /\ Fails(todo.pc, "path")

Mounted ==
  /\ todo.pc = "mounted"
  /\ IF todo.validate
     THEN ram' = [ram EXCEPT !.error = "none"] /\ Going("return")
     ELSE UNCHANGED ram /\ Going("open")
  /\ UNCHANGED <<store, mode>>

OpenCommand ==
  /\ todo.pc = "open"
  /\ \E r \in Replies("open") :
       /\ Sent("open", r)
       /\ IF Accepted("open", r) THEN Going("info") /\ UNCHANGED ram
          ELSE Fails("open", "load")

\* The length without the load address; an overlay that is a little too long for
\* its slot is cut off.
Length(len) ==
  IF len = 0 THEN [left |-> 0, clipped |-> FALSE]
  ELSE IF len <= todo.max THEN [left |-> len, clipped |-> FALSE]
  ELSE IF todo.addr = "overlay" /\ todo.max = Slot /\ len <= ClipMax
       THEN [left |-> Slot, clipped |-> TRUE]
       ELSE [left |-> 0, clipped |-> FALSE]

InfoCommand ==
  /\ todo.pc = "info"
  /\ \E r \in Replies("info") :
       /\ Sent("info", r)
       /\ IF Accepted("info", r) /\ Length(Opened.len).left > 0
          THEN LET n == Length(Opened.len)
               IN /\ todo' = [todo EXCEPT !.pc = "header", !.left = n.left,
                                          !.clipped = n.clipped]
                  /\ UNCHANGED ram
          ELSE Fails("info", "load")

HeaderCommand ==
  /\ todo.pc = "header"
  /\ \E r \in Replies("header") :
       /\ Sent("header", r)
       /\ IF Accepted("header", r) /\ todo.addr \in {"any", Opened.addr}
          THEN Going("seek") /\ UNCHANGED ram
          ELSE Fails("header", "load")

\* One command loads all that is left.
LoadCommand ==
  /\ todo.pc = "load"
  /\ \E r \in Replies("load") :
       /\ store' = [r.store EXCEPT !.cut = @ \/ (r.got # "ok" /\ Accepted("load", r))]
       /\ IF Accepted("load", r)
          THEN Going("close") /\ UNCHANGED ram ELSE Fails("load", "load")
  /\ UNCHANGED mode

CloseCommand ==
  /\ todo.pc \in {"close", "shut"}
  /\ \E r \in Replies("close") : Sent("close", r)
  /\ ram' = IF todo.pc = "close" THEN [ram EXCEPT !.error = "none"] ELSE ram
  /\ Going("return")

-----------------------------------------------------------------------------
\* The callers in launcher.c.

Load(job) ==
  [job |-> job, pc |-> "identify", k |-> 0, left |-> 0, clipped |-> FALSE,
   validate |-> FALSE, assume |-> FALSE, name |-> "", bank |-> 0, off |-> 0,
   max |-> 0, addr |-> "any", line |-> <<>>, at |-> 1]

\* launcher_dma_probe_after_draw, at a cold start
NotAvailable == [ram EXCEPT !.avail = FALSE, !.probe = FALSE, !.ready = FALSE]
Saved(r) == [store EXCEPT !.saved = r.cfg /\ Available(r)]

Probe ==
  /\ todo.pc = "probe"
  /\ IF mode = "bare" \/ ~ram.cfg \/ ram.path = <<>>
     THEN ram' = NotAvailable /\ store' = Saved(NotAvailable) /\ todo' = Menu
     ELSE /\ todo' = [Load("probe") EXCEPT !.validate = TRUE]
          /\ UNCHANGED <<ram, store>>
  /\ UNCHANGED mode

ProbeReturns ==
  /\ todo.pc = "return" /\ todo.job = "probe"
  /\ LET good == [ram EXCEPT !.avail = TRUE, !.probe = TRUE, !.ready = TRUE]
         r == IF ram.error = "none" THEN good ELSE NotAvailable
     IN ram' = r /\ store' = Saved(r)
  /\ todo' = Menu /\ UNCHANGED mode

\* launcher_dma_try_prg_to_reu; a path's error and a missing interface turn DMA
\* loading off, after any other failure the directory is taken to be the image.
Tried(job, name, bank, off, max, addr) ==
  [Load(job) EXCEPT !.name = name, !.bank = bank, !.off = off, !.max = max,
                    !.addr = addr, !.assume = ram.ready]
TryEnds ==
  IF ram.error \in {"nouci", "path"} THEN [ram EXCEPT !.avail = FALSE, !.ready = FALSE]
  ELSE [ram EXCEPT !.avail = TRUE, !.ready = TRUE]

\* load_app_to_reu, up to the choice of the way
LoadApp ==
  /\ todo.pc = "menu" /\ store.jobs < MaxJobs
  /\ \E n \in Apps :
       IF Available(ram)
       THEN /\ todo' = Tried("app", n, AppBank, 0, AppMax, "app")
            /\ ram' = [ram EXCEPT !.result = NoResult]
       ELSE ram' = [ram EXCEPT !.result = [way |-> "disk", name |-> n]] /\ UNCHANGED todo
  /\ store' = [store EXCEPT !.jobs = @ + 1] /\ UNCHANGED mode

\* ... after the DMA load: loaded, failed for good, or on to the disk.
AppReturns ==
  /\ todo.pc = "return" /\ todo.job = "app"
  /\ LET way == IF ram.error = "none" THEN "dma"
                ELSE IF Available(TryEnds) THEN "failed" ELSE "disk"
     IN ram' = [TryEnds EXCEPT !.result = [way |-> way, name |-> todo.name]]
  /\ store' = Saved(TryEnds)
  /\ todo' = Menu /\ UNCHANGED mode

\* launcher_load_readyshell_resources.  The record of the state bank comes first,
\* then for every entry a bank, the overlay, and its record.
LoadResources ==
  /\ todo.pc = "menu" /\ store.jobs < MaxJobs
  /\ \E line \in DepLines :
       IF line = <<>> \/ store.records = 0
       THEN /\ ram' = [ram EXCEPT !.recs = <<>>, !.loaded = FALSE] /\ UNCHANGED todo
       ELSE /\ ram' = [ram EXCEPT !.recs = <<>>, !.loaded = FALSE]
            /\ todo' = [Load("overlay") EXCEPT !.pc = "entry", !.line = line]
  /\ store' = [store EXCEPT !.jobs = @ + 1] /\ UNCHANGED mode

Entry == todo.line[todo.at]

\* launcher_readyshell_physical_bank
BankFor(ord) ==
  IF ram.banks[ord] # 0 THEN ram.banks[ord]
  ELSE IF store.free = {} THEN 0
  ELSE CHOOSE b \in store.free : \A c \in store.free : b <= c

\* launcher_stream_prg_to_reu: the slot is cleared first, if the entry comes over
\* the DMA; otherwise the file is opened first.
StartEntry ==
  /\ todo.pc = "entry" /\ todo.at <= Len(todo.line)
  /\ IF Entry = Bad THEN todo' = Menu /\ UNCHANGED <<ram, store>>
     ELSE LET b == BankFor(Entry.ord)
          IN /\ ram' = [ram EXCEPT !.banks[Entry.ord] = b]
             /\ store' = [store EXCEPT !.free = @ \ {b},
                  !.reu = IF b # 0 /\ Available(ram) THEN Zeroed(@, b, Entry.off) ELSE @]
             /\ todo' = IF b = 0 THEN Menu
                        ELSE IF ~Available(ram)
                        THEN [todo EXCEPT !.pc = "stream", !.bank = b]
                        ELSE [Tried("overlay", Entry.name, b, Entry.off, Slot, "overlay")
                              EXCEPT !.line = todo.line, !.at = todo.at]
  /\ UNCHANGED mode

\* An entry is loaded: its record and the next, or what is missing.
Recorded(r, len) ==
  IF Len(r.recs) + 1 >= store.records
  THEN /\ todo' = Menu /\ ram' = r
  ELSE /\ ram' = [r EXCEPT !.recs = Append(@, [num |-> todo.at, name |-> Entry.name,
                    bank |-> r.banks[Entry.ord], off |-> Entry.off, len |-> len])]
       /\ todo' = [todo EXCEPT !.pc = "entry", !.at = @ + 1]

OverlayReturns ==
  /\ todo.pc = "return" /\ todo.job = "overlay"
  /\ IF ram.error = "none" THEN Recorded(TryEnds, todo.left)
     ELSE ram' = TryEnds /\ todo' = Menu
  /\ store' = Saved(TryEnds) /\ UNCHANGED mode

\* From the disk, to the end of the file or an error, which looks the same.
Streamed(f, n) ==
  Written(Zeroed(store.reu, todo.bank, Entry.off), todo.bank, Entry.off, Payload(f, 0, n))
Stream ==
  /\ todo.pc = "stream"
  /\ IF Entry.name \notin DOMAIN Disk \/ Disk[Entry.name].addr # "overlay"
     THEN todo' = Menu /\ UNCHANGED <<ram, store>>
     ELSE LET f == Disk[Entry.name]
              fits == IF f.len < Slot THEN f.len ELSE Slot
          IN \/ /\ f.len > 0 /\ store' = [store EXCEPT !.reu = Streamed(f, fits)]
                /\ IF f.len > Slot THEN todo' = Menu /\ UNCHANGED ram
                   ELSE Recorded(ram, f.len)
             \/ \E n \in 0 .. fits :
                  /\ n < f.len /\ store.faults < MaxFaults
                  /\ store' = [store EXCEPT !.reu = Streamed(f, n), !.cut = TRUE,
                                            !.faults = @ + 1]
                  /\ IF n = 0 THEN todo' = Menu /\ UNCHANGED ram ELSE Recorded(ram, n)
  /\ UNCHANGED mode

ResourcesDone ==
  /\ todo.pc = "entry" /\ todo.at = Len(todo.line) + 1
  /\ ram' = [ram EXCEPT !.loaded = Len(todo.line) = OVERLAYS]
  /\ todo' = Menu /\ UNCHANGED <<store, mode>>

\* The launcher is started again and takes its flags from the REU, but not that the
\* image is the directory.
Resumed == [ram EXCEPT !.avail = store.saved, !.probe = store.saved, !.ready = FALSE]

\* A program runs and uses the Ultimate's DOS before that.
RunProgram ==
  /\ todo.pc = "menu" /\ store.jobs < MaxJobs
  /\ \E d \in DOMAIN Host :
       store' = [store EXCEPT !.cwd = d, !.open = <<>>, !.jobs = @ + 1]
  /\ ram' = [Resumed EXCEPT !.result = NoResult]
  /\ UNCHANGED <<todo, mode>>

-----------------------------------------------------------------------------
Init ==
  /\ mode \in Modes
  /\ \E p \in Paths, on \in BOOLEAN :
       ram = [cfg |-> on, path |-> p, avail |-> FALSE, probe |-> FALSE, ready |-> FALSE,
              error |-> "none", banks |-> [o \in 0 .. 2 |-> 0], recs |-> <<>>,
              loaded |-> FALSE, result |-> NoResult]
  /\ todo = [Menu EXCEPT !.pc = "probe"]
  /\ \E d \in DOMAIN Host, free \in Banks, n \in Records :
       store = [cwd |-> d, open |-> <<>>, saved |-> FALSE, free |-> free,
                records |-> n, faults |-> 0, jobs |-> 0, cut |-> FALSE,
                reu |-> [b \in free \cup {AppBank} |-> [i \in 1 .. BankSize |-> Old]]]

Next ==
  \/ Probe \/ ProbeReturns \/ LoadApp \/ AppReturns \/ LoadResources \/ StartEntry
  \/ OverlayReturns \/ Stream \/ ResourcesDone \/ RunProgram
  \/ Command \/ PathCommand \/ ImageCommand \/ Mounted \/ OpenCommand \/ InfoCommand
  \/ HeaderCommand \/ LoadCommand \/ CloseCommand

Spec == Init /\ [][Next]_vars

-----------------------------------------------------------------------------
TypeOK ==
  /\ {ram.avail, ram.probe, ram.ready, ram.loaded} \subseteq BOOLEAN
  /\ store.free \subseteq Nat /\ store.faults \in 0 .. MaxFaults

Region(bank, off, n) == SubSeq(store.reu[bank], off + 1, off + n)
InImage(n) == ram.path \in DOMAIN Host /\ n \in DOMAIN Host[ram.path]
Image(n) == Host[ram.path][n]

\* A program that is reported as loaded is the image's file of that name, wherever
\* the programs before it had left the Ultimate's DOS.
AppIsFile ==
  ram.result.way = "dma" =>
    LET n == ram.result.name
    IN /\ InImage(n) /\ Image(n).addr = "app" /\ Image(n).len \in 1 .. AppMax
       /\ Region(AppBank, 0, Image(n).len) = Payload(Image(n), 0, Image(n).len)

\* ReadyShell's overlays are loaded when each is in its place, in the order of the
\* line and as long as its slot or its file, unless a refusal of a load that was cut
\* off, or an error of the disk, has gone for its end.
Origins(n) == (IF InImage(n) THEN {Image(n)} ELSE {}) \cup {Disk[m] : m \in {n} \cap DOMAIN Disk}
OverlaysWhole ==
  ram.loaded /\ ~store.cut =>
    /\ Len(ram.recs) = OVERLAYS
    /\ \A i \in DOMAIN ram.recs :
         LET r == ram.recs[i]
         IN \E f \in Origins(r.name) :
              /\ r.num = i /\ r.len = IF f.len < Slot THEN f.len ELSE Slot
              /\ Region(r.bank, r.off, Slot)
                   = Payload(f, 0, r.len) \o [j \in 1 .. Slot - r.len |-> Zero]

\* Loads leave the rest of the REU alone, also loads that fail.
Targets ==
  {<<AppBank, i>> : i \in 1 .. AppMax}
  \cup {<<ram.banks[e.ord], e.off + i>> :
          e \in UNION {{l[j] : j \in {k \in DOMAIN l : l[k] # Bad}} : l \in DepLines},
          i \in 1 .. Slot}
OthersUntouched ==
  \A b \in DOMAIN store.reu : \A i \in 1 .. BankSize :
    <<b, i>> \in Targets \/ store.reu[b][i] = Old

\* A program that is in the image is loaded when no command goes wrong, and no file
\* stays open then.
CalmLoads ==
  store.faults = 0 /\ todo.pc = "menu" =>
    /\ ram.result.way = "failed" =>
         LET n == ram.result.name
         IN ~(InImage(n) /\ Image(n).addr = "app" /\ Image(n).len \in 1 .. AppMax)
    /\ store.open = <<>>

Sound == AppIsFile /\ OverlaysWhole /\ OthersUntouched /\ CalmLoads
=============================================================================
