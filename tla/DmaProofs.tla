----------------------------- MODULE DmaProofs -----------------------------
(***************************************************************************)
(* Proofs about the DMA loading, for every directory on the Ultimate, every*)
(* path of an image, any sizes and any number of commands that go wrong:   *)
(* a program reported as loaded is the image's file of that name, whole    *)
(* and in its place; overlays in use are their files, whole, each in its   *)
(* slot; a load that is disturbed by nothing succeeds; and no load writes  *)
(* anywhere else.                                                          *)
(***************************************************************************)
EXTENDS DmaLoad, Integers, SequenceTheorems, WellFoundedInduction, TLAPS

-----------------------------------------------------------------------------
(***************************************************************************)
(* The inductive invariant                                                 *)
(***************************************************************************)

Placing == {"root", "path", "mount", "image", "again"}
Reading == {"open", "info", "header", "seek", "load", "close"}
Loads   == Identify \cup Placing \cup {"mounted"} \cup Reading
                    \cup {"shut", "return"}
Loading == todo.pc \in Loads

Cells  == Texts \X Nat
Lines  == DepLines \cup {<<>>}

RamTyped ==
  ram \in [cfg : BOOLEAN, path : Paths, avail : BOOLEAN, probe : BOOLEAN,
           ready : BOOLEAN, error : {"none", "nouci", "path", "load"},
           banks : [0 .. 2 -> Nat], recs : Seq([num : Nat, name : Texts,
             bank : Nat, off : Nat, len : Nat]),
           loaded : BOOLEAN,
           result : [way : {"none", "dma", "disk", "failed"}, name : Texts]]

StoreTyped ==
  /\ store = [cwd |-> store.cwd, open |-> store.open, saved |-> store.saved,
              free |-> store.free, records |-> store.records,
              faults |-> store.faults, jobs |-> store.jobs,
              cut |-> store.cut, reu |-> store.reu]
  /\ store.cwd \in DOMAIN Host \cup {<<>>} /\ store.saved \in BOOLEAN
  /\ DOMAIN store.reu \subseteq Nat \ {0}
  /\ store.reu \in [DOMAIN store.reu -> [1 .. BankSize -> Cells]]

JobType ==
  [job : {"probe", "app", "overlay"}, pc : Loads \cup {"entry", "stream"},
   k : Nat, left : Nat, clipped : BOOLEAN, validate : BOOLEAN,
   assume : BOOLEAN, name : Texts, bank : Nat, off : Nat, max : Nat,
   addr : {"any", "app", "overlay"}, line : Lines, at : Nat \ {0}]

TodoTyped == todo \in JobType \cup {Menu, [pc |-> "probe"]}

Typed == RamTyped /\ StoreTyped /\ TodoTyped

\* The entry of the line that is being loaded
AtEntry ==
  /\ todo.line \in DepLines /\ todo.at \in 1 .. Len(todo.line)
  /\ Entry \in Line
  /\ todo.bank # 0 /\ todo.bank = ram.banks[Entry.ord]

\* What a load was called with
CallOK ==
  /\ Loading =>
       /\ todo.validate <=> todo.job = "probe"
       /\ todo.job = "app" =>
            /\ todo.bank = AppBank /\ todo.off = 0 /\ todo.max = AppMax
            /\ todo.addr = "app" /\ ram.result.way # "dma"
       /\ todo.job = "overlay" =>
            /\ AtEntry /\ todo.off = Entry.off /\ todo.max = Slot
  /\ todo.pc = "stream" => AtEntry

\* The Ultimate's directory is the image.
AtImage == ram.path \in DOMAIN Host /\ store.cwd = ram.path

\* Where the Ultimate's directory is at each command
DirOK ==
  /\ ram.avail \/ store.saved \/ Loading => ram.path # <<>>
  /\ ram.ready /\ ~Loading => AtImage
  /\ todo.pc \in Identify /\ todo.assume => AtImage
  /\ todo.pc = "path" => /\ todo.k + 1 < Len(ram.path)
                         /\ store.cwd = SubSeq(ram.path, 1, todo.k)
  /\ todo.pc \in {"mount", "image", "again"} =>
       store.cwd = SubSeq(ram.path, 1, Len(ram.path) - 1)
  /\ todo.pc \in Reading \cup {"mounted"} => AtImage
  /\ todo.pc = "shut" => /\ ram.error \in {"path", "load"}
                         /\ ram.error = "load" => AtImage
  /\ todo.pc = "return" /\ ram.error \in {"none", "load"} => AtImage

\* The program is in its bank.
Holds(n) ==
  /\ InImage(n) /\ Image(n).addr = "app" /\ Image(n).len \in 1 .. AppMax
  /\ Region(AppBank, 0, Image(n).len) = Payload(Image(n), 0, Image(n).len)

Loaded == todo.pc = "close" \/ (todo.pc = "return" /\ ram.error = "none")

\* What is known of the file that is being loaded
FileOK ==
  /\ todo.pc \in {"info", "header", "seek", "load"} =>
       store.open = <<ram.path, todo.name>> /\ InImage(todo.name)
  /\ todo.pc \in Reading => ~todo.validate
  /\ todo.pc \in {"header", "seek", "load"} =>
       /\ todo.left # 0 /\ todo.left = Length(Image(todo.name).len).left
       /\ todo.clipped = Length(Image(todo.name).len).clipped
  /\ todo.pc \in {"seek", "load"} =>
       todo.addr \in {"any", Image(todo.name).addr}
  /\ Loading /\ todo.job = "app" /\ Loaded => Holds(todo.name)

\* Banks that are given to overlays are not the program's.
BanksOK ==
  /\ store.free \subseteq Nat \ {0, AppBank}
  /\ \A o \in 0 .. 2 : ram.banks[o] # AppBank
  /\ AppBank \in DOMAIN store.reu

DInv ==
  /\ Typed /\ CallOK /\ DirOK /\ FileOK /\ BanksOK
  /\ AppIsFile /\ OthersUntouched

-----------------------------------------------------------------------------
(***************************************************************************)
(* The operators                                                           *)
(***************************************************************************)

LEMMA LeastOf ==
  ASSUME NEW S \in SUBSET Nat, S # {}
  PROVE  \E b \in S : \A c \in S : b <= c
<1> DEFINE R == OpToRel(<, Nat)
<1>1. IsWellFoundedOn(R, Nat)
  BY NatLessThanWellFounded
<1>2. \A x, y \in Nat : <<x, y>> \in R <=> x < y
  BY DEF OpToRel
<1> HIDE DEF R
<1>3. PICK b \in S : \A y \in S : ~(<<y, b>> \in R)
  BY <1>1, WFMin
<1>4. \A y \in S : ~(y < b)
  BY <1>2, <1>3
<1>5. \A y \in S : b <= y
  BY <1>4
<1> QED
  BY <1>5

Memory(D) == [D -> [1 .. BankSize -> Cells]]

\* A write changes the bytes from its offset on, in one bank.
LEMMA WrittenAt ==
  ASSUME BankSize \in Nat, NEW D, NEW reu \in Memory(D), NEW bank \in D,
         NEW off \in Nat, NEW S, NEW what \in [S -> Cells], NEW i \in 1 .. BankSize
  PROVE  Written(reu, bank, off, what)[bank][i] =
           IF i - off \in S THEN what[i - off] ELSE reu[bank][i]
BY DEF Written, Memory

LEMMA WrittenTyped ==
  ASSUME NEW D, NEW reu \in Memory(D), NEW bank, NEW off, NEW S,
         NEW what \in [S -> Cells]
  PROVE  Written(reu, bank, off, what) \in Memory(D)
BY DEF Written, Memory

LEMMA WrittenElsewhere ==
  ASSUME NEW D, NEW reu \in Memory(D), NEW bank, NEW off, NEW what,
         NEW b \in D, b # bank
  PROVE  Written(reu, bank, off, what)[b] = reu[b]
BY DEF Written, Memory

LEMMA PayloadTyped ==
  ASSUME NEW f \in PrgFile, NEW n \in Nat
  PROVE  Payload(f, 0, n) \in [1 .. n -> Cells]
BY DEF Payload, Cells, PrgFile

LEMMA ZerosTyped ==
  ASSUME Slot \in Nat
  PROVE  [i \in 1 .. Slot |-> Zero] \in [1 .. Slot -> Cells]
<1>1. Zero \in Cells
  BY DEF Zero, Cells, Texts
<1>2. \A z \in Cells : [i \in 1 .. Slot |-> z] \in [1 .. Slot -> Cells]
  OBVIOUS
<1> QED
  BY <1>1, <1>2

\* The length that is loaded, of a program or of an overlay.
LEMMA LengthBound ==
  ASSUME DmaAssumption, DInv, Loading, todo.job \in {"app", "overlay"},
         NEW len \in Nat, Length(len).left # 0
  PROVE  /\ Length(len).left \in 1 .. todo.max /\ Length(len).clipped \in BOOLEAN
         /\ todo.max \in Nat
         /\ todo.job = "app" => Length(len).left = len /\ ~Length(len).clipped
<1>1. todo.max \in Nat /\ Slot \in Nat
  BY DEF DInv, CallOK, DmaAssumption
<1>2. todo.job = "app" => todo.addr = "app"
  BY DEF DInv, CallOK
<1> QED
  BY <1>1, <1>2 DEF Length

LEMMA LoadTyped ==
  ASSUME DInv, todo.pc \in Loads \cup {"entry", "stream"}
  PROVE  todo \in JobType
BY DEF DInv, Typed, TodoTyped, Menu, Loads, Identify, Placing, Reading

LEMMA ImageTyped ==
  ASSUME DmaAssumption, DInv, NEW n, InImage(n)
  PROVE  Image(n) \in PrgFile /\ n \in Texts /\ Image(n).len \in Nat
BY DEF InImage, Image, DmaAssumption, PrgFile

-----------------------------------------------------------------------------
(***************************************************************************)
(* Commands                                                                *)
(***************************************************************************)

\* A reply says whether the command was carried out; where it was lost it may
\* have been.
LEMMA ReplyKinds ==
  ASSUME NEW pc, NEW r \in Replies(pc)
  PROVE  \/ r.got = "ok" /\ CanDo(pc) /\ r.store = Done(pc)
         \/ /\ r.got \in {"refused", "lost"}
            /\ r.store \in {store, [store EXCEPT !.faults = @ + 1]}
         \/ /\ r.got = "lost" /\ CanDo(pc)
            /\ r.store = [Done(pc) EXCEPT !.faults = @ + 1]
BY DEF Replies

\* Commands but the load leave the REU and the launcher's flags alone.
LEMMA CommandStore ==
  ASSUME DmaAssumption, DInv, NEW pc \in Loads \ {"load"},
         NEW r \in Replies(pc), store' = r.store
  PROVE  /\ StoreTyped' /\ UNCHANGED <<store.reu, store.free, store.saved>>
         /\ r.got \in {"ok", "refused", "lost"}
         /\ r.got = "ok" => /\ CanDo(pc) /\ store'.cwd = Done(pc).cwd
                            /\ store'.open = Done(pc).open
         /\ r.got = "refused" \/ pc \notin Placing => store'.cwd = store.cwd
         /\ pc \notin {"open", "close"} => store'.open = store.open
<1>1. StoreTyped
  BY DEF DInv, Typed
<1>2. /\ CanDo(pc) => Done(pc).cwd \in DOMAIN Host \cup {<<>>}
      /\ Done(pc) = [cwd |-> Done(pc).cwd, open |-> Done(pc).open,
           saved |-> store.saved, free |-> store.free,
           records |-> store.records, faults |-> store.faults,
           jobs |-> store.jobs, cut |-> store.cut, reu |-> store.reu]
      /\ pc \notin Placing => Done(pc).cwd = store.cwd
      /\ pc \notin {"open", "close"} => Done(pc).open = store.open
  BY <1>1 DEF StoreTyped, Done, CanDo, IsDir, Placing, Loads, Identify, Reading
<1>3. CASE r.got = "ok" /\ CanDo(pc) /\ r.store = Done(pc)
  BY <1>1, <1>2, <1>3 DEF StoreTyped
<1>4. CASE /\ r.got \in {"refused", "lost"}
           /\ r.store \in {store, [store EXCEPT !.faults = @ + 1]}
  BY <1>1, <1>4 DEF StoreTyped
<1>5. CASE /\ r.got = "lost" /\ CanDo(pc)
           /\ r.store = [Done(pc) EXCEPT !.faults = @ + 1]
  BY <1>1, <1>2, <1>5 DEF StoreTyped
<1> QED
  BY <1>3, <1>4, <1>5, ReplyKinds

\* The call goes on with its own arguments, and the launcher's flags stay.
SameCall ==
  /\ todo' \in JobType /\ todo'.pc \in Loads
  /\ todo'.job = todo.job /\ todo'.validate = todo.validate
  /\ todo'.name = todo.name /\ todo'.bank = todo.bank /\ todo'.off = todo.off
  /\ todo'.max = todo.max /\ todo'.addr = todo.addr
  /\ todo'.line = todo.line /\ todo'.at = todo.at
  /\ RamTyped'
  /\ UNCHANGED <<ram.path, ram.avail, ram.ready, ram.banks, ram.result>>

LEMMA QuietLoad ==
  ASSUME DmaAssumption, DInv, Loading, SameCall, StoreTyped',
         UNCHANGED <<store.reu, store.free>>
  PROVE  Typed' /\ CallOK' /\ BanksOK' /\ AppIsFile' /\ OthersUntouched'
<1>1. Typed'
  BY DEF SameCall, Typed, TodoTyped
<1>2. AtEntry => AtEntry' /\ Entry' = Entry
  BY DEF SameCall, AtEntry, Entry
<1>3. todo'.pc # "stream" /\ Loading'
  BY DEF SameCall, Loading, Loads, Identify, Placing, Reading
<1>4. CallOK'
  BY <1>2, <1>3 DEF SameCall, DInv, CallOK
<1>5. BanksOK'
  BY DEF SameCall, DInv, BanksOK
<1>6. AppIsFile'
  BY DEF SameCall, DInv, AppIsFile, InImage, Image, Region
<1>7. OthersUntouched'
  BY DEF SameCall, DInv, OthersUntouched, Targets
<1> QED
  BY <1>1, <1>4, <1>5, <1>6, <1>7

\* A step to another command, or out of the sequence with an error.
LEMMA GoesOn ==
  ASSUME DInv, Loading, NEW next \in Loads, NEW k \in Nat, ram' = ram,
         todo' = [todo EXCEPT !.pc = next, !.k = k]
  PROVE  /\ SameCall /\ todo'.pc = next /\ todo'.k = k
         /\ todo'.left = todo.left /\ todo'.clipped = todo.clipped
         /\ todo'.assume = todo.assume
<1>1. todo \in JobType /\ RamTyped
  BY LoadTyped DEF DInv, Typed, Loading
<1>2. todo' \in JobType
  BY <1>1 DEF JobType
<1>3. /\ todo'.pc = next /\ todo'.k = k
      /\ todo'.left = todo.left /\ todo'.clipped = todo.clipped
      /\ todo'.assume = todo.assume
      /\ todo'.job = todo.job /\ todo'.validate = todo.validate
      /\ todo'.name = todo.name /\ todo'.bank = todo.bank
      /\ todo'.off = todo.off /\ todo'.max = todo.max
      /\ todo'.addr = todo.addr /\ todo'.line = todo.line
      /\ todo'.at = todo.at
  BY <1>1 DEF JobType
<1> QED
  BY <1>1, <1>2, <1>3 DEF SameCall, RamTyped

\* The same without a change of the place in the path.
LEMMA GoesTo ==
  ASSUME DInv, Loading, NEW next \in Loads, ram' = ram, Going(next)
  PROVE  /\ SameCall /\ todo'.pc = next
         /\ todo'.left = todo.left /\ todo'.clipped = todo.clipped
         /\ todo'.assume = todo.assume
<1>1. todo \in JobType
  BY LoadTyped DEF Loading
<1>2. todo.k \in Nat /\ todo' = [todo EXCEPT !.pc = next, !.k = todo.k]
  BY <1>1 DEF Going, JobType
<1> QED
  BY <1>2, GoesOn

LEMMA GoesOut ==
  ASSUME DInv, Loading, NEW e \in {"none", "nouci", "path", "load"},
         NEW next \in Loads,
         ram' = [ram EXCEPT !.error = e], todo' = [todo EXCEPT !.pc = next]
  PROVE  SameCall /\ todo'.pc = next /\ ram'.error = e
<1>1. todo \in JobType /\ RamTyped
  BY LoadTyped DEF DInv, Typed, Loading
<1> QED
  BY <1>1 DEF SameCall, JobType, RamTyped

\* A command fails: the interface is missing, or the file is closed first.
LEMMA FailsOK ==
  ASSUME DmaAssumption, DInv, Loading, NEW pc \in Loads, todo.pc = pc,
         NEW e \in {"nouci", "path", "load"}, Fails(pc, e),
         pc \in Identify <=> e = "nouci", e = "load" => pc \in Reading,
         StoreTyped', UNCHANGED <<store.reu, store.free, store.saved>>,
         pc \notin Placing => store'.cwd = store.cwd
  PROVE  DInv'
<1> DEFINE next == IF pc \in Identify THEN "return" ELSE "shut"
<1>1. next \in Loads
  BY DEF Loads
<1>2. ram' = [ram EXCEPT !.error = e] /\ todo' = [todo EXCEPT !.pc = next]
  BY DEF Fails, Going
<1>3. SameCall /\ todo'.pc = next /\ ram'.error = e
  BY <1>1, <1>2, GoesOut
<1>4. Typed' /\ CallOK' /\ BanksOK' /\ AppIsFile' /\ OthersUntouched'
  BY <1>3, QuietLoad
<1>5. Loading' /\ todo'.pc \in {"return", "shut"}
  BY <1>1, <1>3 DEF Loading
<1>6. e = "load" => AtImage'
  BY <1>3 DEF SameCall, DInv, DirOK, AtImage, Reading, Placing
<1>7. DirOK'
  BY <1>3, <1>5, <1>6 DEF SameCall, DInv, DirOK, Identify, Placing, Reading
<1>8. FileOK'
  BY <1>3, <1>5 DEF FileOK, Loaded, Reading
<1> QED
  BY <1>4, <1>7, <1>8 DEF DInv

LEMMA PathFact ==
  ASSUME DmaAssumption, DInv
  PROVE  ram.path \in Seq(Texts) /\ Len(ram.path) \in Nat
BY DEF DInv, Typed, RamTyped, DmaAssumption

LEMMA PathStep ==
  ASSUME NEW p \in Seq(Texts), NEW k \in Nat, k + 1 <= Len(p)
  PROVE  Append(SubSeq(p, 1, k), p[k + 1]) = SubSeq(p, 1, k + 1)
BY SubSeqProperties, AppendProperties

LEMMA PathEnds ==
  ASSUME NEW p \in Seq(Texts)
  PROVE  /\ SubSeq(p, 1, 0) = <<>> /\ SubSeq(p, 1, Len(p)) = p
         /\ p # <<>> => Len(p) >= 1 /\ Last(p) = p[Len(p)]
BY DEF Last

\* Where the directory is after a command of the sequence is accepted.
LEMMA CommandOK ==
  ASSUME DmaAssumption, DInv, Command
  PROVE  DInv'
<1>1. /\ todo.pc \in {"identify", "drvinfo", "root", "mount", "seek"}
      /\ Loading /\ todo.pc \in Loads \ {"load"}
  BY DEF Command, Loading, Loads, Identify, Placing, Reading
<1>2. PICK r \in Replies(todo.pc) :
        /\ store' = r.store
        /\ IF Accepted(todo.pc, r)
           THEN todo' = [todo EXCEPT !.pc = After(@), !.k = 0] /\ UNCHANGED ram
           ELSE Fails(todo.pc, ErrorOf(todo.pc))
  BY DEF Command, Sent
<1>3. /\ StoreTyped' /\ UNCHANGED <<store.reu, store.free, store.saved>>
      /\ r.got \in {"ok", "refused", "lost"}
      /\ r.got = "ok" => /\ store'.cwd = Done(todo.pc).cwd
      /\ r.got = "refused" \/ todo.pc \notin Placing => store'.cwd = store.cwd
      /\ store'.open = store.open
  BY <1>1, <1>2, CommandStore
<1>4. CASE ~Accepted(todo.pc, r)
  <2>1. Fails(todo.pc, ErrorOf(todo.pc))
    BY <1>2, <1>4
  <2>2. /\ ErrorOf(todo.pc) \in {"nouci", "path", "load"}
        /\ todo.pc \in Identify <=> ErrorOf(todo.pc) = "nouci"
        /\ ErrorOf(todo.pc) = "load" => todo.pc \in Reading
    BY <1>1 DEF ErrorOf, Identify, Reading
  <2> QED
    BY <1>1, <1>3, <2>1, <2>2, FailsOK
<1>5. CASE Accepted(todo.pc, r)
  <2> DEFINE next == After(todo.pc)
  <2>1. /\ next \in {"drvinfo", "mounted", "root", "path", "mount", "image", "load"}
        /\ next \in Loads
    BY <1>1 DEF After, Loads, Identify, Placing, Reading
  <2>2. ram' = ram /\ todo' = [todo EXCEPT !.pc = next, !.k = 0]
    BY <1>2, <1>5
  <2>3. /\ SameCall /\ todo'.pc = next /\ todo'.k = 0
        /\ todo'.left = todo.left /\ todo'.clipped = todo.clipped
        /\ todo'.assume = todo.assume
    BY <1>1, <2>1, <2>2, GoesOn
  <2>4. Typed' /\ CallOK' /\ BanksOK' /\ AppIsFile' /\ OthersUntouched'
    BY <1>1, <1>3, <2>3, QuietLoad
  <2>5. Loading' /\ todo'.pc \notin {"shut", "return"}
    BY <2>1, <2>3 DEF Loading
  <2>6. r.got = "ok" \/ (r.got = "refused" /\ todo.pc \in Identify \cup {"mount"})
    BY <1>1, <1>5 DEF Accepted, StatusIgnored
  <2>7. CASE todo.pc \in Identify
    <3>1. store'.cwd = store.cwd
      BY <1>3, <2>7 DEF Identify, Placing
    <3>2. \/ next = "drvinfo" \/ next = "root"
          \/ next = "mounted" /\ todo.assume
      BY <2>7 DEF Identify, After
    <3>3. todo.assume => AtImage'
      BY <2>2, <2>7, <3>1 DEF DInv, DirOK, AtImage
    <3>4. DirOK'
      BY <1>1, <1>3, <2>2, <2>3, <2>5, <3>2, <3>3
         DEF DInv, DirOK, Identify, Reading
    <3>5. FileOK'
      BY <2>2, <2>3, <3>2, <2>7 DEF SameCall, FileOK, Loaded, Reading
    <3> QED
      BY <2>4, <3>4, <3>5 DEF DInv
  <2>8. CASE todo.pc = "root"
    <3>1. store'.cwd = <<>>
      BY <1>3, <2>6, <2>8 DEF Identify, Done, DInv, Typed, StoreTyped
    <3>2. ram.path # <<>>
      BY <1>1 DEF DInv, DirOK
    <3>3. next = IF Len(ram.path) > 1 THEN "path" ELSE "mount"
      BY <2>8 DEF After
    <3>4. next = "mount" => Len(ram.path) - 1 = 0
      <4>1. Len(ram.path) \in Nat /\ Len(ram.path) >= 1
        BY <3>2, PathFact, PathEnds
      <4>2. next = "mount" => ~(Len(ram.path) > 1)
        BY <3>3
      <4>3. \A n \in Nat : n >= 1 /\ ~(n > 1) => n - 1 = 0
        OBVIOUS
      <4> QED
        BY <4>1, <4>2, <4>3
    <3>5. DirOK'
      BY <1>1, <1>3, <2>2, <2>3, <2>5, <3>1, <3>2, <3>3, <3>4, PathFact, PathEnds
         DEF DInv, DirOK, Identify, Reading
    <3>6. FileOK'
      BY <2>2, <2>3, <3>3 DEF FileOK, Loaded, Reading
    <3> QED
      BY <2>4, <3>5, <3>6 DEF DInv
  <2>9. CASE todo.pc = "mount"
    <3>1. store'.cwd = store.cwd
      BY <1>3, <2>6, <2>9 DEF Done
    <3>2. next = "image"
      BY <2>9 DEF After
    <3>3. DirOK'
      BY <1>1, <1>3, <2>2, <2>3, <2>5, <2>9, <3>1, <3>2
         DEF DInv, DirOK, Identify, Reading
    <3>4. FileOK'
      BY <2>2, <2>3, <3>2 DEF FileOK, Loaded, Reading
    <3> QED
      BY <2>4, <3>3, <3>4 DEF DInv
  <2>10. CASE todo.pc = "seek"
    <3>1. store'.cwd = store.cwd
      BY <1>3, <2>10 DEF Placing
    <3>2. next = "load"
      BY <2>10 DEF After
    <3>3. AtImage'
      BY <2>2, <2>10, <3>1 DEF DInv, DirOK, AtImage, Reading
    <3>4. DirOK'
      BY <1>1, <1>3, <2>2, <2>3, <2>5, <3>2, <3>3
         DEF DInv, DirOK, Identify, Reading
    <3>5. FileOK'
      BY <1>3, <2>2, <2>3, <2>10, <3>2
         DEF SameCall, DInv, FileOK, Loaded, Reading, InImage, Image, Length
    <3> QED
      BY <2>4, <3>4, <3>5 DEF DInv
  <2> QED
    BY <1>1, <2>7, <2>8, <2>9, <2>10 DEF Identify
<1> QED
  BY <1>4, <1>5

\* From one directory of the path into the next.
LEMMA PathCommandOK ==
  ASSUME DmaAssumption, DInv, PathCommand
  PROVE  DInv'
<1>1. todo.pc = "path" /\ Loading /\ todo.pc \in Loads \ {"load"} /\ "path" \in Loads
  BY DEF PathCommand, Loading, Loads, Placing
<1>2. PICK r \in Replies("path") :
        /\ store' = r.store
        /\ IF Accepted("path", r)
           THEN todo' = [todo EXCEPT !.pc = After("path"), !.k = @ + 1] /\ UNCHANGED ram
           ELSE Fails("path", "path")
  BY DEF PathCommand, Sent
<1>3. /\ StoreTyped' /\ UNCHANGED <<store.reu, store.free, store.saved>>
      /\ r.got = "ok" => store'.cwd = Done("path").cwd
  BY <1>1, <1>2, CommandStore
<1>4. CASE ~Accepted("path", r)
  <2>1. Fails("path", "path") /\ "path" \notin Identify
    BY <1>2, <1>4 DEF Identify
  <2> QED
    BY <1>1, <1>3, <2>1, FailsOK DEF Placing
<1>5. CASE Accepted("path", r)
  <2> DEFINE next == After("path")
             k    == todo.k
             p    == ram.path
  <2>1. next = IF k + 2 < Len(p) THEN "path" ELSE "mount"
    BY DEF After
  <2>2. next \in Loads
    BY <2>1 DEF Loads, Placing
  <2>3. k \in Nat
    BY <1>1, LoadTyped DEF JobType
  <2>4. k + 1 \in Nat /\ ram' = ram /\ todo' = [todo EXCEPT !.pc = next, !.k = k + 1]
    BY <1>2, <1>5, <2>3
  <2>5. SameCall /\ todo'.pc = next /\ todo'.k = k + 1
    BY <1>1, <2>2, <2>4, GoesOn
  <2>6. Typed' /\ CallOK' /\ BanksOK' /\ AppIsFile' /\ OthersUntouched'
    BY <1>1, <1>3, <2>5, QuietLoad
  <2>7. store.cwd = SubSeq(p, 1, k) /\ k + 1 < Len(p) /\ p # <<>>
    BY <1>1 DEF DInv, DirOK
  <2>8. store'.cwd = SubSeq(p, 1, k + 1)
    <3>1. r.got = "ok"
      BY <1>5 DEF Accepted, StatusIgnored, Identify
    <3>2. store'.cwd = Append(store.cwd, p[k + 1])
      BY <1>3, <3>1 DEF Done, DInv, Typed, StoreTyped
    <3>3. k + 1 <= Len(p)
      BY <2>3, <2>7, PathFact
    <3> QED
      BY <2>3, <2>7, <3>2, <3>3, PathFact, PathStep
  <2>9. next = "mount" => Len(p) - 1 = k + 1
    <3>1. Len(p) \in Nat
      BY PathFact
    <3>2. \A n, j \in Nat : j + 1 < n /\ ~(j + 2 < n) => n - 1 = j + 1
      OBVIOUS
    <3> QED
      BY <2>1, <2>3, <2>7, <3>1, <3>2
  <2>10. next = "path" => (k + 1) + 1 < Len(p)
    <3>1. Len(p) \in Nat
      BY PathFact
    <3>2. \A n, j \in Nat : j + 2 < n => (j + 1) + 1 < n
      OBVIOUS
    <3> QED
      BY <2>1, <2>3, <3>1, <3>2
  <2>11. Loading'
    BY <2>2, <2>5 DEF Loading
  <2> HIDE DEF next
  <2>12. next \in {"path", "mount"}
    BY <2>1
  <2>13. DirOK'
    BY <1>3, <2>4, <2>5, <2>7, <2>8, <2>9, <2>10, <2>11, <2>12
       DEF DInv, DirOK, Identify, Reading
  <2>14. FileOK'
    BY <2>5, <2>12 DEF FileOK, Loaded, Reading
  <2> QED
    BY <2>6, <2>13, <2>14 DEF DInv
<1> QED
  BY <1>4, <1>5

\* Into the image itself, or once more under its mount name.
LEMMA ImageCommandOK ==
  ASSUME DmaAssumption, DInv, ImageCommand
  PROVE  DInv'
<1>1. /\ todo.pc \in {"image", "again"} /\ Loading
      /\ todo.pc \in Loads \ {"load"} /\ todo.pc \in Placing
      /\ {"again", "mounted"} \subseteq Loads
  BY DEF ImageCommand, Loading, Loads, Placing
<1>2. PICK r \in Replies(todo.pc) :
        /\ store' = r.store
        /\ \/ Accepted(todo.pc, r) /\ Going("mounted") /\ UNCHANGED ram
           \/ r.got = "refused" /\ todo.pc = "image" /\ Going("again") /\ UNCHANGED ram
           \/ Fails(todo.pc, "path")
  BY DEF ImageCommand, Sent
<1>3. /\ StoreTyped' /\ UNCHANGED <<store.reu, store.free, store.saved>>
      /\ r.got = "ok" => store'.cwd = Done(todo.pc).cwd /\ CanDo(todo.pc)
      /\ r.got = "refused" => store'.cwd = store.cwd
  BY <1>1, <1>2, CommandStore
<1>4. /\ store.cwd = SubSeq(ram.path, 1, Len(ram.path) - 1)
      /\ ram.path # <<>>
  BY <1>1 DEF DInv, DirOK
<1>5. CASE Accepted(todo.pc, r) /\ Going("mounted") /\ UNCHANGED ram
  <2>1. SameCall /\ todo'.pc = "mounted"
    BY <1>1, <1>5, GoesTo
  <2>2. Typed' /\ CallOK' /\ BanksOK' /\ AppIsFile' /\ OthersUntouched'
    BY <1>1, <1>3, <2>1, QuietLoad
  <2>3. r.got = "ok"
    BY <1>1, <1>5 DEF Accepted, StatusIgnored, Identify
  <2>4. /\ store'.cwd = Append(store.cwd, Last(ram.path))
        /\ Append(store.cwd, Last(ram.path)) \in DOMAIN Host
    BY <1>1, <1>3, <2>3 DEF Done, CanDo, IsDir, DInv, Typed, StoreTyped
  <2>5. store'.cwd = ram.path
    <3> DEFINE n == Len(ram.path)
    <3>1. n \in Nat /\ n >= 1 /\ Last(ram.path) = ram.path[n]
      BY <1>4, PathFact, PathEnds
    <3>2. n - 1 \in Nat /\ (n - 1) + 1 = n /\ (n - 1) + 1 <= Len(ram.path)
      BY <3>1
    <3>3. Append(SubSeq(ram.path, 1, n - 1), ram.path[(n - 1) + 1])
            = SubSeq(ram.path, 1, (n - 1) + 1)
      BY <3>2, PathFact, PathStep
    <3> QED
      BY <1>4, <2>4, <3>1, <3>2, <3>3, PathFact, PathEnds
  <2>6. AtImage'
    BY <1>5, <2>4, <2>5 DEF AtImage
  <2>7. DirOK'
    BY <1>3, <1>4, <1>5, <2>1, <2>6 DEF DInv, DirOK, Identify, Reading
  <2>8. FileOK'
    BY <2>1 DEF FileOK, Loaded, Reading
  <2> QED
    BY <2>2, <2>7, <2>8 DEF DInv
<1>6. CASE r.got = "refused" /\ todo.pc = "image" /\ Going("again") /\ UNCHANGED ram
  <2>1. SameCall /\ todo'.pc = "again"
    BY <1>1, <1>6, GoesTo
  <2>2. Typed' /\ CallOK' /\ BanksOK' /\ AppIsFile' /\ OthersUntouched'
    BY <1>1, <1>3, <2>1, QuietLoad
  <2>3. DirOK'
    BY <1>1, <1>3, <1>4, <1>6, <2>1 DEF DInv, DirOK, Identify, Reading, Loading
  <2>4. FileOK'
    BY <2>1 DEF FileOK, Loaded, Reading
  <2> QED
    BY <2>2, <2>3, <2>4 DEF DInv
<1>7. CASE Fails(todo.pc, "path")
  BY <1>1, <1>3, <1>7, FailsOK DEF Identify
<1> QED
  BY <1>2, <1>5, <1>6, <1>7

LEMMA MountedOK ==
  ASSUME DmaAssumption, DInv, Mounted
  PROVE  DInv'
<1>1. /\ todo.pc = "mounted" /\ Loading /\ AtImage /\ {"return", "open"} \subseteq Loads
      /\ store' = store
  BY DEF Mounted, Loading, Loads, Reading, DInv, DirOK
<1>2. StoreTyped'
  BY <1>1 DEF DInv, Typed, StoreTyped
<1>3. CASE todo.validate
  <2>1. ram' = [ram EXCEPT !.error = "none"] /\ todo' = [todo EXCEPT !.pc = "return"]
    BY <1>3 DEF Mounted, Going
  <2>2. SameCall /\ todo'.pc = "return"
    BY <1>1, <2>1, GoesOut
  <2>3. Typed' /\ CallOK' /\ BanksOK' /\ AppIsFile' /\ OthersUntouched'
    BY <1>1, <1>2, <2>2, QuietLoad
  <2>4. AtImage'
    BY <1>1, <2>2 DEF AtImage, SameCall
  <2>5. DirOK'
    BY <1>1, <2>2, <2>4 DEF SameCall, DInv, DirOK, Identify, Reading, Loading
  <2>6. todo'.job # "app"
    BY <1>1, <1>3, <2>2 DEF SameCall, DInv, CallOK
  <2>7. FileOK'
    BY <2>2, <2>6 DEF FileOK, Reading
  <2> QED
    BY <2>3, <2>5, <2>7 DEF DInv
<1>4. CASE ~todo.validate
  <2>1. ram' = ram /\ Going("open")
    BY <1>4 DEF Mounted
  <2>2. SameCall /\ todo'.pc = "open"
    BY <1>1, <2>1, GoesTo
  <2>3. Typed' /\ CallOK' /\ BanksOK' /\ AppIsFile' /\ OthersUntouched'
    BY <1>1, <1>2, <2>2, QuietLoad
  <2>4. AtImage'
    BY <1>1, <2>1 DEF AtImage
  <2>5. DirOK'
    BY <1>1, <2>2, <2>4 DEF SameCall, DInv, DirOK, Identify, Reading, Loading
  <2>6. FileOK'
    BY <1>4, <2>2 DEF SameCall, FileOK, Loaded
  <2> QED
    BY <2>3, <2>5, <2>6 DEF DInv
<1> QED
  BY <1>3, <1>4

\* The file is opened where the directory is: in the image.
LEMMA OpenCommandOK ==
  ASSUME DmaAssumption, DInv, OpenCommand
  PROVE  DInv'
<1>1. /\ todo.pc = "open" /\ Loading /\ todo.pc \in Loads \ {"load"}
      /\ "info" \in Loads /\ "open" \in Reading /\ AtImage /\ ~todo.validate
      /\ "open" \notin Placing \cup Identify
  BY DEF OpenCommand, Loading, Loads, Placing, Identify, Reading, DInv, DirOK, FileOK
<1>2. PICK r \in Replies("open") :
        /\ store' = r.store
        /\ IF Accepted("open", r) THEN Going("info") /\ UNCHANGED ram
           ELSE Fails("open", "load")
  BY DEF OpenCommand, Sent
<1>3. /\ StoreTyped' /\ UNCHANGED <<store.reu, store.free, store.saved>>
      /\ r.got = "ok" => store'.open = Done("open").open /\ CanDo("open")
      /\ store'.cwd = store.cwd
  BY <1>1, <1>2, CommandStore
<1>4. CASE ~Accepted("open", r)
  BY <1>1, <1>2, <1>3, <1>4, FailsOK
<1>5. CASE Accepted("open", r)
  <2>1. SameCall /\ todo'.pc = "info" /\ ram' = ram
    BY <1>1, <1>2, <1>5, GoesTo
  <2>2. Typed' /\ CallOK' /\ BanksOK' /\ AppIsFile' /\ OthersUntouched'
    BY <1>1, <1>3, <2>1, QuietLoad
  <2>3. AtImage'
    BY <1>1, <1>3, <2>1 DEF AtImage
  <2>4. DirOK'
    BY <1>1, <1>3, <2>1, <2>3 DEF DInv, DirOK, Identify, Reading, Loading
  <2>5. r.got = "ok"
    BY <1>5 DEF Accepted, StatusIgnored, Identify
  <2>6. store'.open = <<store.cwd, todo.name>>
    BY <1>3, <2>5 DEF Done, DInv, Typed, StoreTyped
  <2>7. InImage(todo.name)
    BY <1>1, <1>3, <2>5 DEF CanDo, Here, AtImage, InImage
  <2>8. FileOK'
    BY <1>1, <2>1, <2>6, <2>7 DEF AtImage, SameCall, FileOK, Loaded, Reading, InImage
  <2> QED
    BY <2>2, <2>4, <2>8 DEF DInv
<1> QED
  BY <1>4, <1>5

\* What the Ultimate has opened is the file of the image.
LEMMA OpenedImage ==
  ASSUME DmaAssumption, DInv, todo.pc \in {"info", "header", "seek", "load"}
  PROVE  /\ Loading /\ todo.pc \in Reading /\ InImage(todo.name)
         /\ Opened = Image(todo.name) /\ Opened \in PrgFile /\ Opened.len \in Nat
         /\ todo.job \in {"app", "overlay"} /\ AtImage /\ store.open # <<>>
<1>1. Loading /\ todo.pc \in Reading
  BY DEF Loading, Loads, Reading
<1>2. store.open = <<ram.path, todo.name>> /\ InImage(todo.name) /\ ~todo.validate
  BY <1>1 DEF DInv, FileOK
<1>3. Opened = Image(todo.name)
  BY <1>2 DEF Opened, Image
<1>4. todo.job \in {"app", "overlay"}
  BY <1>1, <1>2, LoadTyped DEF DInv, CallOK, JobType, Loading
<1> QED
  BY <1>1, <1>2, <1>3, <1>4, ImageTyped DEF DInv, DirOK

LEMMA InfoCommandOK ==
  ASSUME DmaAssumption, DInv, InfoCommand
  PROVE  DInv'
<1>1. /\ todo.pc = "info" /\ todo.pc \in Loads \ {"load"}
      /\ "header" \in Loads /\ "info" \notin Placing \cup Identify
      /\ "info" \in Reading /\ Loading
  BY DEF InfoCommand, Loads, Placing, Identify, Reading, Loading
<1> DEFINE n == Length(Opened.len)
<1>2. PICK r \in Replies("info") :
        /\ store' = r.store
        /\ IF Accepted("info", r) /\ n.left > 0
           THEN /\ todo' = [todo EXCEPT !.pc = "header", !.left = n.left,
                                        !.clipped = n.clipped]
                /\ UNCHANGED ram
           ELSE Fails("info", "load")
  BY DEF InfoCommand, Sent
<1>3. /\ StoreTyped' /\ UNCHANGED <<store.reu, store.free, store.saved>>
      /\ store'.cwd = store.cwd /\ store'.open = store.open
  BY <1>1, <1>2, CommandStore
<1>4. CASE ~(Accepted("info", r) /\ n.left > 0)
  BY <1>1, <1>2, <1>3, <1>4, FailsOK
<1>5. CASE Accepted("info", r) /\ n.left > 0
  <2>1. n.left # 0
    BY <1>5
  <2>2. n.left \in Nat /\ n.clipped \in BOOLEAN
    BY <1>1, <2>1, OpenedImage, LengthBound
  <2>3. ram' = ram /\ todo' = [todo EXCEPT !.pc = "header", !.left = n.left,
                                           !.clipped = n.clipped]
    BY <1>2, <1>5
  <2> HIDE DEF n
  <2>4. todo \in JobType /\ RamTyped
    BY <1>1, LoadTyped DEF DInv, Typed
  <2>5. todo' \in JobType
    BY <1>1, <2>2, <2>3, <2>4 DEF JobType
  <2>6. SameCall /\ todo'.pc = "header" /\ todo'.left = n.left
        /\ todo'.clipped = n.clipped
    BY <1>1, <2>3, <2>4, <2>5 DEF JobType, SameCall, RamTyped
  <2>7. Typed' /\ CallOK' /\ BanksOK' /\ AppIsFile' /\ OthersUntouched'
    BY <1>1, <1>3, <2>6, QuietLoad
  <2>8. AtImage'
    BY <1>1, <1>3, <2>3, OpenedImage DEF AtImage
  <2>9. DirOK'
    BY <1>1, <1>3, <2>3, <2>6, <2>8 DEF DInv, DirOK, Identify, Reading, Loading
  <2>10. n = Length(Image(todo.name).len)
    BY <1>1, OpenedImage DEF n
  <2>11. /\ Length(Image(todo.name).len)' = Length(Image(todo.name).len)
         /\ InImage(todo.name)' = InImage(todo.name)
    BY <2>3, <2>6 DEF SameCall, Length, Image, InImage
  <2>12. FileOK'
    BY <1>1, <1>3, <2>1, <2>3, <2>6, <2>10, <2>11
       DEF SameCall, DInv, FileOK, Loaded, Reading
  <2> QED
    BY <2>7, <2>9, <2>12 DEF DInv
<1> QED
  BY <1>4, <1>5

LEMMA HeaderCommandOK ==
  ASSUME DmaAssumption, DInv, HeaderCommand
  PROVE  DInv'
<1>1. /\ todo.pc = "header" /\ todo.pc \in Loads \ {"load"}
      /\ "seek" \in Loads /\ "header" \notin Placing \cup Identify
      /\ "header" \in Reading /\ Loading
  BY DEF HeaderCommand, Loads, Placing, Identify, Reading, Loading
<1>2. PICK r \in Replies("header") :
        /\ store' = r.store
        /\ IF Accepted("header", r) /\ todo.addr \in {"any", Opened.addr}
           THEN Going("seek") /\ UNCHANGED ram ELSE Fails("header", "load")
  BY DEF HeaderCommand, Sent
<1>3. /\ StoreTyped' /\ UNCHANGED <<store.reu, store.free, store.saved>>
      /\ store'.cwd = store.cwd /\ store'.open = store.open
  BY <1>1, <1>2, CommandStore
<1>4. CASE ~(Accepted("header", r) /\ todo.addr \in {"any", Opened.addr})
  BY <1>1, <1>2, <1>3, <1>4, FailsOK
<1>5. CASE Accepted("header", r) /\ todo.addr \in {"any", Opened.addr}
  <2>1. /\ SameCall /\ todo'.pc = "seek" /\ ram' = ram
        /\ todo'.left = todo.left /\ todo'.clipped = todo.clipped
    BY <1>1, <1>2, <1>5, GoesTo
  <2>2. Typed' /\ CallOK' /\ BanksOK' /\ AppIsFile' /\ OthersUntouched'
    BY <1>1, <1>3, <2>1, QuietLoad
  <2>3. AtImage'
    BY <1>1, <1>3, <2>1, OpenedImage DEF AtImage
  <2>4. DirOK'
    BY <1>1, <1>3, <2>1, <2>3 DEF DInv, DirOK, Identify, Reading, Loading
  <2>5. todo.addr \in {"any", Image(todo.name).addr}
    BY <1>1, <1>5, OpenedImage
  <2>6. /\ Length(Image(todo.name).len)' = Length(Image(todo.name).len)
        /\ InImage(todo.name)' = InImage(todo.name)
        /\ Image(todo.name)' = Image(todo.name)
    BY <2>1 DEF SameCall, Length, Image, InImage
  <2>7. FileOK'
    BY <1>1, <1>3, <2>1, <2>5, <2>6 DEF SameCall, DInv, FileOK, Loaded, Reading
  <2> QED
    BY <2>2, <2>4, <2>7 DEF DInv
<1> QED
  BY <1>4, <1>5

-----------------------------------------------------------------------------
(***************************************************************************)
(* Writes to the REU                                                       *)
(***************************************************************************)

OverlayTargets ==
  {<<ram.banks[e.ord], e.off + i>> :
     e \in UNION {{l[j] : j \in {k \in DOMAIN l : l[k] # Bad}} : l \in DepLines},
     i \in 1 .. Slot}

LEMMA OverlayTarget ==
  ASSUME DmaAssumption, AtEntry, NEW j \in 1 .. Slot
  PROVE  <<todo.bank, Entry.off + j>> \in Targets
<1>1. /\ todo.line \in DepLines /\ todo.at \in DOMAIN todo.line
      /\ Entry = todo.line[todo.at] /\ Entry # Bad
  BY DEF AtEntry, Entry, DmaAssumption
<1>2. Entry \in UNION {{l[m] : m \in {k \in DOMAIN l : l[k] # Bad}} : l \in DepLines}
  BY <1>1
<1>3. <<ram.banks[Entry.ord], Entry.off + j>> \in OverlayTargets
  BY <1>2 DEF OverlayTargets
<1> QED
  BY <1>3 DEF AtEntry, Targets, OverlayTargets

LEMMA MemoryNow ==
  ASSUME DInv
  PROVE  store.reu \in Memory(DOMAIN store.reu)
BY DEF DInv, Typed, StoreTyped, Memory

\* A write into the targets leaves the rest as it was.
Spares(D, mem, T) ==
  \A b \in D : \A i \in 1 .. BankSize : <<b, i>> \in T \/ mem[b][i] = Old
Within(bank, off, S, T) == \A j \in S : <<bank, off + j>> \in T

LEMMA WriteOthers ==
  ASSUME BankSize \in Nat, NEW D, NEW old \in Memory(D), NEW T,
         NEW bank, NEW off \in Nat, NEW S, NEW what \in [S -> Cells],
         Within(bank, off, S, T), Spares(D, old, T)
  PROVE  Spares(D, Written(old, bank, off, what), T)
<1> SUFFICES ASSUME NEW b \in D, NEW i \in 1 .. BankSize, <<b, i>> \notin T
             PROVE  Written(old, bank, off, what)[b][i] = Old
  BY DEF Spares
<1>1. old[b][i] = Old
  BY DEF Spares
<1>2. CASE b # bank
  BY <1>1, <1>2, WrittenElsewhere
<1>3. CASE b = bank
  <2>1. off + (i - off) = i
    OBVIOUS
  <2>2. i - off \notin S
    BY <1>3, <2>1 DEF Within
  <2> QED
    BY <1>1, <1>3, <2>2, WrittenAt
<1> QED
  BY <1>2, <1>3

\* What is written can be read where it was written.
LEMMA WriteHolds ==
  ASSUME BankSize \in Nat, NEW D, NEW old \in Memory(D), NEW bank \in D,
         NEW off \in Nat, NEW n \in Nat, off + n <= BankSize,
         NEW what \in [1 .. n -> Cells],
         NEW new, new = Written(old, bank, off, what)
  PROVE  SubSeq(new[bank], off + 1, off + n) = what
<1>1. new \in Memory(D)
  BY WrittenTyped
<1>2. new[bank] \in [1 .. BankSize -> Cells]
  BY <1>1 DEF Memory
<1>3. new[bank] \in Seq(Cells) /\ Len(new[bank]) = BankSize
  BY <1>2
<1>4. \A i \in 1 .. n : new[bank][off + i] = what[i]
  <2> SUFFICES ASSUME NEW i \in 1 .. n PROVE new[bank][off + i] = what[i]
    OBVIOUS
  <2>1. off + i \in 1 .. BankSize /\ (off + i) - off = i
    OBVIOUS
  <2> DEFINE S == 1 .. n
             k == off + i
  <2>2. what \in [S -> Cells] /\ k - off = i /\ i \in S /\ k \in 1 .. BankSize
    BY <2>1
  <2> HIDE DEF S, k
  <2>3. new[bank][k] = IF k - off \in S THEN what[k - off] ELSE old[bank][k]
    BY <2>2, WrittenAt
  <2> QED
    BY <2>2, <2>3 DEF k
<1> DEFINE s == SubSeq(new[bank], off + 1, off + n)
<1>5. /\ Len(s) = n /\ s \in Seq(Cells)
      /\ \A i \in 1 .. n : s[i] = new[bank][off + i]
  <2> DEFINE f == off + 1
             l == off + n
  <2>1. f \in Int /\ l \in Int /\ \A i \in f .. l : new[bank][i] \in Cells
    BY <1>2
  <2>2. /\ l - f + 1 = n /\ (IF f <= l THEN l - f + 1 ELSE 0) = n
        /\ \A i \in 1 .. n : f + i - 1 = off + i
    OBVIOUS
  <2>3. /\ s = SubSeq(new[bank], f, l)
    OBVIOUS
  <2> HIDE DEF f, l, s
  <2>4. /\ s \in Seq(Cells) /\ Len(s) = IF f <= l THEN l - f + 1 ELSE 0
        /\ \A i \in 1 .. l - f + 1 : s[i] = new[bank][f + i - 1]
    BY <2>1, <2>3, SubSeqProperties
  <2> QED
    BY <2>2, <2>4
<1> HIDE DEF s
<1>6. s = [i \in 1 .. n |-> new[bank][off + i]]
  BY <1>5
<1>7. s = what
  BY <1>4, <1>6
<1> QED
  BY <1>7 DEF s

LEMMA AppTarget ==
  ASSUME NEW j \in 1 .. AppMax
  PROVE  <<AppBank, j>> \in Targets
BY DEF Targets

\* What a load command writes, and where.
Loadable(what) ==
  /\ what = Payload(Opened, 0, todo.left) /\ todo.left \in Nat /\ todo.off \in Nat
  /\ what \in [1 .. todo.left -> Cells]
  /\ \A j \in 1 .. todo.left : <<todo.bank, todo.off + j>> \in Targets

LEMMA LoadWhat ==
  ASSUME DmaAssumption, DInv, todo.pc = "load"
  PROVE  /\ Loadable(Payload(Opened, 0, todo.left))
         /\ todo.job = "app" =>
              /\ Opened.addr = "app" /\ Opened.len \in 1 .. AppMax
              /\ todo.left = Opened.len /\ ~todo.clipped
<1>1. /\ Loading /\ Opened = Image(todo.name) /\ Opened \in PrgFile
      /\ Opened.len \in Nat /\ todo.job \in {"app", "overlay"}
  BY OpenedImage
<1>2. /\ todo.left # 0 /\ todo.left = Length(Opened.len).left
      /\ todo.clipped = Length(Opened.len).clipped
      /\ todo.addr \in {"any", Opened.addr}
  BY <1>1 DEF DInv, FileOK
<1>3. /\ todo.left \in 1 .. todo.max /\ todo.max \in Nat
      /\ todo.job = "app" => todo.left = Opened.len /\ ~todo.clipped
  BY <1>1, <1>2, LengthBound
<1>4. todo.left \in Nat /\ todo.off \in Nat
  BY <1>1, LoadTyped DEF JobType, Loading
<1>5. Payload(Opened, 0, todo.left) \in [1 .. todo.left -> Cells]
  BY <1>1, <1>4, PayloadTyped
<1>6. ASSUME NEW j \in 1 .. todo.left
      PROVE  <<todo.bank, todo.off + j>> \in Targets
  <2>1. j \in 1 .. todo.max
    BY <1>3
  <2>2. CASE todo.job = "app"
    <3>1. todo.bank = AppBank /\ todo.off = 0 /\ todo.max = AppMax
      BY <1>1, <2>2 DEF DInv, CallOK
    <3>2. <<AppBank, j>> \in Targets /\ 0 + j = j
      BY <2>1, <3>1, AppTarget
    <3> QED
      BY <3>1, <3>2
  <2>3. CASE todo.job = "overlay"
    BY <1>1, <2>1, <2>3, OverlayTarget DEF DInv, CallOK
  <2> QED
    BY <1>1, <2>2, <2>3
<1>7. todo.job = "app" => todo.addr = "app" /\ todo.max = AppMax
  BY <1>1 DEF DInv, CallOK
<1> QED
  BY <1>2, <1>3, <1>4, <1>5, <1>6, <1>7 DEF Loadable

\* The load command leaves all but the REU's bytes.
LEMMA LoadStore ==
  ASSUME DmaAssumption, DInv, todo.pc = "load", NEW r \in Replies("load"),
         NEW c \in BOOLEAN, store' = [r.store EXCEPT !.cut = c]
  PROVE  /\ StoreTyped' /\ DOMAIN store'.reu = DOMAIN store.reu
         /\ store'.reu \in {store.reu,
              Written(store.reu, todo.bank, todo.off, Payload(Opened, 0, todo.left))}
         /\ r.got = "ok" => store'.reu =
              Written(store.reu, todo.bank, todo.off, Payload(Opened, 0, todo.left))
         /\ UNCHANGED <<store.cwd, store.open, store.saved, store.free>>
         /\ r.got \in {"ok", "refused", "lost"}
<1> DEFINE w == Written(store.reu, todo.bank, todo.off, Payload(Opened, 0, todo.left))
           D == DOMAIN store.reu
           S == 1 .. todo.left
<1>1. StoreTyped /\ store.reu \in Memory(D) /\ Payload(Opened, 0, todo.left) \in [S -> Cells]
  BY LoadWhat, MemoryNow DEF DInv, Typed, Loadable
<1>2. Done("load") = [cwd |-> store.cwd, open |-> store.open,
        saved |-> store.saved, free |-> store.free, records |-> store.records,
        faults |-> store.faults, jobs |-> store.jobs, cut |-> store.cut, reu |-> w]
  BY <1>1 DEF Done, StoreTyped
<1> HIDE DEF S, D
<1>3. w \in Memory(D)
  BY <1>1, WrittenTyped
<1> HIDE DEF w
<1> DEFINE Goal ==
      /\ store'.reu \in {store.reu, w} /\ (r.got = "ok" => store'.reu = w)
      /\ UNCHANGED <<store.cwd, store.open, store.saved, store.free>>
      /\ r.got \in {"ok", "refused", "lost"}
      /\ store' = [cwd |-> store'.cwd, open |-> store'.open, saved |-> store'.saved,
                   free |-> store'.free, records |-> store'.records,
                   faults |-> store'.faults, jobs |-> store'.jobs,
                   cut |-> store'.cut, reu |-> store'.reu]
<1>4. Goal
  <2>1. CASE r.got = "ok" /\ r.store = Done("load")
    BY <1>1, <1>2, <2>1 DEF StoreTyped
  <2>2. CASE /\ r.got \in {"refused", "lost"}
             /\ r.store \in {store, [store EXCEPT !.faults = @ + 1]}
    BY <1>1, <2>2 DEF StoreTyped
  <2>3. CASE r.got = "lost" /\ r.store = [Done("load") EXCEPT !.faults = @ + 1]
    <3> DEFINE m == Done("load").faults + 1
    <3>1. r.store = [Done("load") EXCEPT !.faults = m]
      BY <2>3
    <3> HIDE DEF m
    <3>2. r.store = [cwd |-> store.cwd, open |-> store.open,
            saved |-> store.saved, free |-> store.free, records |-> store.records,
            faults |-> m, jobs |-> store.jobs, cut |-> store.cut, reu |-> w]
      BY <1>2, <3>1
    <3>3. store' = [cwd |-> store.cwd, open |-> store.open,
            saved |-> store.saved, free |-> store.free, records |-> store.records,
            faults |-> m, jobs |-> store.jobs, cut |-> c, reu |-> w]
      BY ONLY <3>2, store' = [r.store EXCEPT !.cut = c]
    <3> QED
      BY ONLY <2>3, <3>3
  <2>4. \/ r.got = "ok" /\ CanDo("load") /\ r.store = Done("load")
        \/ /\ r.got \in {"refused", "lost"}
           /\ r.store \in {store, [store EXCEPT !.faults = @ + 1]}
        \/ /\ r.got = "lost" /\ CanDo("load")
           /\ r.store = [Done("load") EXCEPT !.faults = @ + 1]
    BY ReplyKinds
  <2> HIDE DEF Goal
  <2> QED
    BY <2>1, <2>2, <2>3, <2>4
<1>5. DOMAIN store'.reu = D /\ store'.reu \in Memory(D)
  BY <1>1, <1>3, <1>4 DEF Memory
<1>6. StoreTyped'
  BY <1>1, <1>4, <1>5 DEF StoreTyped, Memory, D
<1> QED
  BY <1>4, <1>5, <1>6 DEF w, D

\* Whatever it has written, the rest of the REU is as it was.
LEMMA LoadKeeps ==
  ASSUME DmaAssumption, DInv, todo.pc = "load", SameCall, StoreTyped',
         NEW what, Loadable(what), UNCHANGED store.free,
         DOMAIN store'.reu = DOMAIN store.reu,
         store'.reu \in {store.reu, Written(store.reu, todo.bank, todo.off, what)}
  PROVE  Typed' /\ CallOK' /\ BanksOK' /\ AppIsFile' /\ OthersUntouched'
<1>0. Loading /\ todo'.pc # "stream" /\ Loading'
  BY DEF SameCall, Loading, Loads, Identify, Placing, Reading
<1>1. Typed'
  BY DEF SameCall, Typed, TodoTyped
<1>2. AtEntry => AtEntry' /\ Entry' = Entry
  BY DEF SameCall, AtEntry, Entry
<1>3. CallOK'
  BY <1>0, <1>2 DEF SameCall, DInv, CallOK
<1>4. BanksOK'
  BY DEF SameCall, DInv, BanksOK
<1>5. Targets' = Targets
  BY DEF SameCall, Targets
<1> DEFINE D == DOMAIN store.reu
           S == 1 .. todo.left
           T == Targets
<1>6. /\ what \in [S -> Cells] /\ todo.off \in Nat /\ BankSize \in Nat
      /\ Within(todo.bank, todo.off, S, T)
      /\ store.reu \in Memory(D) /\ Spares(D, store.reu, T)
  BY MemoryNow DEF Loadable, DInv, OthersUntouched, Within, Spares, DmaAssumption
<1> HIDE DEF D, S, T
<1>7. Spares(D, store'.reu, T)
  BY <1>6, WriteOthers
<1>8. OthersUntouched'
  BY <1>5, <1>7 DEF OthersUntouched, Spares, D, T
<1>9. AppIsFile'
  <2>1. CASE todo.job = "app" \/ ram.result.way # "dma"
    BY <1>0, <2>1 DEF AppIsFile, SameCall, DInv, CallOK
  <2>2. CASE todo.job = "overlay" /\ ram.result.way = "dma"
    <3>1. todo.bank # AppBank
      BY <1>0, <2>2, LoadTyped DEF DInv, CallOK, AtEntry, BanksOK, Line, Loading
    <3>2. AppBank \in D
      BY DEF DInv, BanksOK, D
    <3>3. store'.reu[AppBank] = store.reu[AppBank]
      BY <1>6, <3>1, <3>2, WrittenElsewhere
    <3> QED
      BY <3>3 DEF SameCall, DInv, AppIsFile, InImage, Image, Region
  <2>3. todo.job \in {"app", "overlay"}
    BY OpenedImage
  <2> QED
    BY <2>1, <2>2, <2>3
<1> QED
  BY <1>1, <1>3, <1>4, <1>8, <1>9

\* After it the program is there, or the load fails.
LEMMA LoadCommandOK ==
  ASSUME DmaAssumption, DInv, LoadCommand
  PROVE  DInv'
<1> DEFINE what == Payload(Opened, 0, todo.left)
           w == Written(store.reu, todo.bank, todo.off, what)
<1>1. /\ todo.pc = "load" /\ Loading /\ {"close", "shut"} \subseteq Loads
      /\ "load" \notin Identify
  BY DEF LoadCommand, Loading, Loads, Reading, Identify
<1>2. PICK r \in Replies("load") :
        /\ store' = [r.store EXCEPT !.cut = @ \/ (r.got # "ok" /\ Accepted("load", r))]
        /\ IF Accepted("load", r)
           THEN Going("close") /\ UNCHANGED ram ELSE Fails("load", "load")
  BY DEF LoadCommand
<1>3. /\ StoreTyped' /\ DOMAIN store'.reu = DOMAIN store.reu
      /\ store'.reu \in {store.reu, w} /\ (r.got = "ok" => store'.reu = w)
      /\ UNCHANGED <<store.cwd, store.open, store.saved, store.free>>
      /\ r.got \in {"ok", "refused", "lost"}
  BY <1>1, <1>2, LoadStore
<1>4. /\ Loadable(what)
      /\ todo.job = "app" => /\ Opened.addr = "app" /\ Opened.len \in 1 .. AppMax
                             /\ todo.left = Opened.len /\ ~todo.clipped
  BY <1>1, LoadWhat
<1> HIDE DEF what, w
<1>5. CASE Accepted("load", r)
  <2>1. SameCall /\ todo'.pc = "close" /\ ram' = ram
    BY <1>1, <1>2, <1>5, GoesTo
  <2>2. Typed' /\ CallOK' /\ BanksOK' /\ AppIsFile' /\ OthersUntouched'
    BY <1>1, <1>3, <1>4, <2>1, LoadKeeps DEF w
  <2>3. AtImage'
    BY <1>1, <1>3, <2>1, OpenedImage DEF AtImage
  <2>4. DirOK'
    BY <1>1, <1>3, <2>1, <2>3 DEF DInv, DirOK, Identify, Reading, Loading
  <2>5. todo.job = "app" => Holds(todo.name)'
    <3> SUFFICES ASSUME todo.job = "app" PROVE Holds(todo.name)'
      OBVIOUS
    <3>1. r.got = "ok"
      BY <1>3, <1>4, <1>5 DEF Accepted, StatusIgnored, Identify
    <3>2. store'.reu = w /\ todo.bank = AppBank /\ todo.off = 0
      BY <1>1, <1>3, <3>1 DEF DInv, CallOK
    <3> DEFINE n == todo.left
               D == DOMAIN store.reu
    <3>3. /\ BankSize \in Nat /\ store.reu \in Memory(D) /\ AppBank \in D
          /\ n \in Nat /\ n <= AppMax /\ AppMax <= BankSize /\ AppMax \in Nat
          /\ what \in [1 .. n -> Cells]
      BY <1>4, MemoryNow DEF DInv, BanksOK, DmaAssumption, Loadable
    <3>4. 0 \in Nat /\ 0 + n <= BankSize /\ 0 + n = n
      BY <3>3
    <3>5. store'.reu = Written(store.reu, AppBank, 0, what)
      BY <3>2 DEF w
    <3> HIDE DEF n, D
    <3>6. SubSeq(store'.reu[AppBank], 0 + 1, 0 + n) = what
      BY <3>3, <3>4, <3>5, WriteHolds
    <3>7. Opened = Image(todo.name) /\ InImage(todo.name)
      BY <1>1, OpenedImage
    <3>8. /\ InImage(todo.name)' /\ Image(todo.name)' = Image(todo.name)
          /\ todo'.name = todo.name
      BY <2>1, <3>7 DEF SameCall, InImage, Image
    <3>9. what = Payload(Image(todo.name), 0, Image(todo.name).len)
          /\ n = Image(todo.name).len
      BY <1>4, <3>7 DEF what, n
    <3> QED
      BY <1>4, <3>6, <3>7, <3>8, <3>9 DEF Holds, Region, Payload
  <2>6. FileOK'
    BY <1>1, <2>1, <2>5 DEF SameCall, DInv, FileOK, Loaded, Reading, Holds, InImage, Image
  <2> QED
    BY <2>2, <2>4, <2>6 DEF DInv
<1>6. CASE ~Accepted("load", r)
  <2>1. ram' = [ram EXCEPT !.error = "load"] /\ todo' = [todo EXCEPT !.pc = "shut"]
    BY <1>1, <1>2, <1>6 DEF Fails, Going
  <2>2. SameCall /\ todo'.pc = "shut" /\ ram'.error = "load"
    BY <1>1, <2>1, GoesOut
  <2>3. Typed' /\ CallOK' /\ BanksOK' /\ AppIsFile' /\ OthersUntouched'
    BY <1>1, <1>3, <1>4, <2>2, LoadKeeps DEF w
  <2>4. AtImage'
    BY <1>1, <1>3, <2>2, OpenedImage DEF AtImage, SameCall
  <2>5. DirOK'
    BY <1>1, <1>3, <2>2, <2>4 DEF SameCall, DInv, DirOK, Identify, Reading, Loading
  <2>6. FileOK'
    BY <2>2 DEF FileOK, Loaded, Reading
  <2> QED
    BY <2>3, <2>5, <2>6 DEF DInv
<1> QED
  BY <1>5, <1>6

\* The file is closed, after a load and after what failed alike.
LEMMA CloseCommandOK ==
  ASSUME DmaAssumption, DInv, CloseCommand
  PROVE  DInv'
<1>1. /\ todo.pc \in {"close", "shut"} /\ Loading
      /\ "close" \in Loads \ {"load"} /\ "return" \in Loads
      /\ "close" \notin Placing
  BY DEF CloseCommand, Loading, Loads, Reading, Placing
<1>2. PICK r \in Replies("close") : store' = r.store
  BY DEF CloseCommand, Sent
<1>3. /\ StoreTyped' /\ UNCHANGED <<store.reu, store.free, store.saved>>
      /\ store'.cwd = store.cwd
  BY <1>1, <1>2, CommandStore
<1>4. CASE todo.pc = "close"
  <2>1. ram' = [ram EXCEPT !.error = "none"] /\ todo' = [todo EXCEPT !.pc = "return"]
    BY <1>4 DEF CloseCommand, Going
  <2>2. SameCall /\ todo'.pc = "return" /\ ram'.error = "none"
    BY <1>1, <2>1, GoesOut
  <2>3. Typed' /\ CallOK' /\ BanksOK' /\ AppIsFile' /\ OthersUntouched'
    BY <1>1, <1>3, <2>2, QuietLoad
  <2>4. AtImage'
    BY <1>3, <1>4, <2>2 DEF AtImage, SameCall, DInv, DirOK, Reading
  <2>5. DirOK'
    BY <1>1, <1>3, <2>2, <2>4 DEF SameCall, DInv, DirOK, Identify, Reading, Loading
  <2>6. todo.job = "app" => Holds(todo.name)
    BY <1>1, <1>4 DEF DInv, FileOK, Loaded
  <2>7. FileOK'
    BY <1>3, <2>2, <2>6
       DEF SameCall, FileOK, Loaded, Reading, Holds, InImage, Image, Region
  <2> QED
    BY <2>3, <2>5, <2>7 DEF DInv
<1>5. CASE todo.pc = "shut"
  <2>1. ram' = ram /\ Going("return")
    BY <1>5 DEF CloseCommand
  <2>2. SameCall /\ todo'.pc = "return"
    BY <1>1, <2>1, GoesTo
  <2>3. Typed' /\ CallOK' /\ BanksOK' /\ AppIsFile' /\ OthersUntouched'
    BY <1>1, <1>3, <2>2, QuietLoad
  <2>4. ram.error \in {"path", "load"} /\ (ram.error = "load" => AtImage')
    BY <1>3, <1>5, <2>1 DEF AtImage, DInv, DirOK
  <2>5. DirOK'
    BY <1>1, <1>3, <2>1, <2>2, <2>4 DEF DInv, DirOK, Identify, Reading, Loading
  <2>6. FileOK'
    BY <2>1, <2>2, <2>4 DEF FileOK, Loaded, Reading
  <2> QED
    BY <2>3, <2>5, <2>6 DEF DInv
<1> QED
  BY <1>1, <1>4, <1>5

-----------------------------------------------------------------------------
(***************************************************************************)
(* The callers                                                             *)
(***************************************************************************)

\* No load is under way.
Quiet(pc) == pc \notin Loads

\* A step of the launcher while no load is under way.
LEMMA IdleOK ==
  ASSUME Typed', CallOK', BanksOK', OthersUntouched', AppIsFile', Quiet(todo'.pc),
         ram'.avail \/ store'.saved => ram'.path # <<>>,
         ram'.ready => AtImage'
  PROVE  DInv'
<1>1. ~Loading' /\ todo'.pc \notin Identify \cup {"path", "mount", "image", "again",
        "info", "header", "seek", "load", "mounted", "shut", "return"} \cup Reading
  BY DEF Quiet, Loading, Loads, Identify, Placing, Reading
<1>2. DirOK'
  BY <1>1 DEF DirOK
<1>3. FileOK'
  BY <1>1 DEF FileOK, Loaded
<1> QED
  BY <1>2, <1>3 DEF DInv

\* ... that leaves the REU and the banks alone.
LEMMA CallerOK ==
  ASSUME DmaAssumption, DInv, RamTyped', StoreTyped', TodoTyped',
         Quiet(todo'.pc), todo'.pc # "stream",
         UNCHANGED <<store.reu, store.free, ram.path, ram.banks>>,
         ram'.avail \/ store'.saved => ram'.path # <<>>,
         ram'.ready => AtImage', AppIsFile'
  PROVE  DInv'
<1>1. Typed'
  BY DEF Typed
<1>2. CallOK'
  BY DEF CallOK, Quiet, Loading
<1>3. BanksOK'
  BY DEF DInv, BanksOK
<1>4. OthersUntouched'
  BY DEF DInv, OthersUntouched, Targets
<1> QED
  BY <1>1, <1>2, <1>3, <1>4, IdleOK

\* What the REU holds of the program that was loaded last does not change.
LEMMA SameResult ==
  ASSUME DInv, UNCHANGED <<store.reu, ram.path, ram.result>>
  PROVE  AppIsFile'
BY DEF DInv, AppIsFile, InImage, Image, Region

\* A load begins.
LEMMA StartOK ==
  ASSUME RamTyped', StoreTyped', todo' \in JobType, todo'.pc = "identify",
         ram'.path # <<>>, todo'.assume => AtImage',
         CallOK', BanksOK', AppIsFile', OthersUntouched'
  PROVE  DInv'
<1>1. Typed'
  BY DEF Typed, TodoTyped
<1>2. DirOK'
  BY DEF DirOK, Identify, Reading, Loading, Loads
<1>3. FileOK'
  BY DEF FileOK, Loaded, Reading
<1> QED
  BY <1>1, <1>2, <1>3 DEF DInv

\* The flags that are kept in the REU are the only change there.
LEMMA SavedOK ==
  ASSUME DInv, NEW flag \in BOOLEAN, NEW s, s = [store EXCEPT !.saved = flag],
         store' = s
  PROVE  /\ StoreTyped' /\ store'.saved = flag
         /\ UNCHANGED <<store.reu, store.free, store.cwd>>
BY DEF DInv, Typed, StoreTyped

LEMMA JobsOK ==
  ASSUME DInv, NEW n, store' = [store EXCEPT !.jobs = n]
  PROVE  StoreTyped' /\ UNCHANGED <<store.reu, store.free, store.cwd, store.saved>>
BY DEF DInv, Typed, StoreTyped

LEMMA LoadFresh ==
  ASSUME NEW job \in {"probe", "app", "overlay"}
  PROVE  /\ Load(job) \in JobType /\ Load(job).pc = "identify" /\ Load(job).job = job
         /\ ~Load(job).assume /\ ~Load(job).validate
         /\ Load(job).line = <<>> /\ Load(job).at = 1
<1>1. "identify" \in Loads \cup {"entry", "stream"} /\ "" \in Texts /\ <<>> \in Lines
  BY DEF Loads, Identify, Texts, Lines
<1>2. Load(job) \in JobType
  <2>1. ASSUME NEW text \in Texts, NEW line \in Lines, NEW pc \in Loads
        PROVE  [job |-> job, pc |-> pc, k |-> 0, left |-> 0, clipped |-> FALSE,
                validate |-> FALSE, assume |-> FALSE, name |-> text, bank |-> 0,
                off |-> 0, max |-> 0, addr |-> "any", line |-> line, at |-> 1]
                 \in JobType
    BY DEF JobType
  <2>2. "identify" \in Loads
    BY DEF Loads, Identify
  <2>3. Load(job) = [job |-> job, pc |-> "identify", k |-> 0, left |-> 0,
                clipped |-> FALSE,
                validate |-> FALSE, assume |-> FALSE, name |-> "", bank |-> 0,
                off |-> 0, max |-> 0, addr |-> "any", line |-> <<>>, at |-> 1]
    BY DEF Load
  <2> QED
    BY <1>1, <2>1, <2>2, <2>3
<1> QED
  BY <1>2 DEF Load

LEMMA ProbeOK ==
  ASSUME DmaAssumption, DInv, Probe
  PROVE  DInv'
<1>1. todo.pc = "probe" /\ RamTyped /\ ~Loading
  BY DEF Probe, DInv, Typed, Loading, Loads, Identify, Placing, Reading
<1>2. CASE mode = "bare" \/ ~ram.cfg \/ ram.path = <<>>
  <2>1. ram' = NotAvailable /\ store' = Saved(NotAvailable) /\ todo' = Menu
    BY <1>2 DEF Probe
  <2>2. /\ RamTyped' /\ UNCHANGED <<ram.path, ram.banks, ram.result>>
        /\ ~ram'.avail /\ ~ram'.ready
        /\ (NotAvailable.cfg /\ Available(NotAvailable)) = FALSE
    BY <1>1, <2>1 DEF RamTyped, NotAvailable, Available
  <2>3. StoreTyped' /\ ~store'.saved /\ UNCHANGED <<store.reu, store.free, store.cwd>>
    BY <2>1, <2>2, SavedOK DEF Saved
  <2>4. AppIsFile'
    BY <2>2, <2>3, SameResult
  <2>5. TodoTyped' /\ Quiet(todo'.pc) /\ todo'.pc # "stream"
    BY <2>1 DEF TodoTyped, Menu, Quiet, Loads, Identify, Placing, Reading
  <2> QED
    BY <2>2, <2>3, <2>4, <2>5, CallerOK
<1>3. CASE ~(mode = "bare" \/ ~ram.cfg \/ ram.path = <<>>)
  <2>1. /\ todo' = [Load("probe") EXCEPT !.validate = TRUE]
        /\ ram' = ram /\ store' = store
    BY <1>3 DEF Probe
  <2>2. /\ todo' \in JobType /\ todo'.pc = "identify" /\ todo'.job = "probe"
        /\ ~todo'.assume /\ todo'.validate
    <3> DEFINE l == Load("probe")
    <3>1. l \in JobType /\ l.pc = "identify" /\ l.job = "probe" /\ ~l.assume
      BY LoadFresh
    <3>2. todo' = [l EXCEPT !.validate = TRUE]
      BY <2>1
    <3> HIDE DEF l
    <3> QED
      BY <3>1, <3>2 DEF JobType
  <2>3. RamTyped' /\ StoreTyped'
    BY <1>1, <2>1 DEF DInv, Typed, RamTyped, StoreTyped
  <2>4. CallOK'
    BY <2>2 DEF CallOK
  <2>5. BanksOK' /\ OthersUntouched' /\ AppIsFile'
    BY <2>1, SameResult DEF DInv, BanksOK, OthersUntouched, Targets
  <2> QED
    BY <1>3, <2>1, <2>2, <2>3, <2>4, <2>5, StartOK
<1> QED
  BY <1>2, <1>3

LEMMA MenuQuiet ==
  ASSUME todo' = Menu
  PROVE  TodoTyped' /\ Quiet(todo'.pc) /\ todo'.pc # "stream"
BY DEF TodoTyped, Menu, Quiet, Loads, Identify, Placing, Reading

\* A load comes back with its directory, unless the path was at fault.
LEMMA Returned ==
  ASSUME DInv, todo.pc = "return"
  PROVE  /\ Loading /\ ram.path # <<>> /\ todo \in JobType /\ RamTyped
         /\ ram.error \in {"none", "load"} => AtImage
         /\ ram.error \in {"none", "nouci", "path", "load"}
<1>1. Loading /\ RamTyped
  BY DEF Loading, Loads, DInv, Typed
<1> QED
  BY <1>1, LoadTyped DEF DInv, DirOK, RamTyped, Loading

LEMMA ProbeReturnsOK ==
  ASSUME DmaAssumption, DInv, ProbeReturns
  PROVE  DInv'
<1> DEFINE good == [ram EXCEPT !.avail = TRUE, !.probe = TRUE, !.ready = TRUE]
           r == IF ram.error = "none" THEN good ELSE NotAvailable
<1>1. todo.pc = "return" /\ ram' = r /\ store' = Saved(r) /\ todo' = Menu
  BY DEF ProbeReturns
<1>2. /\ Loading /\ ram.path # <<>> /\ RamTyped
      /\ ram.error = "none" => AtImage
  BY <1>1, Returned
<1>3. /\ RamTyped' /\ UNCHANGED <<ram.path, ram.banks, ram.result>>
      /\ ram'.ready => ram.error = "none"
      /\ (r.cfg /\ Available(r)) \in BOOLEAN
  BY <1>1, <1>2 DEF RamTyped, NotAvailable, Available
<1>4. StoreTyped' /\ UNCHANGED <<store.reu, store.free, store.cwd>>
  BY <1>1, <1>3, SavedOK DEF Saved
<1>5. ram'.ready => AtImage'
  BY <1>2, <1>3, <1>4 DEF AtImage
<1>6. AppIsFile'
  BY <1>3, <1>4, SameResult
<1> QED
  BY <1>1, <1>2, <1>3, <1>4, <1>5, <1>6, MenuQuiet, CallerOK

\* What a return does to the flags.
LEMMA TryEndsOK ==
  ASSUME DInv, todo.pc = "return", NEW f, f = TryEnds
  PROVE  /\ f = [ram EXCEPT !.avail = f.avail, !.ready = f.ready]
         /\ f.avail \in BOOLEAN /\ f.ready \in BOOLEAN
         /\ f.ready => AtImage
         /\ f.banks = ram.banks /\ f.path = ram.path /\ f.result = ram.result
         /\ f.recs = ram.recs
         /\ (f.cfg /\ Available(f)) \in BOOLEAN
<1>1. RamTyped /\ (ram.error \in {"none", "load"} => AtImage)
      /\ ram.error \in {"none", "nouci", "path", "load"}
  BY Returned
<1> QED
  BY <1>1 DEF RamTyped, TryEnds, Available

LEMMA AppReturnsOK ==
  ASSUME DmaAssumption, DInv, AppReturns
  PROVE  DInv'
<1> DEFINE f == TryEnds
           way == IF ram.error = "none" THEN "dma"
                  ELSE IF Available(f) THEN "failed" ELSE "disk"
           result == [way |-> way, name |-> todo.name]
<1>1. /\ todo.pc = "return" /\ todo.job = "app"
      /\ ram' = [f EXCEPT !.result = result]
      /\ store' = Saved(f) /\ todo' = Menu
  BY DEF AppReturns
<1>2. /\ Loading /\ ram.path # <<>> /\ todo \in JobType /\ RamTyped
  BY <1>1, Returned
<1>3. /\ way \in {"dma", "disk", "failed"} /\ (way = "dma" => ram.error = "none")
      /\ todo.name \in Texts
  BY <1>2 DEF JobType
<1>4. /\ f = [ram EXCEPT !.avail = f.avail, !.ready = f.ready]
      /\ f.avail \in BOOLEAN /\ f.ready \in BOOLEAN
      /\ f.ready => AtImage
      /\ (f.cfg /\ Available(f)) \in BOOLEAN
  BY <1>1, TryEndsOK
<1> HIDE DEF f, way
<1>5. /\ RamTyped' /\ UNCHANGED <<ram.path, ram.banks>>
      /\ ram'.ready = f.ready /\ ram'.result.way = way
      /\ ram'.result.name = todo.name
  BY <1>1, <1>2, <1>3, <1>4 DEF RamTyped
<1>6. StoreTyped' /\ UNCHANGED <<store.reu, store.free, store.cwd>>
  BY <1>1, <1>4, SavedOK DEF Saved
<1>7. ram'.ready => AtImage'
  BY <1>4, <1>5, <1>6 DEF AtImage
<1>8. way = "dma" => Holds(todo.name)
  BY <1>1, <1>2, <1>3 DEF DInv, FileOK, Loaded
<1>9. AppIsFile'
  BY <1>5, <1>6, <1>8 DEF AppIsFile, Holds, InImage, Image, Region
<1> QED
  BY <1>1, <1>2, <1>5, <1>6, <1>7, <1>9, MenuQuiet, CallerOK

LEMMA ResourcesDoneOK ==
  ASSUME DmaAssumption, DInv, ResourcesDone
  PROVE  DInv'
<1>1. /\ todo.pc = "entry" /\ todo' = Menu /\ store' = store
      /\ ram' = [ram EXCEPT !.loaded = Len(todo.line) = OVERLAYS]
      /\ RamTyped /\ StoreTyped
  BY DEF ResourcesDone, DInv, Typed
<1>2. RamTyped' /\ UNCHANGED <<ram.path, ram.banks, ram.result, ram.avail, ram.ready>>
  BY <1>1 DEF RamTyped
<1>3. StoreTyped'
  BY <1>1 DEF StoreTyped
<1>4. ~Loading
  BY <1>1 DEF Loading, Loads, Identify, Placing, Reading
<1>5. /\ ram'.avail \/ store'.saved => ram'.path # <<>>
      /\ ram'.ready => AtImage'
  BY <1>1, <1>2, <1>4 DEF DInv, DirOK, AtImage
<1>6. AppIsFile'
  BY <1>1, <1>2, SameResult
<1> QED
  BY <1>1, <1>2, <1>3, <1>5, <1>6, MenuQuiet, CallerOK

LEMMA RunProgramOK ==
  ASSUME DmaAssumption, DInv, RunProgram
  PROVE  DInv'
<1>1. PICK d \in DOMAIN Host :
        store' = [store EXCEPT !.cwd = d, !.open = <<>>, !.jobs = @ + 1]
  BY DEF RunProgram
<1>2. /\ todo.pc = "menu" /\ todo' = todo /\ RamTyped /\ StoreTyped
      /\ ram' = [Resumed EXCEPT !.result = NoResult]
  BY DEF RunProgram, DInv, Typed
<1>3. StoreTyped' /\ UNCHANGED <<store.reu, store.free, store.saved>>
  BY <1>1, <1>2 DEF StoreTyped
<1>4. NoResult \in [way : {"none", "dma", "disk", "failed"}, name : Texts]
      /\ NoResult.way # "dma"
  BY DEF NoResult, Texts
<1> HIDE DEF NoResult
<1>5. /\ RamTyped' /\ UNCHANGED <<ram.path, ram.banks>>
      /\ ram'.avail = store.saved /\ ~ram'.ready /\ ram'.result = NoResult
  BY <1>2, <1>4 DEF RamTyped, StoreTyped, Resumed
<1>6. ram'.avail \/ store'.saved => ram'.path # <<>>
  BY <1>3, <1>5 DEF DInv, DirOK
<1>7. AppIsFile'
  BY <1>4, <1>5 DEF AppIsFile
<1>8. TodoTyped' /\ Quiet(todo'.pc) /\ todo'.pc # "stream"
  BY <1>2 DEF DInv, Typed, TodoTyped, Quiet, Loads, Identify, Placing, Reading
<1> QED
  BY <1>3, <1>5, <1>6, <1>7, <1>8, CallerOK

Kinds == {"app", "overlay"}
Addresses == {"any", "app", "overlay"}

LEMMA TriedFresh ==
  ASSUME DInv, NEW job \in Kinds, NEW name \in Texts,
         NEW bank \in Nat, NEW off \in Nat, NEW max \in Nat,
         NEW addr \in Addresses
  PROVE  LET t == Tried(job, name, bank, off, max, addr)
         IN /\ t \in JobType /\ t.pc = "identify" /\ t.job = job /\ t.name = name
            /\ t.bank = bank /\ t.off = off /\ t.max = max /\ t.addr = addr
            /\ t.assume = ram.ready /\ ~t.validate
            /\ t.line = <<>> /\ t.at = 1
<1> DEFINE l == Load(job)
           t == Tried(job, name, bank, off, max, addr)
<1>1. /\ l \in JobType /\ l.pc = "identify" /\ l.job = job /\ ~l.validate
      /\ l.line = <<>> /\ l.at = 1
  BY LoadFresh DEF Kinds
<1>2. t = [l EXCEPT !.name = name, !.bank = bank, !.off = off, !.max = max,
                    !.addr = addr, !.assume = ram.ready]
  BY DEF Tried
<1>3. ram.ready \in BOOLEAN
  BY DEF DInv, Typed, RamTyped
<1> HIDE DEF l, t
<1>4. /\ t \in JobType /\ t.pc = "identify" /\ t.job = job /\ t.name = name
      /\ t.bank = bank /\ t.off = off /\ t.max = max /\ t.addr = addr
      /\ t.assume = ram.ready /\ ~t.validate
      /\ t.line = <<>> /\ t.at = 1
  BY <1>1, <1>2, <1>3 DEF JobType, Kinds, Addresses
<1> QED
  BY <1>4 DEF t

LEMMA LoadAppOK ==
  ASSUME DmaAssumption, DInv, LoadApp
  PROVE  DInv'
<1>1. PICK n \in Apps :
        IF Available(ram)
        THEN /\ todo' = Tried("app", n, AppBank, 0, AppMax, "app")
             /\ ram' = [ram EXCEPT !.result = NoResult]
        ELSE /\ ram' = [ram EXCEPT !.result = [way |-> "disk", name |-> n]]
             /\ todo' = todo
  BY DEF LoadApp
<1>2. /\ todo.pc = "menu" /\ RamTyped /\ n \in Texts
      /\ store' = [store EXCEPT !.jobs = @ + 1]
  BY DEF LoadApp, DInv, Typed, DmaAssumption
<1>3. StoreTyped' /\ UNCHANGED <<store.reu, store.free, store.cwd, store.saved>>
  BY <1>2, JobsOK
<1>4. ~Loading
  BY <1>2 DEF Loading, Loads, Identify, Placing, Reading
<1>5. NoResult \in [way : {"none", "dma", "disk", "failed"}, name : Texts]
      /\ NoResult.way # "dma"
  BY DEF NoResult, Texts
<1> HIDE DEF NoResult
<1>6. CASE Available(ram)
  <2>1. /\ RamTyped' /\ UNCHANGED <<ram.path, ram.banks>> /\ ram'.result = NoResult
    BY <1>1, <1>2, <1>5, <1>6 DEF RamTyped
  <2>2. todo' = Tried("app", n, AppBank, 0, AppMax, "app")
    BY <1>1, <1>6
  <2>3. /\ todo' \in JobType /\ todo'.pc = "identify" /\ todo'.job = "app"
        /\ todo'.bank = AppBank /\ todo'.off = 0 /\ todo'.max = AppMax
        /\ todo'.addr = "app" /\ todo'.assume = ram.ready
        /\ ~todo'.validate
    <3> DEFINE job == "app"
               addr == "app"
               off == 0
    <3>1. /\ job \in Kinds /\ addr \in Addresses
          /\ AppBank \in Nat /\ off \in Nat /\ AppMax \in Nat /\ n \in Texts
          /\ todo' = Tried(job, n, AppBank, off, AppMax, addr)
      BY <1>2, <2>2 DEF DmaAssumption, Kinds, Addresses
    <3> HIDE DEF job, addr, off
    <3>2. /\ todo' \in JobType /\ todo'.pc = "identify" /\ todo'.job = job
          /\ todo'.bank = AppBank /\ todo'.off = off /\ todo'.max = AppMax
          /\ todo'.addr = addr /\ todo'.assume = ram.ready
          /\ ~todo'.validate
      BY <3>1, TriedFresh
    <3> QED
      BY <3>2 DEF job, addr, off
  <2>4. CallOK'
    BY <1>5, <2>1, <2>3 DEF CallOK
  <2>5. ram'.path # <<>> /\ (todo'.assume => AtImage')
    BY <1>3, <1>4, <1>6, <2>1, <2>3 DEF Available, DInv, DirOK, AtImage
  <2>6. AppIsFile'
    BY <1>5, <2>1 DEF AppIsFile
  <2>7. BanksOK' /\ OthersUntouched'
    BY <1>3, <2>1 DEF DInv, BanksOK, OthersUntouched, Targets
  <2> QED
    BY <1>3, <2>1, <2>3, <2>4, <2>5, <2>6, <2>7, StartOK
<1>7. CASE ~Available(ram)
  <2> DEFINE result == [way |-> "disk", name |-> n]
  <2>1. result \in [way : {"none", "dma", "disk", "failed"}, name : Texts]
        /\ result.way # "dma"
    BY <1>2
  <2>2. ram' = [ram EXCEPT !.result = result] /\ todo' = todo
    BY <1>1, <1>7
  <2> HIDE DEF result
  <2>3. /\ RamTyped' /\ ram'.result = result
        /\ UNCHANGED <<ram.path, ram.banks, ram.avail, ram.ready>>
    BY <1>2, <2>1, <2>2 DEF RamTyped
  <2>4. /\ ram'.avail \/ store'.saved => ram'.path # <<>>
        /\ ram'.ready => AtImage'
    BY <1>3, <1>4, <2>3 DEF DInv, DirOK, AtImage
  <2>5. AppIsFile'
    BY <2>1, <2>3 DEF AppIsFile
  <2>6. TodoTyped' /\ Quiet(todo'.pc) /\ todo'.pc # "stream"
    BY <1>2, <2>2 DEF DInv, Typed, TodoTyped, Quiet, Loads, Identify, Placing, Reading
  <2> QED
    BY <1>3, <2>3, <2>4, <2>5, <2>6, CallerOK
<1> QED
  BY <1>6, <1>7

LEMMA LoadResourcesOK ==
  ASSUME DmaAssumption, DInv, LoadResources
  PROVE  DInv'
<1>1. PICK line \in DepLines :
        todo' \in {todo, [Load("overlay") EXCEPT !.pc = "entry", !.line = line]}
  BY DEF LoadResources
<1>2. /\ todo.pc = "menu" /\ RamTyped
      /\ ram' = [ram EXCEPT !.recs = <<>>, !.loaded = FALSE]
      /\ store' = [store EXCEPT !.jobs = @ + 1]
  BY DEF LoadResources, DInv, Typed
<1>3. StoreTyped' /\ UNCHANGED <<store.reu, store.free, store.cwd, store.saved>>
  BY <1>2, JobsOK
<1>4. ~Loading
  BY <1>2 DEF Loading, Loads, Identify, Placing, Reading
<1>5. /\ RamTyped'
      /\ UNCHANGED <<ram.path, ram.banks, ram.avail, ram.ready, ram.result>>
  <2> DEFINE none == <<>>
  <2>1. none \in Seq([num : Nat, name : Texts, bank : Nat, off : Nat, len : Nat])
        /\ ram' = [ram EXCEPT !.recs = none, !.loaded = FALSE]
    BY <1>2
  <2> HIDE DEF none
  <2> QED
    BY <1>2, <2>1 DEF RamTyped
<1>6. /\ ram'.avail \/ store'.saved => ram'.path # <<>>
      /\ ram'.ready => AtImage'
  BY <1>3, <1>4, <1>5 DEF DInv, DirOK, AtImage
<1>7. AppIsFile'
  BY <1>3, <1>5, SameResult
<1>8. TodoTyped' /\ Quiet(todo'.pc) /\ todo'.pc # "stream"
  <2>1. CASE todo' = todo
    BY <1>2, <2>1 DEF DInv, Typed, TodoTyped, Quiet, Loads, Identify, Placing, Reading
  <2>2. CASE todo' = [Load("overlay") EXCEPT !.pc = "entry", !.line = line]
    <3> DEFINE l == Load("overlay")
    <3>1. l \in JobType /\ line \in Lines
      BY LoadFresh DEF Lines
    <3>2. todo' = [l EXCEPT !.pc = "entry", !.line = line]
      BY <2>2
    <3> HIDE DEF l
    <3>3. todo' \in JobType /\ todo'.pc = "entry"
      BY <3>1, <3>2 DEF JobType
    <3> QED
      BY <3>3 DEF TodoTyped, Quiet, Loads, Identify, Placing, Reading
  <2> QED
    BY <1>1, <2>1, <2>2
<1> QED
  BY <1>3, <1>5, <1>6, <1>7, <1>8, CallerOK

\* An entry of the line, once the line has one.
LEMMA EntryTyped ==
  ASSUME DmaAssumption, todo \in JobType, todo.at <= Len(todo.line), Entry # Bad
  PROVE  todo.line \in DepLines /\ todo.at \in 1 .. Len(todo.line) /\ Entry \in Line
<1>1. todo.line \in Lines /\ todo.at \in Nat \ {0}
  BY DEF JobType
<1>2. todo.line # <<>>
  BY <1>1
<1>3. todo.line \in DepLines
  BY <1>1, <1>2 DEF Lines
<1>4. todo.line \in Seq(Line \cup {Bad})
  BY <1>3 DEF DmaAssumption
<1>5. Len(todo.line) \in Nat
  BY <1>4
<1>6. todo.at \in 1 .. Len(todo.line)
  BY <1>1, <1>5
<1>7. Entry \in Line \cup {Bad}
  BY <1>4, <1>6 DEF Entry
<1> QED
  BY <1>3, <1>6, <1>7

\* The bank for an entry is never the program's, and once given it stays.
LEMMA BankForOK ==
  ASSUME DInv, NEW o \in 0 .. 2
  PROVE  /\ BankFor(o) \in Nat \ {AppBank}
         /\ ram.banks[o] \in {0, BankFor(o)}
<1>1. /\ store.free \subseteq Nat \ {0, AppBank} /\ ram.banks[o] \in Nat
      /\ ram.banks[o] # AppBank /\ AppBank # 0
  BY DEF DInv, BanksOK, Typed, RamTyped, StoreTyped
<1>2. CASE ram.banks[o] # 0
  BY <1>1, <1>2 DEF BankFor
<1>3. CASE ram.banks[o] = 0 /\ store.free = {}
  BY <1>1, <1>3 DEF BankFor
<1>4. CASE ram.banks[o] = 0 /\ store.free # {}
  <2>1. store.free \in SUBSET Nat
    BY <1>1
  <2>2. \E b \in store.free : \A c \in store.free : b <= c
    BY <1>4, <2>1, LeastOf
  <2>3. BankFor(o) \in store.free
    BY <1>4, <2>2 DEF BankFor
  <2> QED
    BY <1>1, <1>4, <2>3
<1> QED
  BY <1>2, <1>3, <1>4

\* A bank that is given to an entry adds to the targets.
LEMMA MoreTargets ==
  ASSUME DmaAssumption, DInv, NEW o \in 0 .. 2, NEW b,
         ram'.banks = [ram.banks EXCEPT ![o] = b], ram.banks[o] \in {0, b},
         NEW c, c # 0, NEW i, <<c, i>> \in Targets
  PROVE  <<c, i>> \in Targets'
<1>1. ram.banks \in [0 .. 2 -> Nat]
  BY DEF DInv, Typed, RamTyped
<1>2. CASE <<c, i>> \in {<<AppBank, k>> : k \in 1 .. AppMax}
  BY <1>2 DEF Targets
<1>3. CASE <<c, i>> \in OverlayTargets
  <2>1. PICK e \in UNION {{l[j] : j \in {k \in DOMAIN l : l[k] # Bad}} : l \in DepLines},
             j \in 1 .. Slot : c = ram.banks[e.ord] /\ i = e.off + j
    BY <1>3 DEF OverlayTargets
  <2>2. e \in Line
    <3>1. PICK l \in DepLines : \E k \in DOMAIN l : l[k] # Bad /\ e = l[k]
      OBVIOUS
    <3>2. l \in Seq(Line \cup {Bad})
      BY DEF DmaAssumption
    <3> QED
      BY <3>1, <3>2
  <2>3. e.ord \in 0 .. 2
    BY <2>2 DEF Line
  <2>4. ram'.banks[e.ord] = c
    BY <1>1, <2>1, <2>3
  <2> QED
    BY <2>1, <2>4 DEF Targets
<1> QED
  BY <1>2, <1>3 DEF Targets, OverlayTargets

\* An entry gets its bank; over the DMA its slot is cleared before the load.
LEMMA StartEntryOK ==
  ASSUME DmaAssumption, DInv, StartEntry
  PROVE  DInv'
<1>1. /\ todo.pc = "entry" /\ todo \in JobType /\ todo.at <= Len(todo.line)
      /\ RamTyped /\ StoreTyped /\ ~Loading
  BY LoadTyped DEF StartEntry, DInv, Typed, Loading, Loads, Identify, Placing, Reading
<1>2. CASE Entry = Bad
  <2>1. todo' = Menu /\ ram' = ram /\ store' = store
    BY <1>2 DEF StartEntry
  <2>2. RamTyped' /\ StoreTyped'
    BY <1>1, <2>1 DEF RamTyped, StoreTyped
  <2>3. /\ ram'.avail \/ store'.saved => ram'.path # <<>>
        /\ ram'.ready => AtImage'
    BY <1>1, <2>1 DEF DInv, DirOK, AtImage
  <2> QED
    BY <2>1, <2>2, <2>3, MenuQuiet, SameResult, CallerOK
<1>3. CASE Entry # Bad
  <2> DEFINE o == Entry.ord
             b == BankFor(o)
             clear == b # 0 /\ Available(ram)
             zeros == [i \in 1 .. Slot |-> Zero]
             D == DOMAIN store.reu
             S == 1 .. Slot
  <2>1. /\ todo.line \in DepLines /\ todo.at \in 1 .. Len(todo.line)
        /\ Entry \in Line
    BY <1>1, <1>3, EntryTyped
  <2>2. o \in 0 .. 2 /\ Entry.off \in Nat /\ Entry.name \in Texts
    BY <2>1 DEF Line
  <2>3. b \in Nat \ {AppBank} /\ ram.banks[o] \in {0, b}
    BY <2>2, BankForOK
  <2>4. /\ ram' = [ram EXCEPT !.banks[o] = b]
        /\ store' = [store EXCEPT !.free = @ \ {b},
             !.reu = IF clear THEN Written(@, b, Entry.off, zeros) ELSE @]
        /\ todo' = IF b = 0 THEN Menu
                   ELSE IF ~Available(ram)
                   THEN [todo EXCEPT !.pc = "stream", !.bank = b]
                   ELSE [Tried("overlay", Entry.name, b, Entry.off, Slot, "overlay")
                         EXCEPT !.line = todo.line, !.at = todo.at]
    BY <1>3 DEF StartEntry, Zeroed
  <2>5. zeros \in [S -> Cells] /\ BankSize \in Nat /\ Slot \in Nat
    BY ZerosTyped DEF DmaAssumption
  <2> HIDE DEF b, clear, zeros, D, S
  <2>6. /\ RamTyped' /\ ram'.banks = [ram.banks EXCEPT ![o] = b] /\ ram'.banks[o] = b
        /\ UNCHANGED <<ram.path, ram.avail, ram.ready, ram.result>>
    BY <1>1, <2>2, <2>3, <2>4 DEF RamTyped
  <2>7. /\ store'.free = store.free \ {b}
        /\ store'.reu = IF clear THEN Written(store.reu, b, Entry.off, zeros)
                        ELSE store.reu
        /\ UNCHANGED <<store.cwd, store.saved>>
        /\ store' = [cwd |-> store'.cwd, open |-> store'.open, saved |-> store'.saved,
                     free |-> store'.free, records |-> store'.records,
                     faults |-> store'.faults, jobs |-> store'.jobs,
                     cut |-> store'.cut, reu |-> store'.reu]
    BY <1>1, <2>4 DEF StoreTyped
  <2>8. store.reu \in Memory(D) /\ store'.reu \in Memory(D)
    BY <2>5, <2>7, MemoryNow, WrittenTyped DEF D
  <2>9. DOMAIN store'.reu = D /\ D \subseteq Nat \ {0}
    BY <1>1, <2>8 DEF Memory, StoreTyped, D
  <2>10. StoreTyped'
    BY <1>1, <2>7, <2>8, <2>9 DEF StoreTyped, Memory
  <2>11. BanksOK'
    BY <1>1, <2>2, <2>3, <2>6, <2>7, <2>9 DEF DInv, BanksOK, RamTyped, D
  <2> DEFINE T == Targets'
  <2>12. Spares(D, store.reu, T)
    <3> SUFFICES ASSUME NEW c \in D, NEW i \in 1 .. BankSize,
                        <<c, i>> \notin Targets'
                 PROVE  store.reu[c][i] = Old
      BY DEF Spares
    <3>1. c # 0
      BY <2>9
    <3>2. <<c, i>> \notin Targets
      BY <2>2, <2>3, <2>6, <3>1, MoreTargets
    <3> QED
      BY <3>2 DEF DInv, OthersUntouched, D
  <2>13. Within(b, Entry.off, S, T)
    <3>1. Entry \in UNION {{l[j] : j \in {k \in DOMAIN l : l[k] # Bad}} : l \in DepLines}
      <4>1. todo.line \in Seq(Line \cup {Bad})
        BY <2>1 DEF DmaAssumption
      <4> QED
        BY <1>3, <2>1, <4>1 DEF Entry
    <3>2. \A j \in 1 .. Slot : <<ram'.banks[Entry.ord], Entry.off + j>> \in Targets'
      BY <3>1 DEF Targets
    <3> QED
      BY <2>6, <3>2 DEF Within, S
  <2> HIDE DEF T
  <2>14. Spares(D, store'.reu, T)
    BY <2>2, <2>5, <2>7, <2>8, <2>12, <2>13, WriteOthers
  <2>15. OthersUntouched'
    BY <2>9, <2>14 DEF OthersUntouched, Spares, T
  <2>16. AppIsFile'
    <3>1. AppBank \in D /\ b # AppBank
      BY <2>3 DEF DInv, BanksOK, D
    <3>2. store'.reu[AppBank] = store.reu[AppBank]
      BY <2>7, <2>8, <3>1, WrittenElsewhere
    <3> QED
      BY <2>6, <3>2 DEF DInv, AppIsFile, InImage, Image, Region
  <2>17. /\ ram'.avail \/ store'.saved => ram'.path # <<>>
         /\ ram'.ready => AtImage'
    BY <1>1, <2>6, <2>7 DEF DInv, DirOK, AtImage
  <2>18. CASE b = 0
    <3>1. todo' = Menu
      BY <2>4, <2>18
    <3>2. Typed' /\ CallOK' /\ Quiet(todo'.pc)
      BY <2>6, <2>10, <3>1, MenuQuiet DEF Typed, CallOK, Quiet, Loading
    <3> QED
      BY <2>11, <2>15, <2>16, <2>17, <3>2, IdleOK
  <2>19. CASE b # 0 /\ ~Available(ram)
    <3>1. todo' = [todo EXCEPT !.pc = "stream", !.bank = b]
      BY <2>4, <2>19
    <3>2. /\ todo' \in JobType /\ todo'.pc = "stream" /\ todo'.bank = b
          /\ todo'.line = todo.line /\ todo'.at = todo.at
      BY <1>1, <2>3, <3>1 DEF JobType
    <3>3. Quiet(todo'.pc)
      BY <3>2 DEF Quiet, Loads, Identify, Placing, Reading
    <3>4. AtEntry'
      BY <2>1, <2>6, <2>19, <3>2 DEF AtEntry, Entry
    <3>5. Typed' /\ CallOK'
      BY <2>6, <2>10, <3>2, <3>3, <3>4 DEF Typed, TodoTyped, CallOK, Quiet, Loading
    <3> QED
      BY <2>11, <2>15, <2>16, <2>17, <3>3, <3>5, IdleOK
  <2>20. CASE b # 0 /\ Available(ram)
    <3> DEFINE job == "overlay"
               addr == "overlay"
               t == Tried(job, Entry.name, b, Entry.off, Slot, addr)
    <3>1. todo' = [t EXCEPT !.line = todo.line, !.at = todo.at]
      BY <2>4, <2>20
    <3>2. job \in Kinds /\ addr \in Addresses /\ b \in Nat
      BY <2>3 DEF Kinds, Addresses
    <3>3. /\ t \in JobType /\ t.pc = "identify" /\ t.job = "overlay"
          /\ t.bank = b /\ t.off = Entry.off /\ t.max = Slot
          /\ t.assume = ram.ready /\ ~t.validate
      <4> HIDE DEF job, addr
      <4>1. /\ t \in JobType /\ t.pc = "identify" /\ t.job = job
            /\ t.bank = b /\ t.off = Entry.off /\ t.max = Slot
            /\ t.assume = ram.ready /\ ~t.validate
        BY <2>2, <2>5, <3>2, TriedFresh
      <4> QED
        BY <4>1 DEF job
    <3> HIDE DEF t
    <3>4. /\ todo' \in JobType /\ todo'.pc = "identify" /\ todo'.job = "overlay"
          /\ todo'.bank = b /\ todo'.off = Entry.off /\ todo'.max = Slot
          /\ todo'.assume = ram.ready /\ ~todo'.validate
          /\ todo'.line = todo.line /\ todo'.at = todo.at
      BY <1>1, <3>1, <3>3 DEF JobType
    <3>5. AtEntry' /\ Entry' = Entry
      BY <2>1, <2>6, <2>20, <3>4 DEF AtEntry, Entry
    <3>6. CallOK'
      BY <3>4, <3>5 DEF CallOK
    <3>7. ram'.path # <<>> /\ (todo'.assume => AtImage')
      BY <2>6, <2>17, <2>20, <3>4 DEF Available
    <3> QED
      BY <2>6, <2>10, <2>11, <2>15, <2>16, <3>4, <3>6, <3>7, StartOK
  <2> QED
    BY <2>18, <2>19, <2>20
<1> QED
  BY <1>2, <1>3

\* The record of an entry, and on to the next.
LEMMA RecordedOK ==
  ASSUME DmaAssumption, DInv, todo \in JobType, AtEntry, NEW len \in Nat,
         NEW avail \in BOOLEAN, NEW ready \in BOOLEAN,
         NEW r, r = [ram EXCEPT !.avail = avail, !.ready = ready], Recorded(r, len)
  PROVE  /\ RamTyped' /\ TodoTyped' /\ Quiet(todo'.pc) /\ todo'.pc # "stream"
         /\ UNCHANGED <<ram.path, ram.banks, ram.result>>
         /\ ram'.avail = avail /\ ram'.ready = ready
<1> DEFINE rec == [num |-> todo.at, name |-> Entry.name,
                   bank |-> r.banks[Entry.ord], off |-> Entry.off, len |-> len]
           Recs == Seq([num : Nat, name : Texts, bank : Nat, off : Nat, len : Nat])
           recs == Append(r.recs, rec)
<1>1. RamTyped
  BY DEF DInv, Typed
<1>2. r.recs \in Recs /\ rec \in [num : Nat, name : Texts, bank : Nat, off : Nat, len : Nat]
  BY <1>1 DEF RamTyped, AtEntry, Line, JobType
<1>3. recs \in Recs
  BY <1>2
<1>4. \/ todo' = Menu /\ ram' = r
      \/ /\ ram' = [r EXCEPT !.recs = recs]
         /\ todo' = [todo EXCEPT !.pc = "entry", !.at = @ + 1]
  BY DEF Recorded
<1> HIDE DEF recs, rec
<1>5. CASE todo' = Menu /\ ram' = r
  BY <1>1, <1>5, MenuQuiet DEF RamTyped
<1>6. CASE /\ ram' = [r EXCEPT !.recs = recs]
           /\ todo' = [todo EXCEPT !.pc = "entry", !.at = @ + 1]
  <2>1. /\ RamTyped' /\ UNCHANGED <<ram.path, ram.banks, ram.result>>
        /\ ram'.avail = avail /\ ram'.ready = ready
    BY <1>1, <1>3, <1>6 DEF RamTyped
  <2>2. todo.at + 1 \in Nat \ {0}
    BY DEF JobType
  <2>3. todo' \in JobType /\ todo'.pc = "entry"
    BY <1>6, <2>2 DEF JobType
  <2> QED
    BY <2>1, <2>3 DEF TodoTyped, Quiet, Loads, Identify, Placing, Reading
<1> QED
  BY <1>4, <1>5, <1>6

LEMMA OverlayReturnsOK ==
  ASSUME DmaAssumption, DInv, OverlayReturns
  PROVE  DInv'
<1> DEFINE f == TryEnds
<1>1. /\ todo.pc = "return" /\ todo.job = "overlay" /\ store' = Saved(f)
      /\ IF ram.error = "none" THEN Recorded(f, todo.left)
         ELSE ram' = f /\ todo' = Menu
  BY DEF OverlayReturns
<1>2. /\ Loading /\ ram.path # <<>> /\ todo \in JobType /\ RamTyped
  BY <1>1, Returned
<1>3. AtEntry /\ todo.left \in Nat
  BY <1>1, <1>2 DEF DInv, CallOK, JobType
<1>4. /\ f = [ram EXCEPT !.avail = f.avail, !.ready = f.ready]
      /\ f.avail \in BOOLEAN /\ f.ready \in BOOLEAN
      /\ f.ready => AtImage
      /\ (f.cfg /\ Available(f)) \in BOOLEAN
  BY <1>1, TryEndsOK
<1> HIDE DEF f
<1>5. /\ RamTyped' /\ TodoTyped' /\ Quiet(todo'.pc) /\ todo'.pc # "stream"
      /\ UNCHANGED <<ram.path, ram.banks, ram.result>>
      /\ ram'.ready = f.ready
  <2>1. CASE ram.error = "none"
    BY <1>1, <1>2, <1>3, <1>4, <2>1, RecordedOK
  <2>2. CASE ram' = f /\ todo' = Menu
    BY <1>2, <1>4, <2>2, MenuQuiet DEF RamTyped
  <2> QED
    BY <1>1, <2>1, <2>2
<1>6. StoreTyped' /\ UNCHANGED <<store.reu, store.free, store.cwd>>
  BY <1>1, <1>4, SavedOK DEF Saved
<1>7. ram'.ready => AtImage'
  BY <1>4, <1>5, <1>6 DEF AtImage
<1>8. AppIsFile'
  BY <1>5, <1>6, SameResult
<1> QED
  BY <1>2, <1>5, <1>6, <1>7, <1>8, CallerOK

\* From the drive, a file or what can be read of it goes into the entry's slot.
LEMMA StreamedOK ==
  ASSUME DmaAssumption, DInv, AtEntry, NEW f \in PrgFile, NEW n \in Nat, n <= Slot
  PROVE  LET reu == Streamed(f, n)
         IN /\ reu \in Memory(DOMAIN store.reu)
            /\ Spares(DOMAIN store.reu, reu, Targets)
            /\ reu[AppBank] = store.reu[AppBank]
<1> DEFINE D == DOMAIN store.reu
           S == 1 .. Slot
           N == 1 .. n
           zeros == [i \in 1 .. Slot |-> Zero]
           what == Payload(f, 0, n)
           T == Targets
           bank == todo.bank
           off == Entry.off
           cleared == Written(store.reu, bank, off, zeros)
           reu == Written(cleared, bank, off, what)
<1>1. /\ zeros \in [S -> Cells] /\ what \in [N -> Cells]
      /\ BankSize \in Nat /\ Slot \in Nat /\ N \subseteq S
  BY ZerosTyped, PayloadTyped DEF DmaAssumption
<1>2. off \in Nat
  BY DEF AtEntry, Line
<1>3. store.reu \in Memory(D) /\ Spares(D, store.reu, T)
  BY MemoryNow DEF Spares, DInv, OthersUntouched
<1>4. Within(bank, off, S, T)
  BY OverlayTarget DEF Within
<1>5. Within(bank, off, N, T)
  BY <1>1, <1>4 DEF Within
<1>6. AppBank \in D /\ bank # AppBank
  BY DEF DInv, BanksOK, AtEntry, Line
<1>7. Streamed(f, n) = reu
  BY DEF Streamed, Zeroed
<1> HIDE DEF D, S, N, zeros, what, T, bank, off
<1>8. cleared \in Memory(D) /\ Spares(D, cleared, T)
  BY <1>1, <1>2, <1>3, <1>4, WrittenTyped, WriteOthers
<1>9. cleared[AppBank] = store.reu[AppBank]
  BY <1>3, <1>6, WrittenElsewhere
<1> HIDE DEF cleared
<1>10. reu \in Memory(D) /\ Spares(D, reu, T)
  BY <1>1, <1>2, <1>5, <1>8, WrittenTyped, WriteOthers
<1>11. reu[AppBank] = cleared[AppBank]
  BY <1>6, <1>8, WrittenElsewhere
<1> HIDE DEF reu
<1> QED
  BY <1>7, <1>9, <1>10, <1>11 DEF D, T

LEMMA StreamOK ==
  ASSUME DmaAssumption, DInv, Stream
  PROVE  DInv'
<1>1. /\ todo.pc = "stream" /\ AtEntry /\ todo \in JobType /\ RamTyped /\ StoreTyped
      /\ ~Loading
  BY LoadTyped DEF Stream, DInv, Typed, CallOK, Loading, Loads, Identify, Placing, Reading
<1>2. /\ ram.avail \/ store.saved => ram.path # <<>>
      /\ ram.ready => AtImage
  BY <1>1 DEF DInv, DirOK
<1>3. CASE todo' = Menu /\ ram' = ram /\ store' = store
  <2>1. RamTyped' /\ StoreTyped'
    BY <1>1, <1>3 DEF RamTyped, StoreTyped
  <2>2. /\ ram'.avail \/ store'.saved => ram'.path # <<>>
        /\ ram'.ready => AtImage'
    BY <1>2, <1>3 DEF AtImage
  <2> QED
    BY <1>3, <2>1, <2>2, MenuQuiet, SameResult, CallerOK
<1> DEFINE Streams(f, n, cut, faults, len) ==
      /\ store' = [store EXCEPT !.reu = Streamed(f, n), !.cut = cut, !.faults = faults]
      /\ (todo' = Menu /\ ram' = ram) \/ Recorded(ram, len)
<1>4. ASSUME NEW f \in PrgFile, NEW n \in Nat, n <= Slot, NEW cut, NEW faults,
             NEW len \in Nat, Streams(f, n, cut, faults, len)
      PROVE  DInv'
  <2> DEFINE reu == Streamed(f, n)
             D == DOMAIN store.reu
  <2>1. /\ reu \in Memory(D) /\ Spares(D, reu, Targets)
        /\ reu[AppBank] = store.reu[AppBank]
    BY <1>1, <1>4, StreamedOK
  <2> HIDE DEF reu
  <2>2. store' = [cwd |-> store.cwd, open |-> store.open, saved |-> store.saved,
                  free |-> store.free, records |-> store.records,
                  faults |-> faults, jobs |-> store.jobs, cut |-> cut, reu |-> reu]
    BY <1>1, <1>4 DEF StoreTyped, reu
  <2>3. StoreTyped' /\ DOMAIN store'.reu = D
    BY <1>1, <2>1, <2>2 DEF StoreTyped, Memory
  <2>4. /\ RamTyped' /\ TodoTyped' /\ Quiet(todo'.pc) /\ todo'.pc # "stream"
        /\ UNCHANGED <<ram.path, ram.banks, ram.result>>
        /\ ram'.avail = ram.avail /\ ram'.ready = ram.ready
    <3>1. CASE todo' = Menu /\ ram' = ram
      BY <1>1, <3>1, MenuQuiet DEF RamTyped
    <3>2. CASE Recorded(ram, len)
      <4>1. /\ ram = [ram EXCEPT !.avail = ram.avail, !.ready = ram.ready]
            /\ ram.avail \in BOOLEAN /\ ram.ready \in BOOLEAN
        BY <1>1 DEF RamTyped
      <4> QED
        BY <1>1, <3>2, <4>1, RecordedOK
    <3> QED
      BY <1>4, <3>1, <3>2
  <2>5. OthersUntouched'
    BY <2>1, <2>2, <2>3, <2>4 DEF OthersUntouched, Spares, Targets
  <2>6. AppIsFile'
    BY <2>1, <2>2, <2>4 DEF DInv, AppIsFile, InImage, Image, Region
  <2>7. BanksOK'
    BY <2>2, <2>3, <2>4 DEF DInv, BanksOK
  <2>8. Typed' /\ CallOK'
    BY <2>3, <2>4 DEF Typed, CallOK, Quiet, Loading
  <2>9. /\ ram'.avail \/ store'.saved => ram'.path # <<>>
        /\ ram'.ready => AtImage'
    BY <1>2, <2>2, <2>4 DEF AtImage
  <2> QED
    BY <2>4, <2>5, <2>6, <2>7, <2>8, <2>9, IdleOK
<1> HIDE DEF Streams
<1>5. CASE Entry.name \in DOMAIN Disk
  <2> DEFINE f == Disk[Entry.name]
             fits == IF f.len < Slot THEN f.len ELSE Slot
  <2>1. f \in PrgFile /\ f.len \in Nat /\ Slot \in Nat
    BY <1>5 DEF DmaAssumption, PrgFile
  <2>2. fits \in Nat /\ fits <= Slot
    BY <2>1
  <2>3. \/ todo' = Menu /\ ram' = ram /\ store' = store
        \/ /\ store' = [store EXCEPT !.reu = Streamed(f, fits)]
           /\ (todo' = Menu /\ ram' = ram) \/ Recorded(ram, f.len)
        \/ \E n \in 0 .. fits :
             /\ store' = [store EXCEPT !.reu = Streamed(f, n), !.cut = TRUE,
                                       !.faults = @ + 1]
             /\ (todo' = Menu /\ ram' = ram) \/ Recorded(ram, n)
    BY <1>5 DEF Stream
  <2> HIDE DEF f, fits
  <2>4. CASE /\ store' = [store EXCEPT !.reu = Streamed(f, fits)]
             /\ (todo' = Menu /\ ram' = ram) \/ Recorded(ram, f.len)
    <3>1. Streams(f, fits, store.cut, store.faults, f.len)
      BY <1>1, <2>4 DEF StoreTyped, Streams
    <3> QED
      BY <1>4, <2>1, <2>2, <3>1
  <2>5. ASSUME NEW n \in 0 .. fits,
               store' = [store EXCEPT !.reu = Streamed(f, n), !.cut = TRUE,
                                      !.faults = @ + 1],
               (todo' = Menu /\ ram' = ram) \/ Recorded(ram, n)
        PROVE  DInv'
    <3> DEFINE cut == TRUE
    <3>1. Streams(f, n, cut, store.faults + 1, n) /\ n \in Nat /\ n <= Slot
      BY <2>1, <2>2, <2>5 DEF Streams
    <3> HIDE DEF cut
    <3> QED
      BY <1>4, <2>1, <3>1
  <2> QED
    BY <1>3, <2>3, <2>4, <2>5
<1>6. CASE Entry.name \notin DOMAIN Disk
  BY <1>3, <1>6 DEF Stream
<1> QED
  BY <1>5, <1>6

-----------------------------------------------------------------------------
(***************************************************************************)
(* The theorems                                                            *)
(***************************************************************************)

LEMMA DmaInit ==
  ASSUME DmaAssumption, Init
  PROVE  DInv
<1>1. /\ todo = [pc |-> "probe"]
      /\ ram.avail = FALSE /\ ram.ready = FALSE /\ store.saved = FALSE
  BY DEF Init, Menu
<1>2. ~Loading /\ todo.pc \notin Reading \cup Identify /\ todo.pc = "probe"
  BY <1>1 DEF Loading, Loads, Identify, Placing, Reading
<1>3. PICK p \in Paths, on \in BOOLEAN :
        ram = [cfg |-> on, path |-> p, avail |-> FALSE, probe |-> FALSE,
               ready |-> FALSE, error |-> "none", banks |-> [o \in 0 .. 2 |-> 0],
               recs |-> <<>>, loaded |-> FALSE, result |-> NoResult]
  BY DEF Init
<1>4. RamTyped /\ ram.result = NoResult /\ \A o \in 0 .. 2 : ram.banks[o] = 0
  <2> DEFINE Recs == Seq([num : Nat, name : Texts, bank : Nat, off : Nat, len : Nat])
             none == <<>>
             banks == [o \in 0 .. 2 |-> 0]
  <2>1. none \in Recs /\ banks \in [0 .. 2 -> Nat] /\ \A o \in 0 .. 2 : banks[o] = 0
    OBVIOUS
  <2>2. NoResult \in [way : {"none", "dma", "disk", "failed"}, name : Texts]
    BY DEF NoResult, Texts
  <2>3. ram = [cfg |-> on, path |-> p, avail |-> FALSE, probe |-> FALSE,
               ready |-> FALSE, error |-> "none", banks |-> banks,
               recs |-> none, loaded |-> FALSE, result |-> NoResult]
    BY <1>3
  <2> HIDE DEF Recs, none, banks
  <2> QED
    BY <2>1, <2>2, <2>3 DEF RamTyped, Recs
<1>5. PICK d \in DOMAIN Host, free \in Banks, n \in Records :
        store = [cwd |-> d, open |-> <<>>, saved |-> FALSE, free |-> free,
                 records |-> n, faults |-> 0, jobs |-> 0, cut |-> FALSE,
                 reu |-> [b \in free \cup {AppBank} |-> [i \in 1 .. BankSize |-> Old]]]
  BY DEF Init
<1>6. /\ store.cwd = d /\ store.free = free /\ store.saved = FALSE
      /\ store.reu = [b \in free \cup {AppBank} |-> [i \in 1 .. BankSize |-> Old]]
  BY <1>5
<1>7. free \subseteq Nat \ {0, AppBank} /\ AppBank \in Nat \ {0}
  BY DEF DmaAssumption
<1>8. /\ DOMAIN store.reu = free \cup {AppBank}
      /\ \A b \in free \cup {AppBank} :
           /\ store.reu[b] \in [1 .. BankSize -> Cells]
           /\ \A i \in 1 .. BankSize : store.reu[b][i] = Old
  <2>1. Old \in Cells
    BY DEF Old, Cells, Texts
  <2> HIDE DEF Old
  <2> QED
    BY <1>6, <2>1
<1>9. StoreTyped
  BY <1>5, <1>6, <1>7, <1>8 DEF StoreTyped
<1>10. Typed
  BY <1>1, <1>4, <1>9 DEF Typed, TodoTyped
<1>11. CallOK
  BY <1>2 DEF CallOK
<1>12. DirOK
  BY <1>1, <1>2 DEF DirOK
<1>13. FileOK
  BY <1>2 DEF FileOK, Loaded
<1>14. BanksOK
  BY <1>4, <1>6, <1>7, <1>8 DEF BanksOK
<1>15. OthersUntouched
  BY <1>8 DEF OthersUntouched
<1>16. AppIsFile
  <2>1. NoResult.way # "dma"
    BY DEF NoResult
  <2> QED
    BY <1>4, <2>1 DEF AppIsFile
<1> QED
  BY <1>10, <1>11, <1>12, <1>13, <1>14, <1>15, <1>16 DEF DInv

LEMMA DmaStep ==
  ASSUME DmaAssumption, DInv, [Next]_vars
  PROVE  DInv'
<1>1. CASE UNCHANGED vars
  <2>1. ram' = ram /\ store' = store /\ todo' = todo
    BY <1>1 DEF vars
  <2>2. Typed'
    BY <2>1 DEF DInv, Typed, RamTyped, StoreTyped, TodoTyped
  <2>3. /\ CallOK' /\ DirOK' /\ BanksOK' /\ OthersUntouched'
    BY <2>1 DEF DInv, CallOK, DirOK, BanksOK, OthersUntouched, Targets, Loading,
       AtEntry, Entry, AtImage
  <2>4. /\ InImage(todo.name)' = InImage(todo.name) /\ Holds(todo.name)' = Holds(todo.name)
        /\ Length(Image(todo.name).len)' = Length(Image(todo.name).len)
        /\ Image(todo.name)' = Image(todo.name)
    BY <2>1 DEF Length, InImage, Image, Holds, Region
  <2>5. FileOK'
    BY <2>1, <2>4 DEF DInv, FileOK, Loaded, Loading
  <2>6. AppIsFile'
    BY <2>1, SameResult
  <2> QED
    BY <2>2, <2>3, <2>5, <2>6 DEF DInv
<1> QED
  BY <1>1, ProbeOK, ProbeReturnsOK, LoadAppOK, AppReturnsOK, LoadResourcesOK,
     StartEntryOK, OverlayReturnsOK, StreamOK, ResourcesDoneOK, RunProgramOK,
     CommandOK, PathCommandOK, ImageCommandOK, MountedOK, OpenCommandOK,
     InfoCommandOK, HeaderCommandOK, LoadCommandOK, CloseCommandOK
     DEF Next

\* The inductive invariant of the DMA loading holds: at every command the
\* Ultimate's directory is where the launcher takes it to be.
THEOREM DmaInvariant ==
  ASSUME DmaAssumption
  PROVE  Spec => []DInv
<1>1. Init => DInv
  BY DmaInit
<1>2. DInv /\ [Next]_vars => DInv'
  BY DmaStep
<1> QED
  BY <1>1, <1>2, PTL DEF Spec

\* A program that load_app_to_reu reports as loaded over the DMA is the file of
\* that name in the image, whole and in the program's bank, whatever the programs
\* before it have done to the Ultimate's directory and whichever commands failed.
THEOREM DmaLoadsTheFile ==
  ASSUME DmaAssumption
  PROVE  Spec => []AppIsFile
<1>1. DInv => AppIsFile
  BY DEF DInv
<1> QED
  BY <1>1, DmaInvariant, PTL

\* Loads, those that fail as well, write to the program's bank and to the slots of
\* the overlays and nowhere else in the REU.
THEOREM DmaSparesTheRest ==
  ASSUME DmaAssumption
  PROVE  Spec => []OthersUntouched
<1>1. DInv => OthersUntouched
  BY DEF DInv
<1> QED
  BY <1>1, DmaInvariant, PTL

-----------------------------------------------------------------------------
(***************************************************************************)
(* The overlays and the calm loads: what the records and the slots hold    *)
(* while the entries of a line are loaded one after another, and how far a *)
(* load has come when no command failed                                    *)
(***************************************************************************)
\* Banks that were given to overlays are different ones, and not given again.
Distinct(banks, D) ==
  /\ \A o, p \in 0 .. 2 : banks[o] # 0 /\ banks[o] = banks[p] => o = p
  /\ \A o \in 0 .. 2 : banks[o] # 0 => banks[o] \in D
BanksApart ==
  /\ Distinct(ram.banks, DOMAIN store.reu)
  /\ \A o \in 0 .. 2 : ram.banks[o] \notin store.free
  /\ store.free \subseteq DOMAIN store.reu

\* A slot has the first n bytes of a file, and zeros after them.
SlotHas(reu, bank, off, from, n) ==
  \A j \in 1 .. Slot : reu[bank][off + j] = IF j <= n THEN <<from, j>> ELSE Zero

Fit(len) == IF len < Slot THEN len ELSE Slot
SlotIs(reu, bank, off, name, n) ==
  \E f \in Origins(name) : /\ f \in PrgFile /\ n = Fit(f.len)
                           /\ SlotHas(reu, bank, off, f.from, n)

\* The overlay of a record is in the record's slot, in a bank that no program is
\* loaded into.
Placed(reu, r) ==
  /\ r.bank \in DOMAIN reu /\ r.bank # AppBank /\ r.off + Slot <= BankSize
  /\ SlotIs(reu, r.bank, r.off, r.name, r.len)

AllPlaced(reu, recs) ==
  \A i \in 1 .. Len(recs) : recs[i].num = i /\ Placed(reu, recs[i])

\* A record is of an entry of the line.
OfEntry(banks, r, e) ==
  e \in Line /\ r.bank # 0 /\ r.bank = banks[e.ord] /\ r.off = e.off

Overlaying ==
  todo.pc \in {"entry", "stream"} \/ (Loading /\ todo.job = "overlay")

\* The records are of the entries before the one that is loaded.
RecsOK ==
  /\ Overlaying =>
       /\ ~ram.loaded /\ AllPlaced(store.reu, ram.recs)
       /\ todo.line \in DepLines /\ todo.at = Len(ram.recs) + 1
       /\ todo.at <= Len(todo.line) + 1
       /\ \A i \in 1 .. Len(ram.recs) : OfEntry(ram.banks, ram.recs[i], todo.line[i])
  /\ ram.loaded => Len(ram.recs) = OVERLAYS /\ AllPlaced(store.reu, ram.recs)

\* The slot of the entry that is loaded over the DMA: cleared, then with the file
Clearing == Loads \ {"close", "shut", "return"}
SlotOK ==
  Loading /\ todo.job = "overlay" =>
    /\ todo.name = Entry.name
    /\ todo.pc \in Clearing => SlotHas(store.reu, todo.bank, todo.off, "zero", 0)
    /\ Loaded => SlotIs(store.reu, todo.bank, todo.off, todo.name, todo.left)

OInv == BanksApart /\ (~store.cut => RecsOK /\ SlotOK)

-----------------------------------------------------------------------------
(***************************************************************************)
(* Slots                                                                   *)
(***************************************************************************)

\* Where a file comes from depends on the path of the image alone.
LEMMA SamePath ==
  ASSUME UNCHANGED ram.path
  PROVE  /\ \A n : Origins(n)' = Origins(n)
         /\ \A reu, bank, off, n, k :
              SlotIs(reu, bank, off, n, k)' <=> SlotIs(reu, bank, off, n, k)
         /\ \A reu, r : Placed(reu, r)' <=> Placed(reu, r)
<1>1. \A n : Origins(n)' = Origins(n)
  BY DEF Origins, InImage, Image
<1>2. \A reu, bank, off, n, k :
        SlotIs(reu, bank, off, n, k)' <=> SlotIs(reu, bank, off, n, k)
  BY <1>1 DEF SlotIs, SlotHas, Zero
<1> QED
  BY <1>1, <1>2 DEF Placed

SlotSame(old, new, bank, off) ==
  \A j \in 1 .. Slot : new[bank][off + j] = old[bank][off + j]

LEMMA PlacedKept ==
  ASSUME NEW old, NEW new, NEW r, Placed(old, r), DOMAIN new = DOMAIN old,
         SlotSame(old, new, r.bank, r.off)
  PROVE  Placed(new, r)
BY DEF Placed, SlotIs, SlotHas, SlotSame

LEMMA AllPlacedKept ==
  ASSUME UNCHANGED ram.path, AllPlaced(store.reu, ram.recs),
         DOMAIN store'.reu = DOMAIN store.reu,
         \A i \in 1 .. Len(ram.recs) :
           SlotSame(store.reu, store'.reu, ram.recs[i].bank, ram.recs[i].off)
  PROVE  AllPlaced(store'.reu, ram.recs)
BY PlacedKept DEF AllPlaced

\* What is written to one slot leaves another one alone.
Elsewhere(bank, off, b, o) ==
  b # bank \/ o + Slot <= off \/ off + Slot <= o

LEMMA WrittenKeeps ==
  ASSUME BankSize \in Nat, Slot \in Nat, NEW D, NEW reu \in Memory(D),
         NEW bank, NEW off \in Nat, NEW n \in 0 .. Slot, NEW what \in [1 .. n -> Cells],
         NEW b \in D, NEW o \in Nat, o + Slot <= BankSize,
         Elsewhere(bank, off, b, o)
  PROVE  SlotSame(reu, Written(reu, bank, off, what), b, o)
<1>1. CASE b # bank
  BY <1>1, WrittenElsewhere DEF SlotSame
<1>2. CASE b = bank
  <2> SUFFICES ASSUME NEW j \in 1 .. Slot
               PROVE  Written(reu, bank, off, what)[b][o + j] = reu[b][o + j]
    BY DEF SlotSame
  <2>1. o + j \in 1 .. BankSize
    OBVIOUS
  <2>2. o + j - off \notin 1 .. n
    BY <1>2 DEF Elsewhere
  <2> DEFINE S == 1 .. n
             i == o + j
  <2>3. i \in 1 .. BankSize /\ what \in [S -> Cells]
    BY <2>1
  <2> HIDE DEF S, i
  <2>4. Written(reu, bank, off, what)[b][i] =
          IF i - off \in S THEN what[i - off] ELSE reu[b][i]
    BY <1>2, <2>3, WrittenAt
  <2> QED
    BY <2>2, <2>4 DEF S, i
<1> QED
  BY <1>1, <1>2

\* A cleared slot
LEMMA ZeroedHas ==
  ASSUME BankSize \in Nat, Slot \in Nat, NEW D, NEW reu \in Memory(D),
         NEW bank \in D, NEW off \in Nat, off + Slot <= BankSize
  PROVE  SlotHas(Zeroed(reu, bank, off), bank, off, "zero", 0)
<1> DEFINE zeros == [i \in 1 .. Slot |-> Zero]
<1> SUFFICES ASSUME NEW j \in 1 .. Slot
             PROVE  Written(reu, bank, off, zeros)[bank][off + j] = Zero
  BY DEF SlotHas, Zeroed
<1>1. zeros \in [1 .. Slot -> Cells] /\ zeros[j] = Zero
  BY ZerosTyped
<1>2. off + j \in 1 .. BankSize /\ off + j - off = j
  OBVIOUS
<1> HIDE DEF zeros
<1> QED
  BY <1>1, <1>2, WrittenAt

\* The first n bytes of a file in a cleared slot
LEMMA LoadedHas ==
  ASSUME BankSize \in Nat, Slot \in Nat, NEW D, NEW reu \in Memory(D),
         NEW bank \in D, NEW off \in Nat, off + Slot <= BankSize,
         SlotHas(reu, bank, off, "zero", 0), NEW f \in PrgFile, NEW n \in 0 .. Slot
  PROVE  SlotHas(Written(reu, bank, off, Payload(f, 0, n)), bank, off, f.from, n)
<1> DEFINE what == Payload(f, 0, n)
<1> SUFFICES ASSUME NEW j \in 1 .. Slot
             PROVE  Written(reu, bank, off, what)[bank][off + j]
                      = IF j <= n THEN <<f.from, j>> ELSE Zero
  BY DEF SlotHas
<1>1. what \in [1 .. n -> Cells] /\ \A i \in 1 .. n : what[i] = <<f.from, i>>
  BY PayloadTyped DEF Payload
<1>2. off + j \in 1 .. BankSize /\ off + j - off = j
  OBVIOUS
<1>3. reu[bank][off + j] = Zero
  <2>1. reu[bank][off + j] = IF j <= 0 THEN <<"zero", j>> ELSE Zero
    BY Zenon DEF SlotHas
  <2>2. ~(j <= 0)
    OBVIOUS
  <2> QED
    BY <2>1, <2>2
<1> DEFINE S == 1 .. n
           i == off + j
<1>4. i \in 1 .. BankSize /\ what \in [S -> Cells]
  BY <1>1, <1>2
<1> HIDE DEF what, S, i
<1>5. Written(reu, bank, off, what)[bank][i] =
        IF i - off \in S THEN what[i - off] ELSE reu[bank][i]
  BY <1>4, WrittenAt
<1> QED
  BY <1>1, <1>2, <1>3, <1>5 DEF S, i

\* The entry that is loaded does not share its slot with the records before it.
LEMMA EntriesApart ==
  ASSUME DmaAssumption, SlotsApart, NEW banks, NEW D, Distinct(banks, D),
         NEW l \in DepLines, NEW i \in DOMAIN l, NEW k \in DOMAIN l, i # k, NEW r,
         l[k] \in Line, banks[l[k].ord] # 0, OfEntry(banks, r, l[i])
  PROVE  /\ Elsewhere(banks[l[k].ord], l[k].off, r.bank, r.off)
         /\ r.bank \in D /\ r.off \in Nat /\ r.off + Slot <= BankSize
<1>1. l[i] # Bad /\ l[k] # Bad /\ l[i] \in Line
  BY DEF DmaAssumption, OfEntry
<1>2. /\ l[i].ord \in 0 .. 2 /\ l[k].ord \in 0 .. 2 /\ l[i].off \in Nat
      /\ l[i].off + Slot <= BankSize
      /\ \/ l[i].ord # l[k].ord
         \/ l[i].off + Slot <= l[k].off \/ l[k].off + Slot <= l[i].off
  BY <1>1 DEF SlotsApart, Line
<1> QED
  BY <1>2 DEF Distinct, OfEntry, Elsewhere

LEMMA RecordsSpared ==
  ASSUME DmaAssumption, SlotsApart, NEW D, NEW reu \in Memory(D),
         NEW banks, Distinct(banks, D), NEW l \in DepLines, NEW recs,
         Len(recs) \in Nat, NEW k \in 1 .. Len(l), k = Len(recs) + 1,
         l[k] \in Line, banks[l[k].ord] # 0,
         \A i \in 1 .. Len(recs) : OfEntry(banks, recs[i], l[i]),
         NEW n \in 0 .. Slot, NEW what \in [1 .. n -> Cells]
  PROVE  \A i \in 1 .. Len(recs) :
           SlotSame(reu, Written(reu, banks[l[k].ord], l[k].off, what),
                    recs[i].bank, recs[i].off)
<1> SUFFICES ASSUME NEW i \in 1 .. Len(recs)
             PROVE  SlotSame(reu, Written(reu, banks[l[k].ord], l[k].off, what),
                             recs[i].bank, recs[i].off)
  OBVIOUS
<1> DEFINE bank == banks[l[k].ord]
           off == l[k].off
           b == recs[i].bank
           o == recs[i].off
<1>1. l \in Seq(Line \cup {Bad}) /\ i \in DOMAIN l /\ k \in DOMAIN l /\ i # k
  BY DEF DmaAssumption
<1>2. /\ Elsewhere(bank, off, b, o)
      /\ b \in D /\ o \in Nat /\ o + Slot <= BankSize
  BY <1>1, EntriesApart
<1>3. off \in Nat /\ BankSize \in Nat /\ Slot \in Nat
  BY DEF Line, DmaAssumption
<1> HIDE DEF bank, off, b, o
<1>4. SlotSame(reu, Written(reu, bank, off, what), b, o)
  BY <1>2, <1>3, WrittenKeeps
<1> QED
  BY <1>4 DEF bank, off, b, o

-----------------------------------------------------------------------------
(***************************************************************************)
(* The overlays stay in their places                                       *)
(***************************************************************************)

LEMMA BanksStay ==
  ASSUME OInv, UNCHANGED <<ram.banks, store.free, DOMAIN store.reu>>
  PROVE  BanksApart'
BY DEF OInv, BanksApart

\* Commands but the load, of whatever load, touch neither the records nor the REU.
QuietCommand ==
  /\ SameCall
  /\ UNCHANGED <<store.reu, store.free, store.cut, ram.recs, ram.loaded>>
  /\ todo.job = "overlay" =>
       /\ todo'.pc \in Clearing => todo.pc \in Clearing
       /\ Loaded' => Loaded /\ todo'.left = todo.left

LEMMA CommandQuiet ==
  ASSUME OInv, Loading, QuietCommand
  PROVE  OInv'
<1>1. BanksApart'
  BY BanksStay DEF QuietCommand, SameCall
<1>2. SUFFICES ASSUME ~store.cut, RecsOK, SlotOK
               PROVE  RecsOK' /\ SlotOK'
  BY <1>1 DEF OInv, QuietCommand
<1>3. /\ UNCHANGED <<ram.path, ram.banks, ram.recs, ram.loaded, store.reu>>
      /\ todo'.pc \in Loads /\ todo'.job = todo.job /\ todo'.name = todo.name
      /\ todo'.bank = todo.bank /\ todo'.off = todo.off
      /\ todo'.line = todo.line /\ todo'.at = todo.at
  BY DEF QuietCommand, SameCall
<1>4. /\ AllPlaced(store.reu, ram.recs)' <=> AllPlaced(store.reu, ram.recs)
      /\ SlotIs(store.reu, todo.bank, todo.off, todo.name, todo.left)'
           <=> SlotIs(store.reu, todo.bank, todo.off, todo.name, todo'.left)
  BY <1>3, SamePath DEF AllPlaced
<1>5. Overlaying' <=> Overlaying
  BY <1>3 DEF Overlaying, Loading, Loads, Identify, Placing, Reading
<1>6. RecsOK'
  BY <1>2, <1>3, <1>4, <1>5 DEF RecsOK, OfEntry
<1>7. Entry' = Entry
  BY <1>3 DEF Entry
<1>8. /\ SlotHas(store.reu, todo.bank, todo.off, "zero", 0)'
           <=> SlotHas(store.reu, todo.bank, todo.off, "zero", 0)
  BY <1>3 DEF SlotHas, Zero
<1>9. SlotOK'
  BY <1>2, <1>3, <1>4, <1>7, <1>8 DEF SlotOK, QuietCommand
<1> QED
  BY <1>6, <1>9

\* The flag for a load that was cut off is the load's alone.
LEMMA CutKept ==
  ASSUME DInv, NEW pc \in Loads, NEW r \in Replies(pc)
  PROVE  r.store.cut = store.cut
<1>1. StoreTyped
  BY DEF DInv, Typed
<1>2. Done(pc).cut = store.cut
  BY <1>1 DEF StoreTyped, Done
<1>3. [Done(pc) EXCEPT !.faults = @ + 1].cut = Done(pc).cut
      /\ [store EXCEPT !.faults = @ + 1].cut = store.cut
  BY <1>1 DEF StoreTyped, Done
<1> QED
  BY <1>2, <1>3, ReplyKinds

LEMMA GoesQuiet ==
  ASSUME DInv, Loading, NEW next \in Loads, NEW k \in Nat, ram' = ram,
         todo' = [todo EXCEPT !.pc = next, !.k = k],
         next \in Clearing => todo.pc \in Clearing,
         next \notin {"close", "return"},
         UNCHANGED <<store.reu, store.free, store.cut>>
  PROVE  QuietCommand
BY GoesOn DEF QuietCommand, Loaded

LEMMA GoesToQuiet ==
  ASSUME DInv, Loading, NEW next \in Loads, ram' = ram, Going(next),
         next \in Clearing => todo.pc \in Clearing,
         next \notin {"close", "return"},
         UNCHANGED <<store.reu, store.free, store.cut>>
  PROVE  QuietCommand
BY GoesTo DEF QuietCommand, Loaded

LEMMA FailsQuiet ==
  ASSUME DInv, Loading, NEW pc \in Loads, todo.pc = pc,
         NEW e \in {"nouci", "path", "load"}, Fails(pc, e),
         UNCHANGED <<store.reu, store.free, store.cut>>
  PROVE  QuietCommand
<1> DEFINE next == IF pc \in Identify THEN "return" ELSE "shut"
<1>1. next \in {"return", "shut"} /\ next \in Loads /\ next \notin Clearing
  BY DEF Loads, Clearing
<1>2. ram' = [ram EXCEPT !.error = e] /\ todo' = [todo EXCEPT !.pc = next]
  BY DEF Fails, Going
<1> HIDE DEF next
<1>3. SameCall /\ todo'.pc = next /\ ram'.error = e
  BY <1>1, <1>2, GoesOut
<1>4. ram'.recs = ram.recs /\ ram'.loaded = ram.loaded
  BY <1>2 DEF DInv, Typed, RamTyped
<1> QED
  BY <1>1, <1>3, <1>4 DEF QuietCommand, Loaded

LEMMA SentQuiet ==
  ASSUME DmaAssumption, DInv, NEW pc \in Loads \ {"load"}, NEW r \in Replies(pc),
         store' = r.store
  PROVE  UNCHANGED <<store.reu, store.free, store.cut>>
<1>1. UNCHANGED <<store.reu, store.free>>
  BY CommandStore
<1>2. store'.cut = store.cut
  BY CutKept
<1> QED
  BY <1>1, <1>2

LEMMA CommandKeeps ==
  ASSUME DmaAssumption, DInv, OInv, Command
  PROVE  OInv'
<1>1. /\ todo.pc \in {"identify", "drvinfo", "root", "mount", "seek"}
      /\ Loading /\ todo.pc \in Loads \ {"load"} /\ todo.pc \in Clearing
  BY DEF Command, Loading, Loads, Identify, Placing, Reading, Clearing
<1>2. PICK r \in Replies(todo.pc) :
        /\ store' = r.store
        /\ IF Accepted(todo.pc, r)
           THEN todo' = [todo EXCEPT !.pc = After(@), !.k = 0] /\ UNCHANGED ram
           ELSE Fails(todo.pc, ErrorOf(todo.pc))
  BY DEF Command, Sent
<1>3. UNCHANGED <<store.reu, store.free, store.cut>>
  BY <1>1, <1>2, SentQuiet
<1>4. CASE ~Accepted(todo.pc, r)
  <2>1. Fails(todo.pc, ErrorOf(todo.pc))
    BY <1>2, <1>4
  <2>2. ErrorOf(todo.pc) \in {"nouci", "path", "load"}
    BY DEF ErrorOf
  <2>3. QuietCommand
    BY <1>1, <1>3, <2>1, <2>2, FailsQuiet
  <2> QED
    BY <1>1, <2>3, CommandQuiet
<1>5. CASE Accepted(todo.pc, r)
  <2> DEFINE next == After(todo.pc)
  <2>1. next \in Loads /\ next \notin {"close", "return"}
    BY <1>1 DEF After, Loads, Identify, Placing, Reading
  <2>2. ram' = ram /\ todo' = [todo EXCEPT !.pc = next, !.k = 0]
    BY <1>2, <1>5
  <2> HIDE DEF next
  <2>3. QuietCommand
    BY <1>1, <1>3, <2>1, <2>2, GoesQuiet
  <2> QED
    BY <1>1, <2>3, CommandQuiet
<1> QED
  BY <1>4, <1>5

LEMMA PathCommandKeeps ==
  ASSUME DmaAssumption, DInv, OInv, PathCommand
  PROVE  OInv'
<1>1. /\ todo.pc = "path" /\ Loading /\ "path" \in Loads \ {"load"}
      /\ "path" \in Clearing /\ todo \in JobType
  BY LoadTyped DEF PathCommand, Loading, Loads, Identify, Placing, Reading, Clearing
<1>2. PICK r \in Replies("path") :
        /\ store' = r.store
        /\ IF Accepted("path", r)
           THEN todo' = [todo EXCEPT !.pc = After("path"), !.k = @ + 1] /\ UNCHANGED ram
           ELSE Fails("path", "path")
  BY DEF PathCommand, Sent
<1>3. UNCHANGED <<store.reu, store.free, store.cut>>
  BY <1>1, <1>2, SentQuiet
<1>4. CASE ~Accepted("path", r)
  <2>1. QuietCommand
    BY <1>1, <1>2, <1>3, <1>4, FailsQuiet
  <2> QED
    BY <1>1, <2>1, CommandQuiet
<1>5. CASE Accepted("path", r)
  <2> DEFINE next == After("path")
             k == todo.k + 1
  <2>1. next \in Loads /\ next \notin {"close", "return"}
    BY DEF After, Loads, Identify, Placing, Reading
  <2>2. k \in Nat
    BY <1>1 DEF JobType
  <2>3. ram' = ram /\ todo' = [todo EXCEPT !.pc = next, !.k = k]
    BY <1>2, <1>5
  <2> HIDE DEF next, k
  <2>4. QuietCommand
    BY <1>1, <1>3, <2>1, <2>2, <2>3, GoesQuiet
  <2> QED
    BY <1>1, <2>4, CommandQuiet
<1> QED
  BY <1>4, <1>5

LEMMA ImageCommandKeeps ==
  ASSUME DmaAssumption, DInv, OInv, ImageCommand
  PROVE  OInv'
<1>1. /\ todo.pc \in {"image", "again"} /\ Loading /\ todo.pc \in Loads \ {"load"}
      /\ todo.pc \in Clearing /\ {"mounted", "again"} \subseteq Loads
  BY DEF ImageCommand, Loading, Loads, Identify, Placing, Reading, Clearing
<1>2. PICK r \in Replies(todo.pc) :
        /\ store' = r.store
        /\ \/ Going("mounted") /\ ram' = ram
           \/ Going("again") /\ ram' = ram
           \/ Fails(todo.pc, "path")
  BY DEF ImageCommand, Sent
<1>3. UNCHANGED <<store.reu, store.free, store.cut>>
  BY <1>1, <1>2, SentQuiet
<1>4. QuietCommand
  BY <1>1, <1>2, <1>3, GoesToQuiet, FailsQuiet
<1> QED
  BY <1>1, <1>4, CommandQuiet

LEMMA MountedKeeps ==
  ASSUME DmaAssumption, DInv, OInv, Mounted
  PROVE  OInv'
<1>1. /\ todo.pc = "mounted" /\ Loading /\ {"return", "open"} \subseteq Loads
      /\ todo.pc \in Clearing
      /\ UNCHANGED <<store.reu, store.free, store.cut>>
  BY DEF Mounted, Loading, Loads, Reading, Clearing
<1>2. CASE todo.validate
  <2>1. ram' = [ram EXCEPT !.error = "none"] /\ todo' = [todo EXCEPT !.pc = "return"]
    BY <1>2 DEF Mounted, Going
  <2>2. SameCall
    BY <1>1, <2>1, GoesOut
  <2>3. todo.job # "overlay"
    BY <1>1, <1>2 DEF DInv, CallOK
  <2>4. ram'.recs = ram.recs /\ ram'.loaded = ram.loaded
    BY <2>1 DEF DInv, Typed, RamTyped
  <2>5. QuietCommand
    BY <1>1, <2>2, <2>3, <2>4 DEF QuietCommand
  <2> QED
    BY <1>1, <2>5, CommandQuiet
<1>3. CASE ~todo.validate
  <2>1. ram' = ram /\ Going("open")
    BY <1>3 DEF Mounted
  <2>2. QuietCommand
    BY <1>1, <2>1, GoesToQuiet
  <2> QED
    BY <1>1, <2>2, CommandQuiet
<1> QED
  BY <1>2, <1>3

LEMMA OpenCommandKeeps ==
  ASSUME DmaAssumption, DInv, OInv, OpenCommand
  PROVE  OInv'
<1>1. /\ todo.pc = "open" /\ Loading /\ "open" \in Loads \ {"load"}
      /\ "open" \in Clearing /\ "info" \in Loads
  BY DEF OpenCommand, Loading, Loads, Reading, Clearing
<1>2. PICK r \in Replies("open") :
        store' = r.store /\ ((Going("info") /\ ram' = ram) \/ Fails("open", "load"))
  BY DEF OpenCommand, Sent
<1>3. UNCHANGED <<store.reu, store.free, store.cut>>
  BY <1>1, <1>2, SentQuiet
<1>4. QuietCommand
  BY <1>1, <1>2, <1>3, GoesToQuiet, FailsQuiet
<1> QED
  BY <1>1, <1>4, CommandQuiet

LEMMA InfoCommandKeeps ==
  ASSUME DmaAssumption, DInv, OInv, InfoCommand
  PROVE  OInv'
<1>1. /\ todo.pc = "info" /\ Loading /\ "info" \in Loads \ {"load"}
      /\ "info" \in Clearing /\ "header" \in Loads
  BY DEF InfoCommand, Loading, Loads, Reading, Clearing
<1> DEFINE n == Length(Opened.len)
<1>2. PICK r \in Replies("info") :
        /\ store' = r.store
        /\ IF Accepted("info", r) /\ n.left > 0
           THEN /\ todo' = [todo EXCEPT !.pc = "header", !.left = n.left,
                                        !.clipped = n.clipped]
                /\ UNCHANGED ram
           ELSE Fails("info", "load")
  BY DEF InfoCommand, Sent
<1>3. UNCHANGED <<store.reu, store.free, store.cut>>
  BY <1>1, <1>2, SentQuiet
<1>4. CASE ~(Accepted("info", r) /\ n.left > 0)
  <2>1. QuietCommand
    BY <1>1, <1>2, <1>3, <1>4, FailsQuiet
  <2> QED
    BY <1>1, <2>1, CommandQuiet
<1>5. CASE Accepted("info", r) /\ n.left > 0
  <2>1. n.left # 0
    BY <1>5
  <2>2. n.left \in Nat /\ n.clipped \in BOOLEAN
    BY <1>1, <2>1, OpenedImage, LengthBound
  <2>3. ram' = ram /\ todo' = [todo EXCEPT !.pc = "header", !.left = n.left,
                                           !.clipped = n.clipped]
    BY <1>2, <1>5
  <2> HIDE DEF n
  <2>4. todo \in JobType /\ RamTyped
    BY <1>1, LoadTyped DEF DInv, Typed
  <2>5. todo' \in JobType
    BY <1>1, <2>2, <2>3, <2>4 DEF JobType
  <2>6. SameCall /\ todo'.pc = "header"
    BY <1>1, <2>3, <2>4, <2>5 DEF JobType, SameCall, RamTyped
  <2>7. QuietCommand
    BY <1>1, <1>3, <2>3, <2>6 DEF QuietCommand, Loaded
  <2> QED
    BY <1>1, <2>7, CommandQuiet
<1> QED
  BY <1>4, <1>5

LEMMA HeaderCommandKeeps ==
  ASSUME DmaAssumption, DInv, OInv, HeaderCommand
  PROVE  OInv'
<1>1. /\ todo.pc = "header" /\ Loading /\ "header" \in Loads \ {"load"}
      /\ "header" \in Clearing /\ "seek" \in Loads
  BY DEF HeaderCommand, Loading, Loads, Reading, Clearing
<1>2. PICK r \in Replies("header") :
        store' = r.store /\ ((Going("seek") /\ ram' = ram) \/ Fails("header", "load"))
  BY DEF HeaderCommand, Sent
<1>3. UNCHANGED <<store.reu, store.free, store.cut>>
  BY <1>1, <1>2, SentQuiet
<1>4. QuietCommand
  BY <1>1, <1>2, <1>3, GoesToQuiet, FailsQuiet
<1> QED
  BY <1>1, <1>4, CommandQuiet

LEMMA CloseCommandKeeps ==
  ASSUME DmaAssumption, DInv, OInv, CloseCommand
  PROVE  OInv'
<1>1. /\ todo.pc \in {"close", "shut"} /\ Loading
      /\ "close" \in Loads \ {"load"} /\ "return" \in Loads
      /\ "return" \notin Clearing
  BY DEF CloseCommand, Loading, Loads, Reading, Clearing
<1>2. PICK r \in Replies("close") : store' = r.store
  BY DEF CloseCommand, Sent
<1>3. UNCHANGED <<store.reu, store.free, store.cut>>
  BY <1>1, <1>2, SentQuiet
<1>4. CASE todo.pc = "close"
  <2>1. ram' = [ram EXCEPT !.error = "none"] /\ todo' = [todo EXCEPT !.pc = "return"]
    BY <1>4 DEF CloseCommand, Going
  <2>2. SameCall /\ todo'.pc = "return"
    BY <1>1, <2>1, GoesOut
  <2>3. ram'.recs = ram.recs /\ ram'.loaded = ram.loaded
    BY <2>1 DEF DInv, Typed, RamTyped
  <2>4. todo'.left = todo.left
    BY <1>1, <2>1, LoadTyped DEF Loading, JobType
  <2>5. QuietCommand
    BY <1>1, <1>3, <1>4, <2>2, <2>3, <2>4 DEF QuietCommand, Loaded
  <2> QED
    BY <1>1, <2>5, CommandQuiet
<1>5. CASE todo.pc = "shut"
  <2>1. ram' = ram /\ Going("return")
    BY <1>5 DEF CloseCommand
  <2>2. SameCall /\ todo'.pc = "return"
    BY <1>1, <2>1, GoesTo
  <2>3. ram.error \in {"path", "load"}
    BY <1>5 DEF DInv, DirOK
  <2>4. QuietCommand
    BY <1>1, <1>3, <2>1, <2>2, <2>3 DEF QuietCommand, Loaded
  <2> QED
    BY <1>1, <2>4, CommandQuiet
<1> QED
  BY <1>1, <1>4, <1>5

\* A load that was cut off and refused all the same sets the flag.
LEMMA LoadCut ==
  ASSUME DmaAssumption, DInv, todo.pc = "load", NEW r \in Replies("load"),
         NEW odd, store' = [r.store EXCEPT !.cut = @ \/ odd], StoreTyped',
         ~store'.cut
  PROVE  ~store.cut /\ ~odd
<1>1. r.store.cut = store.cut
  BY CutKept DEF Loads, Reading
<1>2. "cut" \in DOMAIN store' /\ DOMAIN store' = DOMAIN r.store
  BY DEF StoreTyped
<1>3. store'.cut = (r.store.cut \/ odd)
  BY <1>2
<1> QED
  BY <1>1, <1>3, Zenon

\* What is loaded of an overlay
LEMMA OverlayFits ==
  ASSUME DmaAssumption, DInv, todo.pc = "load", todo.job = "overlay"
  PROVE  todo.left \in 1 .. Slot /\ todo.left = Fit(Opened.len)
<1>1. /\ Loading /\ Opened = Image(todo.name) /\ Opened.len \in Nat
  BY OpenedImage
<1>2. /\ todo.left # 0 /\ todo.left = Length(Opened.len).left
  BY <1>1 DEF DInv, FileOK
<1>3. todo.max = Slot /\ Slot \in Nat
  BY <1>1 DEF DInv, CallOK, DmaAssumption
<1> QED
  BY <1>1, <1>2, <1>3 DEF Length, Fit

LEMMA LoadCommandKeeps ==
  ASSUME DmaAssumption, SlotsApart, DInv, OInv, LoadCommand
  PROVE  OInv'
<1> DEFINE what == Payload(Opened, 0, todo.left)
           w == Written(store.reu, todo.bank, todo.off, what)
           D == DOMAIN store.reu
<1>1. /\ todo.pc = "load" /\ Loading /\ {"close", "shut"} \subseteq Loads
      /\ "load" \notin Identify /\ "load" \in Clearing
      /\ "close" \notin Clearing /\ "shut" \notin Clearing
  BY DEF LoadCommand, Loading, Loads, Reading, Identify, Clearing
<1>2. PICK r \in Replies("load") :
        /\ store' = [r.store EXCEPT !.cut = @ \/ (r.got # "ok" /\ Accepted("load", r))]
        /\ IF Accepted("load", r)
           THEN Going("close") /\ UNCHANGED ram ELSE Fails("load", "load")
  BY DEF LoadCommand
<1>3. /\ StoreTyped' /\ DOMAIN store'.reu = DOMAIN store.reu
      /\ store'.reu \in {store.reu, w} /\ (r.got = "ok" => store'.reu = w)
      /\ UNCHANGED store.free
  BY <1>1, <1>2, LoadStore
<1>4. /\ SameCall /\ UNCHANGED <<ram.recs, ram.loaded>>
      /\ \/ todo'.pc = "close" /\ Accepted("load", r) /\ todo'.left = todo.left
         \/ todo'.pc = "shut"
  <2>1. CASE Accepted("load", r)
    BY <1>1, <1>2, <2>1, GoesTo
  <2>2. CASE ~Accepted("load", r)
    <3>1. ram' = [ram EXCEPT !.error = "load"] /\ todo' = [todo EXCEPT !.pc = "shut"]
      BY <1>1, <1>2, <2>2 DEF Fails, Going
    <3>2. SameCall /\ todo'.pc = "shut"
      BY <1>1, <3>1, GoesOut
    <3>3. ram'.recs = ram.recs /\ ram'.loaded = ram.loaded
      BY <3>1 DEF DInv, Typed, RamTyped
    <3> QED
      BY <3>2, <3>3
  <2> QED
    BY <2>1, <2>2
<1>5. BanksApart'
  BY <1>3, <1>4, BanksStay DEF SameCall
<1>6. SUFFICES ASSUME ~store'.cut PROVE RecsOK' /\ SlotOK'
  BY <1>5 DEF OInv
<1>7. ~store.cut /\ (Accepted("load", r) => r.got = "ok")
  <2> DEFINE odd == r.got # "ok" /\ Accepted("load", r)
  <2>1. store' = [r.store EXCEPT !.cut = @ \/ odd]
    BY <1>2
  <2> HIDE DEF odd
  <2>2. ~store.cut /\ ~odd
    BY <1>1, <1>3, <1>6, <2>1, LoadCut
  <2> QED
    BY <2>2 DEF odd
<1>8. RecsOK /\ SlotOK /\ BanksApart
  BY <1>7 DEF OInv
<1>9. /\ UNCHANGED <<ram.path, ram.banks, ram.recs, ram.loaded>>
      /\ todo'.pc \in {"close", "shut"} /\ todo'.job = todo.job
      /\ todo'.name = todo.name /\ todo'.bank = todo.bank /\ todo'.off = todo.off
      /\ todo'.line = todo.line /\ todo'.at = todo.at /\ Loading'
      /\ Entry' = Entry
  BY <1>1, <1>4 DEF SameCall, Entry, Loading
<1>10. /\ store.reu \in Memory(D) /\ todo.job \in {"app", "overlay"}
       /\ what \in [1 .. todo.left -> Cells] /\ Opened \in PrgFile
       /\ BankSize \in Nat /\ Slot \in Nat /\ Len(ram.recs) \in Nat
  <2>1. ram.recs \in Seq([num : Nat, name : Texts, bank : Nat, off : Nat, len : Nat])
    BY DEF DInv, Typed, RamTyped
  <2> QED
    BY <1>1, <2>1, MemoryNow, OpenedImage, LoadWhat DEF Loadable, DmaAssumption
<1> HIDE DEF what, w
<1>11. CASE todo.job = "app"
  <2>1. ~Overlaying' /\ SlotOK'
    BY <1>1, <1>9, <1>11 DEF Overlaying, SlotOK
  <2>2. ASSUME ram.loaded PROVE AllPlaced(store.reu, ram.recs)'
    <3>1. AllPlaced(store.reu, ram.recs)
      BY <1>8, <2>2 DEF RecsOK
    <3>2. ASSUME NEW i \in 1 .. Len(ram.recs)
          PROVE  SlotSame(store.reu, store'.reu, ram.recs[i].bank, ram.recs[i].off)
      <4> DEFINE b == ram.recs[i].bank
      <4>1. b \in D /\ b # AppBank /\ todo.bank = AppBank
        BY <1>1, <1>11, <3>1, <3>2 DEF AllPlaced, Placed, DInv, CallOK
      <4>2. store'.reu[b] = store.reu[b]
        BY <1>3, <1>10, <4>1, WrittenElsewhere DEF w
      <4> QED
        BY <4>2 DEF SlotSame
    <3>3. AllPlaced(store'.reu, ram.recs)
      BY <1>3, <1>9, <3>1, <3>2, AllPlacedKept
    <3> QED
      BY <1>9, <3>3, SamePath DEF AllPlaced
  <2> QED
    BY <1>8, <1>9, <2>1, <2>2 DEF RecsOK
<1>12. CASE todo.job = "overlay"
  <2>1. /\ AtEntry /\ todo.off = Entry.off /\ todo.left \in 1 .. Slot
        /\ todo.left = Fit(Opened.len)
    BY <1>1, <1>12, OverlayFits DEF DInv, CallOK
  <2>2. /\ Overlaying /\ todo.at = Len(ram.recs) + 1 /\ ~ram.loaded
        /\ AllPlaced(store.reu, ram.recs)
        /\ \A i \in 1 .. Len(ram.recs) : OfEntry(ram.banks, ram.recs[i], todo.line[i])
    BY <1>1, <1>8, <1>12 DEF RecsOK, Overlaying
  <2>3. \A i \in 1 .. Len(ram.recs) :
          SlotSame(store.reu, w, ram.recs[i].bank, ram.recs[i].off)
    <3> DEFINE l == todo.line
               k == todo.at
               n == todo.left
    <3>1. /\ l \in DepLines /\ k \in 1 .. Len(l) /\ k = Len(ram.recs) + 1
          /\ l[k] \in Line /\ ram.banks[l[k].ord] # 0 /\ n \in 0 .. Slot
          /\ what \in [1 .. n -> Cells] /\ Distinct(ram.banks, D)
      BY <1>8, <1>10, <2>1, <2>2 DEF AtEntry, Entry, BanksApart
    <3>2. w = Written(store.reu, ram.banks[l[k].ord], l[k].off, what)
      BY <2>1 DEF w, AtEntry, Entry
    <3>3. \A i \in 1 .. Len(ram.recs) : OfEntry(ram.banks, ram.recs[i], l[i])
      BY <2>2
    <3> HIDE DEF l, k, n, D
    <3> QED
      BY <1>10, <3>1, <3>2, <3>3, RecordsSpared
  <2>4. AllPlaced(store.reu, ram.recs)'
    <3>1. \A i \in 1 .. Len(ram.recs) :
            SlotSame(store.reu, store'.reu, ram.recs[i].bank, ram.recs[i].off)
      BY <1>3, <2>3 DEF SlotSame
    <3>2. AllPlaced(store'.reu, ram.recs)
      BY <1>3, <1>9, <2>2, <3>1, AllPlacedKept
    <3> QED
      BY <1>9, <3>2, SamePath DEF AllPlaced
  <2>5. RecsOK'
    BY <1>8, <1>9, <2>2, <2>4 DEF RecsOK, OfEntry
  <2>6. todo.name = Entry.name /\ SlotHas(store.reu, todo.bank, todo.off, "zero", 0)
    BY <1>1, <1>8, <1>12 DEF SlotOK
  <2>7. ASSUME todo'.pc = "close"
        PROVE  SlotIs(store.reu, todo.bank, todo.off, todo.name, todo.left)'
    <3> DEFINE bank == todo.bank
               off == todo.off
               n == todo.left
               f == Opened
    <3>1. /\ bank \in D /\ off \in Nat /\ off + Slot <= BankSize /\ n \in 0 .. Slot
      <4>1. todo.line \in Seq(Line \cup {Bad}) /\ todo.at \in DOMAIN todo.line
        BY <2>1 DEF AtEntry, DmaAssumption
      <4>2. Entry # Bad /\ Entry \in Line
        BY <2>1 DEF AtEntry, DmaAssumption
      <4>3. Entry.off + Slot <= BankSize
        BY <2>1, <4>1, <4>2 DEF SlotsApart, AtEntry, Entry
      <4> QED
        BY <1>8, <2>1, <4>2, <4>3 DEF AtEntry, Line, BanksApart, Distinct
    <3>2. store'.reu = Written(store.reu, bank, off, Payload(f, 0, n))
      BY <1>3, <1>4, <1>7, <2>7 DEF w, what
    <3>3. f \in PrgFile /\ f \in Origins(todo.name) /\ n = Fit(f.len)
      BY <1>1, <2>1, OpenedImage DEF Origins
    <3>4. SlotHas(store.reu, bank, off, "zero", 0)
      BY <2>6
    <3> HIDE DEF bank, off, n, f, D
    <3>5. SlotHas(store'.reu, bank, off, f.from, n)
      BY <1>10, <3>1, <3>2, <3>3, <3>4, LoadedHas
    <3>6. SlotIs(store'.reu, bank, off, todo.name, n)
      BY <3>3, <3>5 DEF SlotIs
    <3> QED
      BY <1>4, <1>9, <2>7, <3>6, SamePath DEF bank, off, n
  <2>8. SlotOK'
    BY <1>1, <1>9, <2>6, <2>7 DEF SlotOK, Loaded
  <2> QED
    BY <2>5, <2>8
<1> QED
  BY <1>10, <1>11, <1>12

\* Where no load of an overlay comes next, all that matters are the records.
LEMMA MenuKeeps ==
  ASSUME OInv, ~Overlaying', UNCHANGED <<ram.path, ram.banks, ram.recs, ram.loaded>>,
         UNCHANGED <<store.reu, store.free, store.cut>>
  PROVE  OInv'
<1>1. BanksApart'
  BY BanksStay
<1>2. SUFFICES ASSUME ~store.cut, RecsOK, SlotOK
               PROVE  RecsOK' /\ SlotOK'
  BY <1>1 DEF OInv
<1>3. SlotOK'
  BY DEF SlotOK, Overlaying
<1>4. AllPlaced(store.reu, ram.recs)' <=> AllPlaced(store.reu, ram.recs)
  BY SamePath DEF AllPlaced
<1>5. RecsOK'
  BY <1>2, <1>4 DEF RecsOK
<1> QED
  BY <1>3, <1>5

LEMMA MenuIdle ==
  ASSUME todo' = Menu
  PROVE  ~Overlaying'
BY DEF Menu, Overlaying, Loading, Loads, Identify, Placing, Reading

LEMMA ProbeKeeps ==
  ASSUME DInv, OInv, Probe
  PROVE  OInv'
<1>1. RamTyped /\ StoreTyped
  BY DEF DInv, Typed
<1>2. CASE ram' = NotAvailable /\ store' = Saved(NotAvailable) /\ todo' = Menu
  <2>1. UNCHANGED <<ram.path, ram.banks, ram.recs, ram.loaded>>
    BY <1>1, <1>2 DEF RamTyped, NotAvailable
  <2>2. UNCHANGED <<store.reu, store.free, store.cut>>
    BY <1>1, <1>2 DEF StoreTyped, Saved
  <2> QED
    BY <1>2, <2>1, <2>2, MenuIdle, MenuKeeps
<1>3. CASE todo' = [Load("probe") EXCEPT !.validate = TRUE] /\ UNCHANGED <<ram, store>>
  <2>1. todo'.job = "probe" /\ todo'.pc = "identify"
    BY <1>3 DEF Load
  <2>2. ~Overlaying'
    BY <2>1 DEF Overlaying
  <2> QED
    BY <1>3, <2>2, MenuKeeps
<1> QED
  BY <1>2, <1>3 DEF Probe

LEMMA ProbeReturnsKeeps ==
  ASSUME DInv, OInv, ProbeReturns
  PROVE  OInv'
<1>1. RamTyped /\ StoreTyped
  BY DEF DInv, Typed
<1> DEFINE good == [ram EXCEPT !.avail = TRUE, !.probe = TRUE, !.ready = TRUE]
<1>2. /\ todo' = Menu
      /\ \/ ram' = good /\ store' = Saved(good)
         \/ ram' = NotAvailable /\ store' = Saved(NotAvailable)
  BY DEF ProbeReturns
<1>3. UNCHANGED <<ram.path, ram.banks, ram.recs, ram.loaded>>
  BY <1>1, <1>2 DEF RamTyped, NotAvailable
<1>4. UNCHANGED <<store.reu, store.free, store.cut>>
  BY <1>1, <1>2 DEF StoreTyped, Saved
<1> QED
  BY <1>2, <1>3, <1>4, MenuIdle, MenuKeeps

LEMMA LoadAppKeeps ==
  ASSUME DInv, OInv, LoadApp
  PROVE  OInv'
<1>1. RamTyped /\ StoreTyped
  BY DEF DInv, Typed
<1>2. UNCHANGED <<store.reu, store.free, store.cut>>
  BY <1>1 DEF LoadApp, StoreTyped
<1>3. UNCHANGED <<ram.path, ram.banks, ram.recs, ram.loaded>>
  BY <1>1 DEF LoadApp, RamTyped
<1>4. ~Overlaying'
  <2>1. PICK n \in Apps : \/ todo' = Tried("app", n, AppBank, 0, AppMax, "app")
                          \/ todo' = todo /\ todo.pc = "menu"
    BY DEF LoadApp
  <2>2. Tried("app", n, AppBank, 0, AppMax, "app").job = "app"
        /\ Tried("app", n, AppBank, 0, AppMax, "app").pc = "identify"
    BY DEF Tried, Load
  <2>3. "menu" \notin Loads
    BY DEF Loads, Identify, Placing, Reading
  <2> QED
    BY <2>1, <2>2, <2>3 DEF Overlaying, Loading
<1> QED
  BY <1>2, <1>3, <1>4, MenuKeeps

LEMMA AppReturnsKeeps ==
  ASSUME DInv, OInv, AppReturns
  PROVE  OInv'
<1>1. RamTyped /\ StoreTyped /\ todo' = Menu
  BY DEF DInv, Typed, AppReturns
<1>2. PICK res : ram' = [TryEnds EXCEPT !.result = res] /\ store' = Saved(TryEnds)
  BY DEF AppReturns
<1>3. UNCHANGED <<ram.path, ram.banks, ram.recs, ram.loaded>>
  BY <1>1, <1>2 DEF RamTyped, TryEnds
<1>4. UNCHANGED <<store.reu, store.free, store.cut>>
  BY <1>1, <1>2 DEF StoreTyped, Saved
<1> QED
  BY <1>1, <1>3, <1>4, MenuIdle, MenuKeeps

LEMMA RunProgramKeeps ==
  ASSUME DInv, OInv, RunProgram
  PROVE  OInv'
<1>1. RamTyped /\ StoreTyped /\ todo' = todo /\ todo.pc = "menu"
  BY DEF DInv, Typed, RunProgram
<1>2. UNCHANGED <<ram.path, ram.banks, ram.recs, ram.loaded>>
  BY <1>1 DEF RunProgram, Resumed, RamTyped
<1>3. UNCHANGED <<store.reu, store.free, store.cut>>
  BY <1>1 DEF RunProgram, StoreTyped
<1>4. ~Overlaying'
  BY <1>1 DEF Overlaying, Loading, Loads, Identify, Placing, Reading
<1> QED
  BY <1>2, <1>3, <1>4, MenuKeeps

LEMMA ResourcesDoneKeeps ==
  ASSUME DInv, OInv, ResourcesDone
  PROVE  OInv'
<1>1. /\ RamTyped /\ StoreTyped /\ todo' = Menu /\ store' = store
      /\ todo.pc = "entry" /\ todo.at = Len(todo.line) + 1
      /\ ram' = [ram EXCEPT !.loaded = Len(todo.line) = OVERLAYS]
  BY DEF DInv, Typed, ResourcesDone
<1>2. UNCHANGED <<ram.path, ram.banks, ram.recs>>
      /\ (ram'.loaded <=> Len(todo.line) = OVERLAYS)
  BY <1>1 DEF RamTyped
<1>3. BanksApart'
  BY <1>1, <1>2, BanksStay
<1>4. SUFFICES ASSUME ~store.cut, RecsOK
               PROVE  RecsOK' /\ SlotOK'
  BY <1>1, <1>3 DEF OInv
<1>5. ~Overlaying' /\ SlotOK'
  BY <1>1, MenuIdle DEF SlotOK, Overlaying
<1>6. AllPlaced(store.reu, ram.recs) /\ todo.at = Len(ram.recs) + 1
  BY <1>1, <1>4 DEF RecsOK, Overlaying
<1>7. AllPlaced(store.reu, ram.recs)'
  BY <1>1, <1>2, <1>6, SamePath DEF AllPlaced
<1>8. Len(ram.recs) \in Nat /\ Len(todo.line) \in Nat
  <2>1. ram.recs \in Seq([num : Nat, name : Texts, bank : Nat, off : Nat, len : Nat])
    BY <1>1 DEF RamTyped
  <2> QED
    BY <1>1, <1>6, <2>1
<1>9. Len(ram.recs)' = OVERLAYS \/ ~ram'.loaded
  BY <1>1, <1>2, <1>6, <1>8
<1> QED
  BY <1>5, <1>7, <1>9 DEF RecsOK

LEMMA LoadResourcesKeeps ==
  ASSUME DmaAssumption, DInv, OInv, LoadResources
  PROVE  OInv'
<1>1. RamTyped /\ StoreTyped /\ todo.pc = "menu"
  BY DEF DInv, Typed, LoadResources
<1>2. PICK line \in DepLines :
        /\ ram' = [ram EXCEPT !.recs = <<>>, !.loaded = FALSE]
        /\ \/ todo' = todo
           \/ todo' = [Load("overlay") EXCEPT !.pc = "entry", !.line = line]
  BY DEF LoadResources
<1>3. UNCHANGED <<store.reu, store.free, store.cut>>
  BY <1>1 DEF LoadResources, StoreTyped
<1>4. ram'.recs = <<>> /\ ~ram'.loaded /\ ram'.banks = ram.banks
  BY <1>1, <1>2 DEF RamTyped
<1>5. BanksApart'
  BY <1>3, <1>4, BanksStay
<1>6. Len(ram'.recs) = 0 /\ 1 .. Len(ram'.recs) = {}
  BY <1>4
<1>7. CASE todo' = todo
  <2>1. ~Overlaying'
    BY <1>1, <1>7 DEF Overlaying, Loading, Loads, Identify, Placing, Reading
  <2>2. RecsOK' /\ SlotOK'
    BY <1>4, <2>1 DEF RecsOK, SlotOK, Overlaying
  <2> QED
    BY <1>5, <2>2 DEF OInv
<1>8. CASE todo' = [Load("overlay") EXCEPT !.pc = "entry", !.line = line]
  <2>1. todo'.pc = "entry" /\ todo'.line = line /\ todo'.at = 1
    BY <1>8 DEF Load
  <2>2. SlotOK'
    BY <2>1 DEF SlotOK, Loading, Loads, Identify, Placing, Reading
  <2>3. AllPlaced(store.reu, ram.recs)'
    BY <1>6 DEF AllPlaced
  <2>4. line \in Seq(Line \cup {Bad}) /\ Len(line) \in Nat
    BY DEF DmaAssumption
  <2>5. RecsOK'
    BY <1>4, <1>6, <2>1, <2>3, <2>4 DEF RecsOK
  <2> QED
    BY <1>5, <2>2, <2>5 DEF OInv
<1> QED
  BY <1>2, <1>7, <1>8

\* What is known while the entries of a line are loaded
Underway ==
  /\ ~ram.loaded /\ todo.line \in DepLines /\ todo.at = Len(ram.recs) + 1
  /\ todo.at <= Len(todo.line) + 1
  /\ \A i \in 1 .. Len(ram.recs) : OfEntry(ram.banks, ram.recs[i], todo.line[i])
  /\ Len(ram.recs) \in Nat

LEMMA UnderwayNow ==
  ASSUME DInv, OInv, ~store.cut, Overlaying
  PROVE  /\ Underway /\ AllPlaced(store.reu, ram.recs) /\ BanksApart
         /\ todo \in JobType /\ RamTyped /\ StoreTyped
<1>1. RamTyped /\ StoreTyped
  BY DEF DInv, Typed
<1>2. ram.recs \in Seq([num : Nat, name : Texts, bank : Nat, off : Nat, len : Nat])
  BY <1>1 DEF RamTyped
<1>3. todo \in JobType
  BY LoadTyped DEF Overlaying, Loading
<1> QED
  BY <1>1, <1>2, <1>3 DEF OInv, RecsOK, Underway

\* A load of resources that ends before its last entry leaves nothing loaded.
LEMMA GivenUp ==
  ASSUME BanksApart', todo' = Menu, ~ram'.loaded
  PROVE  OInv'
<1>1. ~Overlaying'
  BY MenuIdle
<1> QED
  BY <1>1 DEF OInv, RecsOK, SlotOK, Overlaying

\* The entry's slot is inside of a bank for overlays.
LEMMA EntrySlot ==
  ASSUME DmaAssumption, SlotsApart, DInv, BanksApart, AtEntry
  PROVE  /\ ram.banks[Entry.ord] \in DOMAIN store.reu
         /\ ram.banks[Entry.ord] # AppBank /\ Entry.off \in Nat
         /\ Entry.off + Slot <= BankSize /\ Entry.ord \in 0 .. 2
<1>1. todo.line \in Seq(Line \cup {Bad}) /\ todo.at \in DOMAIN todo.line
  BY DEF AtEntry, DmaAssumption
<1>2. Entry # Bad /\ Entry \in Line
  BY DEF AtEntry, DmaAssumption
<1>3. Entry.off + Slot <= BankSize
  BY <1>1, <1>2 DEF SlotsApart, AtEntry, Entry
<1>4. Entry.ord \in 0 .. 2 /\ Entry.off \in Nat
  BY <1>2 DEF Line
<1>5. ram.banks[Entry.ord] # 0
  BY DEF AtEntry
<1> QED
  BY <1>3, <1>4, <1>5 DEF BanksApart, Distinct, DInv, BanksOK

\* An entry that is in its slot gets its record.
LEMMA RecordedKeeps ==
  ASSUME DmaAssumption, SlotsApart, DInv, todo \in JobType, AtEntry, Underway, BanksApart,
         NEW len \in Nat, NEW avail, NEW ready,
         NEW r, r = [ram EXCEPT !.avail = avail, !.ready = ready], Recorded(r, len),
         BanksApart', DOMAIN store'.reu = DOMAIN store.reu,
         AllPlaced(store'.reu, ram.recs),
         SlotIs(store'.reu, ram.banks[Entry.ord], Entry.off, Entry.name, len)
  PROVE  OInv'
<1> DEFINE rec == [num |-> todo.at, name |-> Entry.name,
                   bank |-> r.banks[Entry.ord], off |-> Entry.off, len |-> len]
           recs == Append(r.recs, rec)
           T == [num : Nat, name : Texts, bank : Nat, off : Nat, len : Nat]
<1>1. RamTyped
  BY DEF DInv, Typed
<1>2. /\ r.recs = ram.recs /\ r.banks = ram.banks /\ r.path = ram.path
      /\ r.loaded = ram.loaded /\ ram.recs \in Seq(T)
  BY <1>1 DEF RamTyped
<1>3. \/ todo' = Menu /\ ram' = r
      \/ /\ ram' = [r EXCEPT !.recs = recs]
         /\ todo' = [todo EXCEPT !.pc = "entry", !.at = @ + 1]
  BY DEF Recorded
<1>4. /\ rec.num = todo.at /\ rec.name = Entry.name /\ rec.bank = ram.banks[Entry.ord]
      /\ rec.off = Entry.off /\ rec.len = len
  BY <1>2
<1>5. CASE todo' = Menu /\ ram' = r
  BY <1>2, <1>5, GivenUp DEF Underway
<1>6. CASE /\ ram' = [r EXCEPT !.recs = recs]
           /\ todo' = [todo EXCEPT !.pc = "entry", !.at = @ + 1]
  <2>1. rec \in T
    BY <1>1, <1>2, EntrySlot DEF RamTyped, AtEntry, Line, JobType
  <2>2. /\ Len(recs) = Len(ram.recs) + 1 /\ recs[Len(ram.recs) + 1] = rec
        /\ \A i \in 1 .. Len(ram.recs) : recs[i] = ram.recs[i]
    BY <1>2, <2>1
  <2> HIDE DEF rec, recs
  <2>3. /\ ram'.recs = recs /\ ram'.banks = ram.banks /\ ram'.path = ram.path
        /\ ram'.loaded = ram.loaded
    BY <1>1, <1>2, <1>6 DEF RamTyped
  <2>4. todo'.pc = "entry" /\ todo'.at = todo.at + 1 /\ todo'.line = todo.line
    BY <1>6 DEF JobType
  <2>5. Placed(store'.reu, rec)
    BY <1>4, EntrySlot DEF Placed
  <2>6. \A i \in 1 .. Len(recs) : recs[i].num = i /\ Placed(store'.reu, recs[i])
    <3> SUFFICES ASSUME NEW i \in 1 .. Len(recs)
                 PROVE  recs[i].num = i /\ Placed(store'.reu, recs[i])
      OBVIOUS
    <3>1. CASE i = Len(ram.recs) + 1
      BY <1>4, <2>2, <2>5, <3>1 DEF Underway
    <3>2. CASE i \in 1 .. Len(ram.recs)
      BY <2>2, <3>2 DEF AllPlaced
    <3> QED
      BY <2>2, <3>1, <3>2 DEF Underway
  <2>7. AllPlaced(store.reu, ram.recs)'
    BY <2>3, <2>6, SamePath DEF AllPlaced
  <2>8. OfEntry(ram.banks, rec, todo.line[todo.at])
    BY <1>4 DEF OfEntry, AtEntry, Entry
  <2>9. \A i \in 1 .. Len(recs) : OfEntry(ram.banks, recs[i], todo.line[i])
    BY <2>2, <2>8 DEF Underway
  <2>10. RecsOK'
    BY <2>2, <2>3, <2>4, <2>7, <2>9 DEF RecsOK, Underway, AtEntry
  <2>11. SlotOK'
    BY <2>4 DEF SlotOK, Loading, Loads, Identify, Placing, Reading
  <2> QED
    BY <2>10, <2>11 DEF OInv
<1> QED
  BY <1>3, <1>5, <1>6

LEMMA OverlayReturnsKeeps ==
  ASSUME DmaAssumption, SlotsApart, DInv, OInv, OverlayReturns
  PROVE  OInv'
<1> DEFINE f == TryEnds
<1>1. /\ todo.pc = "return" /\ todo.job = "overlay" /\ store' = Saved(f)
      /\ IF ram.error = "none" THEN Recorded(f, todo.left)
         ELSE ram' = f /\ todo' = Menu
  BY DEF OverlayReturns
<1>2. Loading /\ todo \in JobType /\ RamTyped /\ StoreTyped
  BY <1>1, Returned DEF DInv, Typed
<1>3. /\ f = [ram EXCEPT !.avail = f.avail, !.ready = f.ready]
      /\ f.banks = ram.banks /\ f.path = ram.path /\ f.recs = ram.recs
  BY <1>1, TryEndsOK
<1> HIDE DEF f
<1>4. f.loaded = ram.loaded
  BY <1>2, <1>3 DEF RamTyped
<1>5. UNCHANGED <<store.reu, store.free, store.cut>>
  BY <1>1, <1>2 DEF StoreTyped, Saved
<1>6. ram'.banks = ram.banks
  BY <1>1, <1>2, <1>3 DEF Recorded, RamTyped
<1>7. BanksApart'
  BY <1>5, <1>6, BanksStay
<1>8. SUFFICES ASSUME ~store.cut PROVE OInv'
  BY <1>5, <1>7 DEF OInv
<1>9. Overlaying /\ Underway /\ AllPlaced(store.reu, ram.recs) /\ BanksApart
  BY <1>1, <1>2, <1>8, UnderwayNow DEF Overlaying
<1>10. CASE ram.error # "none"
  BY <1>1, <1>4, <1>7, <1>9, <1>10, GivenUp DEF Underway
<1>11. CASE ram.error = "none"
  <2>1. AtEntry /\ todo.off = Entry.off /\ todo.left \in Nat
    BY <1>1, <1>2 DEF DInv, CallOK, JobType
  <2>2. /\ todo.name = Entry.name
        /\ SlotIs(store.reu, todo.bank, todo.off, todo.name, todo.left)
    BY <1>1, <1>2, <1>8, <1>11 DEF OInv, SlotOK, Loaded
  <2>3. SlotIs(store'.reu, ram.banks[Entry.ord], Entry.off, Entry.name, todo.left)
    BY <1>5, <2>1, <2>2 DEF AtEntry
  <2>4. AllPlaced(store'.reu, ram.recs) /\ DOMAIN store'.reu = DOMAIN store.reu
    BY <1>5, <1>9
  <2>5. Recorded(f, todo.left)
    BY <1>1, <1>11
  <2> QED
    BY <1>2, <1>3, <1>7, <1>9, <2>1, <2>3, <2>4, <2>5, RecordedKeeps
<1> QED
  BY <1>10, <1>11

\* A file from the drive is in the entry's slot, and the other slots are left.
LEMMA StreamedHas ==
  ASSUME DmaAssumption, SlotsApart, DInv, BanksApart, AtEntry, Underway,
         NEW f \in PrgFile, NEW n \in 0 .. Slot
  PROVE  /\ SlotHas(Streamed(f, n), todo.bank, Entry.off, f.from, n)
         /\ \A i \in 1 .. Len(ram.recs) :
              SlotSame(store.reu, Streamed(f, n), ram.recs[i].bank, ram.recs[i].off)
<1> DEFINE D == DOMAIN store.reu
           S == 1 .. Slot
           zeros == [i \in 1 .. Slot |-> Zero]
           what == Payload(f, 0, n)
           bank == todo.bank
           off == Entry.off
           l == todo.line
           k == todo.at
           banks == ram.banks
           recs == ram.recs
           cleared == Written(store.reu, bank, off, zeros)
           reu == Written(cleared, bank, off, what)
<1>1. /\ zeros \in [S -> Cells] /\ what \in [1 .. n -> Cells]
      /\ BankSize \in Nat /\ Slot \in Nat /\ Slot \in 0 .. Slot
  BY ZerosTyped, PayloadTyped DEF DmaAssumption
<1>2. /\ bank \in D /\ off \in Nat /\ off + Slot <= BankSize
  BY EntrySlot DEF AtEntry
<1>3. store.reu \in Memory(D)
  BY MemoryNow
<1>4. /\ l \in DepLines /\ k \in 1 .. Len(l) /\ k = Len(recs) + 1
      /\ l[k] \in Line /\ banks[l[k].ord] # 0 /\ Distinct(banks, D)
      /\ bank = banks[l[k].ord] /\ off = l[k].off /\ Len(recs) \in Nat
      /\ \A i \in 1 .. Len(recs) : OfEntry(banks, recs[i], l[i])
  BY DEF AtEntry, Entry, BanksApart, Underway
<1>5. Streamed(f, n) = reu /\ cleared = Zeroed(store.reu, bank, off)
  BY DEF Streamed, Zeroed
<1>6. SlotHas(cleared, bank, off, "zero", 0)
  BY <1>1, <1>2, <1>3, <1>5, ZeroedHas
<1> HIDE DEF D, zeros, what, bank, off, l, k, banks, recs, cleared, S
<1>7. cleared \in Memory(D)
  BY <1>1, <1>2, <1>3, WrittenTyped DEF cleared
<1>8. SlotHas(reu, bank, off, f.from, n)
  BY <1>1, <1>2, <1>6, <1>7, LoadedHas DEF what
<1>9. \A i \in 1 .. Len(recs) : SlotSame(store.reu, cleared, recs[i].bank, recs[i].off)
  <2> DEFINE m == Slot
  <2>1. m \in 0 .. Slot /\ zeros \in [1 .. m -> Cells]
    BY <1>1 DEF S
  <2> HIDE DEF m
  <2> QED
    BY <1>3, <1>4, <2>1, RecordsSpared DEF cleared
<1>10. \A i \in 1 .. Len(recs) : SlotSame(cleared, reu, recs[i].bank, recs[i].off)
  BY <1>1, <1>4, <1>7, RecordsSpared
<1>11. \A i \in 1 .. Len(recs) : SlotSame(store.reu, reu, recs[i].bank, recs[i].off)
  BY <1>9, <1>10 DEF SlotSame
<1> QED
  BY <1>5, <1>8, <1>11 DEF bank, off, recs

LEMMA StreamKeeps ==
  ASSUME DmaAssumption, SlotsApart, DInv, OInv, Stream
  PROVE  OInv'
<1>1. /\ todo.pc = "stream" /\ AtEntry /\ todo \in JobType /\ RamTyped /\ StoreTyped
      /\ Overlaying
  BY LoadTyped DEF Stream, DInv, Typed, CallOK, Overlaying
<1>2. CASE todo' = Menu /\ ram' = ram /\ store' = store
  BY <1>2, MenuIdle, MenuKeeps
<1>3. CASE Entry.name \in DOMAIN Disk
  <2> DEFINE f == Disk[Entry.name]
             fits == IF f.len < Slot THEN f.len ELSE Slot
             D == DOMAIN store.reu
  <2>1. f \in PrgFile /\ f.len \in Nat /\ Slot \in Nat
    BY <1>3 DEF DmaAssumption, PrgFile
  <2>2. fits \in 0 .. Slot /\ fits = Fit(f.len) /\ (~(f.len > Slot) => fits = f.len)
    BY <2>1 DEF Fit
  <2>3. f \in Origins(Entry.name)
    BY <1>3 DEF Origins
  <2>4. \/ todo' = Menu /\ ram' = ram /\ store' = store
        \/ /\ store' = [store EXCEPT !.reu = Streamed(f, fits)]
           /\ \/ todo' = Menu /\ ram' = ram
              \/ ~(f.len > Slot) /\ Recorded(ram, f.len)
        \/ \E n \in 0 .. fits :
             /\ store' = [store EXCEPT !.reu = Streamed(f, n), !.cut = TRUE,
                                       !.faults = @ + 1]
             /\ (todo' = Menu /\ ram' = ram) \/ Recorded(ram, n)
    BY <1>3 DEF Stream
  <2> HIDE DEF f, fits
  <2>5. /\ \A n \in 0 .. Slot : DOMAIN Streamed(f, n) = D
        /\ \A n \in 0 .. fits : n \in 0 .. Slot
    <3>1. ASSUME NEW n \in 0 .. Slot PROVE DOMAIN Streamed(f, n) = D
      <4>1. n \in Nat /\ n <= Slot
        BY <2>1
      <4>2. Streamed(f, n) \in Memory(D)
        BY <1>1, <2>1, <4>1, StreamedOK
      <4> QED
        BY <4>2 DEF Memory
    <3> QED
      BY <2>1, <2>2, <3>1
  <2>6. ram'.banks = ram.banks
    BY <1>1, <2>4 DEF Recorded, RamTyped
  <2>7. UNCHANGED <<store.free, DOMAIN store.reu>>
    <3>1. CASE store' = [store EXCEPT !.reu = Streamed(f, fits)]
      BY <1>1, <2>2, <2>5, <3>1 DEF StoreTyped
    <3>2. ASSUME NEW n \in 0 .. fits,
                 store' = [store EXCEPT !.reu = Streamed(f, n), !.cut = TRUE,
                                        !.faults = @ + 1]
          PROVE  UNCHANGED <<store.free, DOMAIN store.reu>>
      <4>1. store'.reu = Streamed(f, n) /\ store'.free = store.free
        BY <1>1, <3>2 DEF StoreTyped
      <4> QED
        BY <2>5, <4>1
    <3> QED
      BY <2>4, <3>1, <3>2
  <2>8. BanksApart'
    BY <2>6, <2>7, BanksStay
  <2>9. CASE /\ store' = [store EXCEPT !.reu = Streamed(f, fits)]
             /\ \/ todo' = Menu /\ ram' = ram
                \/ ~(f.len > Slot) /\ Recorded(ram, f.len)
    <3>1. store'.reu = Streamed(f, fits) /\ store'.cut = store.cut
      BY <1>1, <2>9 DEF StoreTyped
    <3>2. SUFFICES ASSUME ~store.cut PROVE OInv'
      BY <2>8, <3>1 DEF OInv
    <3>3. Underway /\ AllPlaced(store.reu, ram.recs) /\ BanksApart
      BY <1>1, <3>2, UnderwayNow
    <3>4. CASE todo' = Menu /\ ram' = ram
      BY <2>8, <3>3, <3>4, GivenUp DEF Underway
    <3>5. CASE ~(f.len > Slot) /\ Recorded(ram, f.len)
      <4>1. /\ SlotHas(store'.reu, todo.bank, Entry.off, f.from, fits)
            /\ \A i \in 1 .. Len(ram.recs) :
                 SlotSame(store.reu, store'.reu, ram.recs[i].bank, ram.recs[i].off)
        BY <1>1, <2>1, <2>2, <3>1, <3>3, StreamedHas
      <4>2. AllPlaced(store'.reu, ram.recs)
        <5>1. ram'.path = ram.path
          BY <1>1, <3>5 DEF Recorded, RamTyped
        <5> QED
          BY <2>7, <3>3, <4>1, <5>1, AllPlacedKept
      <4>3. SlotIs(store'.reu, ram.banks[Entry.ord], Entry.off, Entry.name, f.len)
        BY <1>1, <2>1, <2>2, <2>3, <3>5, <4>1 DEF SlotIs, AtEntry
      <4>4. ram = [ram EXCEPT !.avail = ram.avail, !.ready = ram.ready]
        BY <1>1 DEF RamTyped
      <4> QED
        BY <1>1, <2>1, <2>7, <2>8, <3>3, <3>5, <4>2, <4>3, <4>4, RecordedKeeps
    <3> QED
      BY <2>9, <3>4, <3>5
  <2>10. CASE \E n \in 0 .. fits :
                store' = [store EXCEPT !.reu = Streamed(f, n), !.cut = TRUE,
                                       !.faults = @ + 1]
    <3>1. store'.cut
      BY <1>1, <2>10 DEF StoreTyped
    <3> QED
      BY <2>8, <3>1 DEF OInv
  <2> QED
    BY <1>2, <2>4, <2>9, <2>10
<1>4. CASE Entry.name \notin DOMAIN Disk
  BY <1>2, <1>4 DEF Stream
<1> QED
  BY <1>3, <1>4

\* The bank for an entry is the one given before, or a free one.
LEMMA BankGiven ==
  ASSUME DInv, BanksApart, NEW o \in 0 .. 2, NEW b, b = BankFor(o),
         ram'.banks = [ram.banks EXCEPT ![o] = b], store'.free = store.free \ {b},
         DOMAIN store'.reu = DOMAIN store.reu
  PROVE  /\ BanksApart' /\ ram.banks[o] \in {0, b}
         /\ b # 0 => b \in DOMAIN store.reu /\ b # AppBank
<1>1. /\ store.free \subseteq Nat \ {0, AppBank} /\ ram.banks \in [0 .. 2 -> Nat]
      /\ b \in Nat \ {AppBank} /\ ram.banks[o] \in {0, b}
  BY BankForOK DEF DInv, BanksOK, Typed, RamTyped
<1>2. \/ b = 0 /\ ram.banks[o] = 0
      \/ b # 0 /\ b = ram.banks[o]
      \/ b \in store.free /\ ram.banks[o] = 0
  <2>1. CASE ram.banks[o] # 0
    BY <1>1, <2>1
  <2>2. CASE ram.banks[o] = 0 /\ store.free # {}
    <3>1. \E c \in store.free : \A e \in store.free : c <= e
      BY <1>1, <2>2, LeastOf
    <3> QED
      BY <2>2, <3>1 DEF BankFor
  <2>3. CASE ram.banks[o] = 0 /\ store.free = {}
    BY <2>3 DEF BankFor
  <2> QED
    BY <2>1, <2>2, <2>3
<1>3. /\ ram'.banks[o] = b /\ \A p \in (0 .. 2) \ {o} : ram'.banks[p] = ram.banks[p]
  BY <1>1
<1>4. \A p \in (0 .. 2) \ {o} : b # 0 => ram.banks[p] # b
  BY <1>1, <1>2 DEF BanksApart, Distinct
<1>5. b # 0 => b \in DOMAIN store.reu
  BY <1>2 DEF BanksApart, Distinct
<1>6. Distinct(ram'.banks, DOMAIN store'.reu)
  BY <1>3, <1>4, <1>5 DEF BanksApart, Distinct
<1>7. \A p \in 0 .. 2 : ram'.banks[p] \notin store'.free
  BY <1>3 DEF BanksApart
<1>8. store'.free \subseteq DOMAIN store'.reu
  BY DEF BanksApart
<1> QED
  BY <1>1, <1>5, <1>6, <1>7, <1>8 DEF BanksApart

LEMMA StartEntryKeeps ==
  ASSUME DmaAssumption, SlotsApart, DInv, OInv, StartEntry
  PROVE  OInv'
<1>1. /\ todo.pc = "entry" /\ todo \in JobType /\ todo.at <= Len(todo.line)
      /\ RamTyped /\ StoreTyped /\ Overlaying
  BY LoadTyped DEF StartEntry, DInv, Typed, Overlaying
<1>2. CASE Entry = Bad
  BY <1>2, MenuIdle, MenuKeeps DEF StartEntry
<1>3. CASE Entry # Bad
  <2> DEFINE o == Entry.ord
             b == BankFor(o)
             clear == b # 0 /\ Available(ram)
             zeros == [i \in 1 .. Slot |-> Zero]
             D == DOMAIN store.reu
             S == 1 .. Slot
             off == Entry.off
  <2>1. /\ todo.line \in DepLines /\ todo.at \in 1 .. Len(todo.line)
        /\ Entry \in Line
    BY <1>1, <1>3, EntryTyped
  <2>2. o \in 0 .. 2 /\ off \in Nat /\ Entry.name \in Texts
    BY <2>1 DEF Line
  <2>3. /\ ram' = [ram EXCEPT !.banks[o] = b]
        /\ store' = [store EXCEPT !.free = @ \ {b},
             !.reu = IF clear THEN Zeroed(@, b, off) ELSE @]
        /\ todo' = IF b = 0 THEN Menu
                   ELSE IF ~Available(ram)
                   THEN [todo EXCEPT !.pc = "stream", !.bank = b]
                   ELSE [Tried("overlay", Entry.name, b, off, Slot, "overlay")
                         EXCEPT !.line = todo.line, !.at = todo.at]
    BY <1>3 DEF StartEntry
  <2>4. zeros \in [S -> Cells] /\ BankSize \in Nat /\ Slot \in Nat
    BY ZerosTyped DEF DmaAssumption
  <2>5. b = BankFor(o) /\ store.reu \in Memory(D)
    BY MemoryNow
  <2> HIDE DEF b, clear, zeros, D, S
  <2>6. /\ ram'.banks = [ram.banks EXCEPT ![o] = b]
        /\ UNCHANGED <<ram.path, ram.recs, ram.loaded>>
    BY <1>1, <2>2, <2>3 DEF RamTyped
  <2>7. /\ store'.free = store.free \ {b} /\ store'.cut = store.cut
        /\ store'.reu = IF clear THEN Written(store.reu, b, off, zeros) ELSE store.reu
    BY <1>1, <2>3 DEF StoreTyped, Zeroed, zeros
  <2>8. store'.reu \in Memory(D)
    BY <2>2, <2>4, <2>5, <2>7, WrittenTyped
  <2>9. DOMAIN store'.reu = DOMAIN store.reu
    BY <2>8 DEF Memory, D
  <2>10. /\ BanksApart' /\ ram.banks[o] \in {0, b}
         /\ b # 0 => b \in D /\ b # AppBank
    <3>1. BanksApart
      BY DEF OInv
    <3> QED
      BY <2>2, <2>5, <2>6, <2>7, <2>9, <3>1, BankGiven DEF D
  <2>11. SUFFICES ASSUME ~store.cut PROVE RecsOK' /\ SlotOK'
    BY <2>7, <2>10 DEF OInv
  <2>12. Underway /\ AllPlaced(store.reu, ram.recs)
    BY <1>1, <2>11, UnderwayNow
  <2>13. CASE b = 0
    <3>1. OInv'
      BY <2>3, <2>6, <2>10, <2>12, <2>13, GivenUp DEF Underway
    <3> QED
      BY <2>7, <2>11, <3>1 DEF OInv
  <2>14. CASE b # 0
    <3> DEFINE l == todo.line
               k == todo.at
               banks == ram'.banks
               recs == ram.recs
    <3>1. /\ l \in DepLines /\ k \in 1 .. Len(l) /\ k = Len(recs) + 1
          /\ l[k] \in Line /\ banks[l[k].ord] # 0 /\ Len(recs) \in Nat
          /\ banks[l[k].ord] = b /\ l[k].off = off /\ Distinct(banks, D)
      BY <1>1, <2>1, <2>2, <2>6, <2>9, <2>10, <2>12, <2>14
         DEF Underway, Entry, BanksApart, RamTyped, D
    <3>2. \A i \in 1 .. Len(recs) : OfEntry(banks, recs[i], l[i])
      BY <1>1, <2>2, <2>6, <2>10, <2>12 DEF Underway, OfEntry, RamTyped, Line
    <3>3. \A i \in 1 .. Len(recs) :
            SlotSame(store.reu, store'.reu, recs[i].bank, recs[i].off)
      <4> DEFINE n == Slot
      <4>1. n \in 0 .. Slot /\ zeros \in [1 .. n -> Cells]
        BY <2>4 DEF S
      <4> HIDE DEF n, l, k, banks, recs
      <4>2. \A i \in 1 .. Len(recs) :
              SlotSame(store.reu, Written(store.reu, b, off, zeros),
                       recs[i].bank, recs[i].off)
        <5>1. \A i \in 1 .. Len(recs) :
                SlotSame(store.reu, Written(store.reu, banks[l[k].ord], l[k].off, zeros),
                         recs[i].bank, recs[i].off)
          BY <2>5, <3>1, <3>2, <4>1, RecordsSpared
        <5> QED
          BY <3>1, <5>1
      <4> QED
        BY <2>7, <4>2 DEF SlotSame
    <3>4. AllPlaced(store.reu, ram.recs)'
      <4>1. AllPlaced(store'.reu, ram.recs)
        BY <2>6, <2>9, <2>12, <3>3, AllPlacedKept
      <4> QED
        BY <2>6, <4>1, SamePath DEF AllPlaced
    <3>5. CASE ~Available(ram)
      <4>1. todo' = [todo EXCEPT !.pc = "stream", !.bank = b]
        BY <2>3, <2>14, <3>5
      <4>2. todo'.pc = "stream" /\ todo'.line = todo.line /\ todo'.at = todo.at
        BY <1>1, <4>1 DEF JobType
      <4>3. SlotOK'
        BY <4>2 DEF SlotOK, Loading, Loads, Identify, Placing, Reading
      <4>4. RecsOK'
        BY <2>6, <2>12, <3>2, <3>4, <4>2 DEF RecsOK, Underway
      <4> QED
        BY <4>3, <4>4
    <3>6. CASE Available(ram)
      <4> DEFINE t == Tried("overlay", Entry.name, b, off, Slot, "overlay")
      <4>1. todo' = [t EXCEPT !.line = todo.line, !.at = todo.at]
        BY <2>3, <2>14, <3>6
      <4>2. /\ todo'.pc = "identify" /\ todo'.line = todo.line /\ todo'.at = todo.at
            /\ todo'.name = Entry.name /\ todo'.bank = b /\ todo'.off = off
        BY <4>1 DEF Tried, Load
      <4>3. Entry' = Entry
        BY <4>2 DEF Entry
      <4>4. off + Slot <= BankSize
        <5>1. l \in Seq(Line \cup {Bad}) /\ k \in DOMAIN l /\ l[k] = Entry /\ Entry # Bad
          BY <1>3, <2>1 DEF DmaAssumption, Entry
        <5> QED
          BY <2>1, <5>1 DEF SlotsApart
      <4>5. SlotHas(store'.reu, b, off, "zero", 0)
        <5>1. store'.reu = Zeroed(store.reu, b, off)
          BY <2>7, <2>14, <3>6 DEF clear, Zeroed, zeros
        <5> QED
          BY <2>2, <2>4, <2>5, <2>10, <2>14, <4>4, <5>1, ZeroedHas
      <4>6. SlotOK'
        <5>1. ~Loaded'
          BY <4>2 DEF Loaded
        <5>2. SlotHas(store.reu, todo.bank, todo.off, "zero", 0)'
          BY <4>2, <4>5 DEF SlotHas, Zero
        <5> QED
          BY <4>2, <4>3, <5>1, <5>2 DEF SlotOK
      <4>7. RecsOK'
        BY <2>6, <2>12, <3>2, <3>4, <4>2 DEF RecsOK, Underway
      <4> QED
        BY <4>6, <4>7
    <3> QED
      BY <3>5, <3>6
  <2> QED
    BY <2>13, <2>14
<1> QED
  BY <1>2, <1>3

LEMMA OverlaysInit ==
  ASSUME DmaAssumption, Init
  PROVE  OInv
<1>1. ram.banks = [o \in 0 .. 2 |-> 0] /\ ~ram.loaded /\ todo = [pc |-> "probe"]
  BY DEF Init, Menu
<1>2. PICK free \in Banks :
        store.free = free /\ DOMAIN store.reu = free \cup {AppBank}
  BY DEF Init
<1>3. 0 \notin store.free /\ store.free \subseteq DOMAIN store.reu
  BY <1>2 DEF DmaAssumption
<1>4. \A o \in 0 .. 2 : ram.banks[o] = 0
  BY <1>1
<1>5. BanksApart
  BY <1>3, <1>4 DEF BanksApart, Distinct
<1>6. ~Overlaying
  BY <1>1 DEF Overlaying, Loading, Loads, Identify, Placing, Reading
<1> QED
  BY <1>1, <1>5, <1>6 DEF OInv, RecsOK, SlotOK, Overlaying

LEMMA OverlaysStep ==
  ASSUME DmaAssumption, SlotsApart, DInv, OInv, [Next]_vars
  PROVE  OInv'
<1>1. CASE UNCHANGED vars
  <2>1. ram' = ram /\ store' = store /\ todo' = todo
    BY <1>1 DEF vars
  <2>2. BanksApart'
    BY <2>1, BanksStay
  <2>3. SUFFICES ASSUME ~store.cut, RecsOK, SlotOK
                 PROVE  RecsOK' /\ SlotOK'
    BY <2>1, <2>2 DEF OInv
  <2>4. /\ AllPlaced(store.reu, ram.recs)' <=> AllPlaced(store.reu, ram.recs)
        /\ SlotIs(store.reu, todo.bank, todo.off, todo.name, todo.left)'
             <=> SlotIs(store.reu, todo.bank, todo.off, todo.name, todo.left)
    BY <2>1, SamePath DEF AllPlaced
  <2>5. /\ Overlaying' <=> Overlaying
        /\ Loading' <=> Loading
        /\ Loaded' <=> Loaded
        /\ Entry' = Entry
    BY <2>1 DEF Overlaying, Loading, Loaded, Entry
  <2>6. RecsOK'
    BY <2>1, <2>3, <2>4, <2>5 DEF RecsOK, OfEntry
  <2>7. SlotOK'
    BY <2>1, <2>3, <2>4, <2>5 DEF SlotOK, SlotHas, Zero
  <2> QED
    BY <2>6, <2>7
<1> QED
  BY <1>1, ProbeKeeps, ProbeReturnsKeeps, LoadAppKeeps, AppReturnsKeeps,
     LoadResourcesKeeps, StartEntryKeeps, OverlayReturnsKeeps, StreamKeeps,
     ResourcesDoneKeeps, RunProgramKeeps, CommandKeeps, PathCommandKeeps,
     ImageCommandKeeps, MountedKeeps, OpenCommandKeeps, InfoCommandKeeps,
     HeaderCommandKeeps, LoadCommandKeeps, CloseCommandKeeps
     DEF Next

\* The bytes of a slot, as a sequence
SlotBytes(f, n) == Payload(f, 0, n) \o [j \in 1 .. Slot - n |-> Zero]

LEMMA SlotRegion ==
  ASSUME BankSize \in Nat, Slot \in Nat, DInv, NEW bank \in DOMAIN store.reu,
         NEW off \in Nat, off + Slot <= BankSize, NEW f \in PrgFile, NEW n \in 0 .. Slot,
         SlotHas(store.reu, bank, off, f.from, n)
  PROVE  Region(bank, off, Slot) = SlotBytes(f, n)
<1> DEFINE what == Payload(f, 0, n)
           zeros == [j \in 1 .. Slot - n |-> Zero]
           mem == store.reu[bank]
           both == what \o zeros
<1>1. Zero \in Cells
  BY DEF Zero, Cells, Texts
<1>2. what \in [1 .. n -> Cells] /\ \A j \in 1 .. n : what[j] = <<f.from, j>>
  BY PayloadTyped DEF Payload
<1>3. mem \in [1 .. BankSize -> Cells]
  BY MemoryNow DEF Memory
<1> DEFINE zero == Zero
           z == [j \in 1 .. Slot - n |-> zero]
<1>4. /\ zeros \in [1 .. Slot - n -> Cells] /\ \A j \in 1 .. Slot - n : zeros[j] = Zero
  <2>1. zero \in Cells
    BY <1>1
  <2> HIDE DEF zero
  <2>2. z \in [1 .. Slot - n -> Cells] /\ \A j \in 1 .. Slot - n : z[j] = zero
    BY <2>1
  <2> QED
    BY <2>2 DEF zero
<1>5. \A j \in 1 .. Slot : mem[off + j] = IF j <= n THEN <<f.from, j>> ELSE Zero
  BY DEF SlotHas
<1> HIDE DEF what, zeros, mem, zero, z
<1>6. what \in Seq(Cells) /\ Len(what) = n /\ zeros \in Seq(Cells) /\ Len(zeros) = Slot - n
  BY <1>2, <1>4
<1>7. /\ both \in Seq(Cells) /\ Len(both) = Slot
      /\ \A j \in 1 .. Slot : both[j] = IF j <= n THEN what[j] ELSE zeros[j - n]
  BY <1>6
<1>8. \A j \in 1 .. Slot : both[j] = mem[off + j]
  <2> SUFFICES ASSUME NEW j \in 1 .. Slot PROVE both[j] = mem[off + j]
    OBVIOUS
  <2>1. CASE j <= n
    <3>1. j \in 1 .. n
      BY <2>1
    <3>2. what[j] = <<f.from, j>> /\ both[j] = what[j]
      BY <1>2, <1>7, <2>1, <3>1
    <3>3. mem[off + j] = <<f.from, j>>
      BY <1>5, <2>1
    <3> QED
      BY <3>2, <3>3
  <2>2. CASE ~(j <= n)
    <3>1. j - n \in 1 .. Slot - n
      BY <2>2
    <3> QED
      BY <1>4, <1>5, <1>7, <2>2, <3>1
  <2> QED
    BY <2>1, <2>2
<1> HIDE DEF both
<1> DEFINE s == SubSeq(mem, off + 1, off + Slot)
<1>9. s \in Seq(Cells) /\ Len(s) = Slot /\ \A j \in 1 .. Slot : s[j] = mem[off + j]
  BY <1>3
<1> HIDE DEF s
<1>10. s = both
  <2>1. Len(s) = Len(both) /\ s \in Seq(Cells) /\ both \in Seq(Cells)
    BY <1>7, <1>9
  <2>2. \A j \in 1 .. Len(s) : s[j] = both[j]
    BY <1>8, <1>9
  <2> QED
    BY <2>1, <2>2, SeqEqual
<1> QED
  BY <1>10 DEF s, both, what, zeros, mem, Region, SlotBytes

\* When ReadyShell's resources are marked as loaded, each overlay is in its slot,
\* in the order of the line, whole or as much of it as a slot takes and zeros after
\* it, whether it came over the DMA or from the drive; unless a cut-off load was
\* refused or the drive failed, which the launcher does not notice.
THEOREM DmaOverlaysWhole ==
  ASSUME DmaAssumption, SlotsApart
  PROVE  Spec => []OverlaysWhole
<1>1. Init => OInv
  BY OverlaysInit
<1>2. DInv /\ OInv /\ [Next]_vars => OInv'
  BY OverlaysStep
<1>3. DInv /\ OInv => OverlaysWhole
  <2> SUFFICES ASSUME DInv, OInv, ram.loaded, ~store.cut
               PROVE  /\ Len(ram.recs) = OVERLAYS
                      /\ \A i \in DOMAIN ram.recs :
                           LET r == ram.recs[i]
                           IN \E f \in Origins(r.name) :
                                /\ r.num = i
                                /\ r.len = IF f.len < Slot THEN f.len ELSE Slot
                                /\ Region(r.bank, r.off, Slot) = Payload(f, 0, r.len)
                                     \o [j \in 1 .. Slot - r.len |-> Zero]
    BY DEF OverlaysWhole
  <2>1. Len(ram.recs) = OVERLAYS /\ AllPlaced(store.reu, ram.recs)
    BY DEF OInv, RecsOK
  <2> SUFFICES ASSUME NEW i \in DOMAIN ram.recs
               PROVE  LET r == ram.recs[i]
                      IN \E f \in Origins(r.name) :
                           /\ r.num = i
                           /\ r.len = IF f.len < Slot THEN f.len ELSE Slot
                           /\ Region(r.bank, r.off, Slot) = Payload(f, 0, r.len)
                                \o [j \in 1 .. Slot - r.len |-> Zero]
    BY <2>1
  <2>2. ram.recs \in Seq([num : Nat, name : Texts, bank : Nat, off : Nat, len : Nat])
    BY DEF DInv, Typed, RamTyped
  <2> DEFINE bank == ram.recs[i].bank
             off == ram.recs[i].off
             name == ram.recs[i].name
             n == ram.recs[i].len
  <2>3. /\ ram.recs[i].num = i /\ off \in Nat /\ Slot \in Nat /\ BankSize \in Nat
        /\ bank \in DOMAIN store.reu /\ off + Slot <= BankSize
        /\ SlotIs(store.reu, bank, off, name, n)
    <3> DEFINE T == [num : Nat, name : Texts, bank : Nat, off : Nat, len : Nat]
    <3>1. i \in 1 .. Len(ram.recs) /\ off \in Nat
      <4>1. ram.recs \in Seq(T)
        BY <2>2
      <4> HIDE DEF T
      <4>2. i \in 1 .. Len(ram.recs) /\ ram.recs[i] \in T
        BY <4>1
      <4> QED
        BY <4>2 DEF T
    <3>2. ram.recs[i].num = i /\ Placed(store.reu, ram.recs[i])
      BY <2>1, <3>1 DEF AllPlaced
    <3> QED
      BY <3>1, <3>2 DEF Placed, DmaAssumption
  <2>4. PICK f \in Origins(name) :
          f \in PrgFile /\ n = Fit(f.len) /\ SlotHas(store.reu, bank, off, f.from, n)
    BY <2>3 DEF SlotIs
  <2>5. n \in 0 .. Slot
    BY <2>3, <2>4 DEF Fit, PrgFile
  <2> HIDE DEF bank, off, name, n
  <2>6. Region(bank, off, Slot) = SlotBytes(f, n)
    BY <2>3, <2>4, <2>5, SlotRegion
  <2> QED
    BY <2>3, <2>4, <2>6 DEF bank, off, name, n, Fit, SlotBytes
<1> QED
  BY <1>1, <1>2, <1>3, DmaInvariant, PTL DEF Spec

-----------------------------------------------------------------------------
(***************************************************************************)
(* Loads while no command goes wrong                                       *)
(***************************************************************************)

\* A program that can be loaded over the DMA
Good(n) == InImage(n) /\ Image(n).addr = "app" /\ Image(n).len \in 1 .. AppMax

\* No file of the image is open then.
Closed == {"menu", "probe", "entry", "stream", "return", "mounted", "open"}
          \cup Identify \cup Placing

\* As long as nothing went wrong, a load that fails has a reason in the image.
CInv ==
  /\ store.faults \in Nat
  /\ store.faults = 0 =>
       /\ todo.pc \in Closed => store.open = <<>>
       /\ todo.pc \in {"shut", "return"} /\ todo.job = "app" /\ ram.error = "load"
            => ~Good(todo.name)
       /\ ram.result.way = "failed" => ~Good(ram.result.name)

\* Without a fault, a command is carried out if the device can.
LEMMA CalmReply ==
  ASSUME DInv, CInv, NEW pc \in Loads, NEW r \in Replies(pc)
  PROVE  /\ r.store.faults \in Nat
         /\ r.store.faults = 0 =>
              /\ store.faults = 0
              /\ CanDo(pc) => r.got = "ok" /\ r.store = Done(pc)
              /\ ~CanDo(pc) => r.got = "refused" /\ r.store = store
<1>1. StoreTyped /\ store.faults \in Nat
  BY DEF DInv, Typed, CInv
<1>2. /\ Done(pc).faults = store.faults
      /\ [Done(pc) EXCEPT !.faults = @ + 1].faults = store.faults + 1
      /\ [store EXCEPT !.faults = @ + 1].faults = store.faults + 1
  BY <1>1 DEF StoreTyped, Done
<1> DEFINE hit(s) == [s EXCEPT !.faults = @ + 1]
<1>3. \/ CanDo(pc) /\ r.got = "ok" /\ r.store = Done(pc)
      \/ ~CanDo(pc) /\ r.got = "refused" /\ r.store = store
      \/ r.store = hit(store)
      \/ r.store = hit(Done(pc))
  BY DEF Replies
<1>4. /\ hit(store).faults = store.faults + 1
      /\ hit(Done(pc)).faults = store.faults + 1
  BY <1>2
<1> HIDE DEF hit
<1>5. CASE r.store = hit(store) \/ r.store = hit(Done(pc))
  <2>1. r.store.faults = store.faults + 1
    BY <1>4, <1>5
  <2> QED
    BY <1>1, <2>1
<1>6. CASE CanDo(pc) /\ r.got = "ok" /\ r.store = Done(pc)
  BY <1>1, <1>2, <1>6
<1>7. CASE ~CanDo(pc) /\ r.got = "refused" /\ r.store = store
  BY <1>1, <1>7
<1> QED
  BY <1>3, <1>5, <1>6, <1>7

LEMMA SameImage ==
  ASSUME UNCHANGED ram.path
  PROVE  \A n : Good(n)' <=> Good(n)
BY DEF Good, InImage, Image

\* A command of a load
LEMMA CalmCommand ==
  ASSUME CInv, Loading, SameCall, store'.faults \in Nat,
         store'.faults = 0 =>
           /\ store.faults = 0
           /\ todo'.pc \in Closed => store'.open = <<>>
           /\ todo'.pc \in {"shut", "return"} /\ todo.job = "app" /\ ram'.error = "load"
                => ~Good(todo.name)
  PROVE  CInv'
<1>1. /\ UNCHANGED <<ram.path, ram.result>>
      /\ todo'.job = todo.job /\ todo'.name = todo.name
  BY DEF SameCall
<1>2. \A n : Good(n)' <=> Good(n)
  BY <1>1, SameImage
<1> QED
  BY <1>1, <1>2 DEF CInv

\* A command goes on to the next one, with no file open before the open command.
LEMMA CalmGoesOn ==
  ASSUME DInv, CInv, Loading, SameCall, NEW pc \in Loads, todo.pc = pc,
         NEW r \in Replies(pc), store' = r.store,
         todo'.pc \notin {"shut", "return"},
         todo'.pc \in Closed => /\ pc \in Closed \ {"open"}
                                /\ r.store.open = store.open
  PROVE  CInv'
BY CalmReply, CalmCommand DEF CInv

LEMMA CalmFails ==
  ASSUME DInv, CInv, Loading, NEW pc \in Loads, todo.pc = pc,
         NEW e \in {"nouci", "path", "load"}, Fails(pc, e),
         NEW r \in Replies(pc), store' = r.store,
         pc \in Identify => r.store.open = store.open,
         r.store.faults = 0 /\ store.faults = 0 /\ e = "load" /\ todo.job = "app"
           => ~Good(todo.name)
  PROVE  CInv'
<1> DEFINE next == IF pc \in Identify THEN "return" ELSE "shut"
<1>1. next \in {"return", "shut"} /\ next \in Loads /\ (next \in Closed => pc \in Identify)
  BY DEF Loads, Closed, Identify, Placing
<1>2. ram' = [ram EXCEPT !.error = e] /\ todo' = [todo EXCEPT !.pc = next]
  BY DEF Fails, Going
<1> HIDE DEF next
<1>3. SameCall /\ todo'.pc = next /\ ram'.error = e
  BY <1>1, <1>2, GoesOut
<1>4. /\ store'.faults \in Nat
      /\ store'.faults = 0 => store.faults = 0
  BY CalmReply
<1>5. pc \in Identify => pc \in Closed
  BY DEF Closed
<1>6. store'.faults = 0 /\ todo'.pc \in Closed => store'.open = <<>>
  BY <1>1, <1>3, <1>4, <1>5 DEF CInv
<1> QED
  BY <1>3, <1>4, <1>6, CalmCommand

LEMMA CalmOpen ==
  ASSUME DInv, NEW pc \in Loads \ {"open", "close"}, NEW r \in Replies(pc)
  PROVE  r.store.open = store.open
<1>1. StoreTyped
  BY DEF DInv, Typed
<1>2. /\ Done(pc).open = store.open
      /\ [Done(pc) EXCEPT !.faults = @ + 1].open = store.open
      /\ [store EXCEPT !.faults = @ + 1].open = store.open
  BY <1>1 DEF StoreTyped, Done
<1> QED
  BY <1>2, ReplyKinds

LEMMA CalmAtCommand ==
  ASSUME DmaAssumption, DInv, CInv, Command
  PROVE  CInv'
<1>1. /\ todo.pc \in {"identify", "drvinfo", "root", "mount", "seek"}
      /\ Loading /\ todo.pc \in Loads \ {"open", "close"}
  BY DEF Command, Loading, Loads, Identify, Placing, Reading
<1> DEFINE pc == todo.pc
<1>2. PICK r \in Replies(pc) :
        /\ store' = r.store
        /\ IF Accepted(pc, r)
           THEN todo' = [todo EXCEPT !.pc = After(@), !.k = 0] /\ UNCHANGED ram
           ELSE Fails(pc, ErrorOf(pc))
  BY DEF Command, Sent
<1>3. r.store.open = store.open
  BY <1>1, <1>2, CalmOpen
<1>4. CASE ~Accepted(pc, r)
  <2> DEFINE e == ErrorOf(pc)
  <2>1. Fails(pc, e) /\ e \in {"nouci", "path", "load"}
    BY <1>2, <1>4 DEF ErrorOf
  <2>2. r.store.faults = 0 => e # "load"
    <3>1. SUFFICES ASSUME r.store.faults = 0, pc = "seek" PROVE FALSE
      BY <1>1 DEF ErrorOf, Identify
    <3>2. store.open # <<>> => CanDo(pc)
      BY <3>1 DEF CanDo
    <3>3. store.open # <<>>
      BY <3>1, OpenedImage
    <3>4. r.got = "ok"
      BY <1>1, <3>1, <3>2, <3>3, CalmReply
    <3> QED
      BY <1>4, <3>4 DEF Accepted
  <2> HIDE DEF e, pc
  <2>3. pc \in Loads /\ todo.pc = pc
    BY <1>1 DEF pc
  <2> QED
    BY <1>1, <1>2, <1>3, <2>1, <2>2, <2>3, CalmFails
<1>5. CASE Accepted(pc, r)
  <2> DEFINE next == After(pc)
  <2>1. /\ next \in {"drvinfo", "mounted", "root", "path", "mount", "image", "load"}
        /\ next \in Loads /\ (next \in Closed => pc \in Closed \ {"open"})
    BY <1>1 DEF After, Loads, Identify, Placing, Reading, Closed
  <2>2. ram' = ram /\ todo' = [todo EXCEPT !.pc = next, !.k = 0]
    BY <1>2, <1>5
  <2>3. SameCall /\ todo'.pc = next
    BY <1>1, <2>1, <2>2, GoesOn
  <2> HIDE DEF next, pc
  <2>4. pc \in Loads /\ todo.pc = pc
    BY <1>1 DEF pc
  <2> QED
    BY <1>1, <1>2, <1>3, <2>1, <2>3, <2>4, CalmGoesOn
<1> QED
  BY <1>4, <1>5

LEMMA CalmAtPath ==
  ASSUME DmaAssumption, DInv, CInv, PathCommand
  PROVE  CInv'
<1>1. /\ todo.pc = "path" /\ Loading /\ "path" \in Loads \ {"open", "close"}
      /\ todo \in JobType /\ "path" \in Closed \ {"open"} /\ "path" \notin Identify
  BY LoadTyped DEF PathCommand, Loading, Loads, Identify, Placing, Reading, Closed
<1>2. PICK r \in Replies("path") :
        /\ store' = r.store
        /\ IF Accepted("path", r)
           THEN todo' = [todo EXCEPT !.pc = After("path"), !.k = @ + 1] /\ UNCHANGED ram
           ELSE Fails("path", "path")
  BY DEF PathCommand, Sent
<1>3. r.store.open = store.open
  BY <1>1, CalmOpen
<1>4. CASE ~Accepted("path", r)
  BY <1>1, <1>2, <1>3, <1>4, CalmFails
<1>5. CASE Accepted("path", r)
  <2> DEFINE next == After("path")
             k == todo.k + 1
  <2>1. next \in Loads /\ next \notin {"shut", "return"}
    BY DEF After, Loads, Identify, Placing, Reading
  <2>2. k \in Nat
    BY <1>1 DEF JobType
  <2>3. ram' = ram /\ todo' = [todo EXCEPT !.pc = next, !.k = k]
    BY <1>2, <1>5
  <2> HIDE DEF next, k
  <2>4. SameCall /\ todo'.pc = next
    BY <1>1, <2>1, <2>2, <2>3, GoesOn
  <2> QED
    BY <1>1, <1>2, <1>3, <2>1, <2>4, CalmGoesOn
<1> QED
  BY <1>4, <1>5

LEMMA CalmAtImage ==
  ASSUME DmaAssumption, DInv, CInv, ImageCommand
  PROVE  CInv'
<1> DEFINE pc == todo.pc
<1>1. /\ pc \in {"image", "again"} /\ Loading /\ pc \in Loads \ {"open", "close"}
      /\ pc \in Closed \ {"open"} /\ {"mounted", "again"} \subseteq Loads
      /\ pc \notin Identify
  BY DEF ImageCommand, Loading, Loads, Identify, Placing, Reading, Closed
<1>2. PICK r \in Replies(pc) :
        /\ store' = r.store
        /\ \/ Going("mounted") /\ ram' = ram
           \/ Going("again") /\ ram' = ram
           \/ Fails(pc, "path")
  BY DEF ImageCommand, Sent
<1>3. r.store.open = store.open
  BY <1>1, CalmOpen
<1>4. pc = todo.pc
  OBVIOUS
<1> HIDE DEF pc
<1>5. CASE Fails(pc, "path")
  BY <1>1, <1>2, <1>3, <1>4, <1>5, CalmFails
<1>6. CASE (Going("mounted") \/ Going("again")) /\ ram' = ram
  <2>1. SameCall /\ todo'.pc \in {"mounted", "again"}
    BY <1>1, <1>6, GoesTo
  <2> QED
    BY <1>1, <1>2, <1>3, <1>4, <2>1, CalmGoesOn
<1> QED
  BY <1>2, <1>5, <1>6

LEMMA CalmAtMounted ==
  ASSUME DmaAssumption, DInv, CInv, Mounted
  PROVE  CInv'
<1>1. /\ todo.pc = "mounted" /\ Loading /\ {"return", "open"} \subseteq Loads
      /\ todo.pc \in Closed /\ store' = store
  BY DEF Mounted, Loading, Loads, Reading, Closed
<1>2. CASE todo.validate
  <2>1. ram' = [ram EXCEPT !.error = "none"] /\ todo' = [todo EXCEPT !.pc = "return"]
    BY <1>2 DEF Mounted, Going
  <2>2. SameCall /\ todo'.pc = "return" /\ ram'.error = "none"
    BY <1>1, <2>1, GoesOut
  <2> QED
    BY <1>1, <2>2, CalmCommand DEF CInv
<1>3. CASE ~todo.validate
  <2>1. ram' = ram /\ Going("open")
    BY <1>3 DEF Mounted
  <2>2. SameCall /\ todo'.pc = "open"
    BY <1>1, <2>1, GoesTo
  <2> QED
    BY <1>1, <2>2, CalmCommand DEF CInv
<1> QED
  BY <1>2, <1>3

\* The program that a call is for
LEMMA CalmCall ==
  ASSUME DInv, Loading, todo.job = "app"
  PROVE  todo.addr = "app" /\ todo.max = AppMax
BY DEF DInv, CallOK

LEMMA CalmAtOpen ==
  ASSUME DmaAssumption, DInv, CInv, OpenCommand
  PROVE  CInv'
<1>1. /\ todo.pc = "open" /\ Loading /\ "open" \in Loads
      /\ "info" \in Loads /\ "open" \notin Identify
      /\ "info" \notin {"shut", "return"} /\ "info" \notin Closed
  BY DEF OpenCommand, Loading, Loads, Reading, Identify, Closed, Placing
<1>2. PICK r \in Replies("open") :
        /\ store' = r.store
        /\ IF Accepted("open", r) THEN Going("info") /\ ram' = ram
           ELSE Fails("open", "load")
  BY DEF OpenCommand, Sent
<1>3. CASE Accepted("open", r)
  <2>1. SameCall /\ todo'.pc = "info"
    BY <1>1, <1>2, <1>3, GoesTo
  <2> QED
    BY <1>1, <1>2, <2>1, CalmGoesOn
<1>4. CASE ~Accepted("open", r)
  <2>1. r.store.faults = 0 => ~CanDo("open")
    BY <1>1, <1>4, CalmReply DEF Accepted
  <2>2. AtImage
    BY <1>1 DEF DInv, DirOK, Reading
  <2>3. InImage(todo.name) => CanDo("open")
    BY <2>2 DEF AtImage, InImage, CanDo, Here
  <2>4. r.store.faults = 0 => ~Good(todo.name)
    BY <2>1, <2>3 DEF Good
  <2> QED
    BY <1>1, <1>2, <1>4, <2>4, CalmFails
<1> QED
  BY <1>3, <1>4

LEMMA CalmAtInfo ==
  ASSUME DmaAssumption, DInv, CInv, InfoCommand
  PROVE  CInv'
<1>1. /\ todo.pc = "info" /\ Loading /\ "info" \in Loads \ {"open", "close"}
      /\ "header" \in Loads /\ "info" \notin Identify
      /\ "header" \notin {"shut", "return"} /\ "header" \notin Closed
  BY DEF InfoCommand, Loading, Loads, Reading, Identify, Closed, Placing
<1> DEFINE n == Length(Opened.len)
<1>2. PICK r \in Replies("info") :
        /\ store' = r.store
        /\ IF Accepted("info", r) /\ n.left > 0
           THEN /\ todo' = [todo EXCEPT !.pc = "header", !.left = n.left,
                                        !.clipped = n.clipped]
                /\ UNCHANGED ram
           ELSE Fails("info", "load")
  BY DEF InfoCommand, Sent
<1>3. /\ Opened = Image(todo.name) /\ Opened.len \in Nat /\ store.open # <<>>
      /\ AppMax \in Nat
  BY <1>1, OpenedImage DEF DmaAssumption
<1>4. r.store.faults = 0 => Accepted("info", r)
  <2>1. CanDo("info")
    BY <1>3 DEF CanDo
  <2> QED
    BY <1>1, <2>1, CalmReply DEF Accepted
<1>5. CASE ~(Accepted("info", r) /\ n.left > 0)
  <2>1. todo.job = "app" /\ ~(n.left > 0) => ~(Opened.len \in 1 .. AppMax)
    BY <1>1, <1>3, CalmCall DEF Length
  <2>2. r.store.faults = 0 /\ todo.job = "app" => ~Good(todo.name)
    BY <1>3, <1>4, <1>5, <2>1 DEF Good
  <2> QED
    BY <1>1, <1>2, <1>5, <2>2, CalmFails
<1>6. CASE Accepted("info", r) /\ n.left > 0
  <2>1. n.left # 0
    BY <1>6
  <2>2. n.left \in Nat /\ n.clipped \in BOOLEAN
    BY <1>1, <2>1, OpenedImage, LengthBound
  <2>3. ram' = ram /\ todo' = [todo EXCEPT !.pc = "header", !.left = n.left,
                                           !.clipped = n.clipped]
    BY <1>2, <1>6
  <2> HIDE DEF n
  <2>4. todo \in JobType /\ RamTyped
    BY <1>1, LoadTyped DEF DInv, Typed
  <2>5. todo' \in JobType
    BY <1>1, <2>2, <2>3, <2>4 DEF JobType
  <2>6. SameCall /\ todo'.pc = "header"
    BY <1>1, <2>3, <2>4, <2>5 DEF JobType, SameCall, RamTyped
  <2> QED
    BY <1>1, <1>2, <2>6, CalmGoesOn
<1> QED
  BY <1>5, <1>6

LEMMA CalmAtHeader ==
  ASSUME DmaAssumption, DInv, CInv, HeaderCommand
  PROVE  CInv'
<1>1. /\ todo.pc = "header" /\ Loading /\ "header" \in Loads \ {"open", "close"}
      /\ "seek" \in Loads /\ "header" \notin Identify
      /\ "seek" \notin {"shut", "return"} /\ "seek" \notin Closed
  BY DEF HeaderCommand, Loading, Loads, Reading, Identify, Closed, Placing
<1>2. PICK r \in Replies("header") :
        /\ store' = r.store
        /\ IF Accepted("header", r) /\ todo.addr \in {"any", Opened.addr}
           THEN Going("seek") /\ ram' = ram ELSE Fails("header", "load")
  BY DEF HeaderCommand, Sent
<1>3. Opened = Image(todo.name) /\ store.open # <<>>
  BY <1>1, OpenedImage
<1>4. r.store.faults = 0 => Accepted("header", r)
  <2>1. CanDo("header")
    BY <1>3 DEF CanDo
  <2> QED
    BY <1>1, <2>1, CalmReply DEF Accepted
<1>5. CASE ~(Accepted("header", r) /\ todo.addr \in {"any", Opened.addr})
  <2>1. r.store.faults = 0 /\ todo.job = "app" => ~Good(todo.name)
    BY <1>1, <1>3, <1>4, <1>5, CalmCall DEF Good
  <2> QED
    BY <1>1, <1>2, <1>5, <2>1, CalmFails
<1>6. CASE Accepted("header", r) /\ todo.addr \in {"any", Opened.addr}
  <2>1. SameCall /\ todo'.pc = "seek"
    BY <1>1, <1>2, <1>6, GoesTo
  <2> QED
    BY <1>1, <1>2, <2>1, CalmGoesOn
<1> QED
  BY <1>5, <1>6

LEMMA CalmAtLoad ==
  ASSUME DmaAssumption, DInv, CInv, LoadCommand
  PROVE  CInv'
<1>1. /\ todo.pc = "load" /\ Loading /\ "load" \in Loads
      /\ {"close", "shut"} \subseteq Loads /\ "load" \notin Identify
      /\ "close" \notin Closed \cup {"shut", "return"} /\ "shut" \notin Closed
  BY DEF LoadCommand, Loading, Loads, Reading, Identify, Closed, Placing
<1>2. PICK r \in Replies("load") :
        /\ store' = [r.store EXCEPT !.cut = @ \/ (r.got # "ok" /\ Accepted("load", r))]
        /\ IF Accepted("load", r)
           THEN Going("close") /\ UNCHANGED ram ELSE Fails("load", "load")
  BY DEF LoadCommand
<1>3. store'.faults = r.store.faults
  BY <1>2
<1>4. /\ store'.faults \in Nat
      /\ store'.faults = 0 => store.faults = 0 /\ Accepted("load", r)
  <2>1. CanDo("load")
    BY <1>1, OpenedImage DEF CanDo
  <2> QED
    BY <1>1, <1>3, <2>1, CalmReply DEF Accepted
<1>5. CASE Accepted("load", r)
  <2>1. SameCall /\ todo'.pc = "close"
    BY <1>1, <1>2, <1>5, GoesTo
  <2> QED
    BY <1>1, <1>4, <2>1, CalmCommand
<1>6. CASE ~Accepted("load", r)
  <2>1. ram' = [ram EXCEPT !.error = "load"] /\ todo' = [todo EXCEPT !.pc = "shut"]
    BY <1>1, <1>2, <1>6 DEF Fails, Going
  <2>2. SameCall
    BY <1>1, <2>1, GoesOut
  <2> QED
    BY <1>1, <1>4, <1>6, <2>2, CalmCommand
<1> QED
  BY <1>5, <1>6

LEMMA CalmAtClose ==
  ASSUME DmaAssumption, DInv, CInv, CloseCommand
  PROVE  CInv'
<1>1. /\ todo.pc \in {"close", "shut"} /\ Loading
      /\ "close" \in Loads /\ "return" \in Loads
  BY DEF CloseCommand, Loading, Loads, Reading
<1>2. PICK r \in Replies("close") : store' = r.store
  BY DEF CloseCommand, Sent
<1>3. /\ store'.faults \in Nat
      /\ store'.faults = 0 => store.faults = 0 /\ store'.open = <<>>
  <2>1. Done("close").open = <<>>
    <3>1. StoreTyped
      BY DEF DInv, Typed
    <3> QED
      BY <3>1 DEF Done, StoreTyped
  <2>2. CanDo("close") <=> store.open # <<>>
    BY DEF CanDo
  <2> QED
    BY <1>1, <1>2, <2>1, <2>2, CalmReply
<1>4. CASE todo.pc = "close"
  <2>1. ram' = [ram EXCEPT !.error = "none"] /\ todo' = [todo EXCEPT !.pc = "return"]
    BY <1>4 DEF CloseCommand, Going
  <2>2. SameCall /\ todo'.pc = "return" /\ ram'.error = "none"
    BY <1>1, <2>1, GoesOut
  <2> QED
    BY <1>1, <1>3, <2>2, CalmCommand
<1>5. CASE todo.pc = "shut"
  <2>1. ram' = ram /\ Going("return")
    BY <1>5 DEF CloseCommand
  <2>2. SameCall /\ todo'.pc = "return"
    BY <1>1, <2>1, GoesTo
  <2>3. store.faults = 0 /\ todo.job = "app" /\ ram.error = "load" => ~Good(todo.name)
    BY <1>5 DEF CInv
  <2> QED
    BY <1>1, <1>3, <2>1, <2>2, <2>3, CalmCommand
<1> QED
  BY <1>1, <1>4, <1>5

\* A step of the launcher between the loads, that brings no new failure.
LEMMA CalmCaller ==
  ASSUME DInv, CInv, ram'.path = ram.path, todo.pc \in Closed,
         todo'.pc \notin {"shut", "return"}, UNCHANGED <<store.open, store.faults>>,
         ram'.result.way = "failed" /\ store.faults = 0 => ~Good(ram'.result.name)
  PROVE  CInv'
<1>1. \A n : Good(n)' <=> Good(n)
  BY SameImage
<1> QED
  BY <1>1 DEF CInv

LEMMA MenuPc ==
  ASSUME todo' = Menu
  PROVE  todo'.pc \notin {"shut", "return"}
BY DEF Menu

\* The same where the outcome of the last load is kept or there is none yet.
LEMMA CalmSame ==
  ASSUME DInv, CInv, ram'.path = ram.path, todo.pc \in Closed,
         todo'.pc \notin {"shut", "return"}, UNCHANGED <<store.open, store.faults>>,
         ram'.result = ram.result \/ ram'.result.way # "failed"
  PROVE  CInv'
<1>1. ram'.result.way = "failed" /\ store.faults = 0 => ~Good(ram'.result.name)
  BY DEF CInv
<1> QED
  BY <1>1, CalmCaller

LEMMA CalmAtProbe ==
  ASSUME DInv, CInv, Probe \/ ProbeReturns
  PROVE  CInv'
<1>1. RamTyped /\ StoreTyped
  BY DEF DInv, Typed
<1>2. todo.pc \in Closed
  BY DEF Probe, ProbeReturns, Closed
<1>3. \/ ram' = ram /\ store' = store /\ todo'.pc = "identify"
      \/ /\ todo' = Menu
         /\ \E r \in {NotAvailable,
                      [ram EXCEPT !.avail = TRUE, !.probe = TRUE, !.ready = TRUE]} :
              ram' = r /\ store' = Saved(r)
  BY DEF Probe, ProbeReturns, Load
<1>4. UNCHANGED <<ram.path, ram.result, store.open, store.faults>>
  <2>1. \A r : store' = Saved(r) =>
          store'.open = store.open /\ store'.faults = store.faults
    BY <1>1 DEF StoreTyped, Saved
  <2>2. /\ NotAvailable.path = ram.path /\ NotAvailable.result = ram.result
        /\ [ram EXCEPT !.avail = TRUE, !.probe = TRUE, !.ready = TRUE].path = ram.path
        /\ [ram EXCEPT !.avail = TRUE, !.probe = TRUE, !.ready = TRUE].result = ram.result
    BY <1>1 DEF RamTyped, NotAvailable
  <2> QED
    BY <1>3, <2>1, <2>2
<1>5. todo'.pc \notin {"shut", "return"}
  BY <1>3, MenuPc
<1> QED
  BY <1>2, <1>4, <1>5, CalmSame

LEMMA CalmAtLoadApp ==
  ASSUME DInv, CInv, LoadApp
  PROVE  CInv'
<1>1. RamTyped /\ StoreTyped /\ todo.pc \in Closed /\ todo.pc = "menu"
  BY DEF DInv, Typed, LoadApp, Closed
<1>2. PICK n \in Apps :
        \/ /\ todo' = Tried("app", n, AppBank, 0, AppMax, "app")
           /\ ram' = [ram EXCEPT !.result = NoResult]
        \/ ram' = [ram EXCEPT !.result = [way |-> "disk", name |-> n]] /\ todo' = todo
  BY DEF LoadApp
<1>3. UNCHANGED <<ram.path, store.open, store.faults>> /\ ram'.result.way # "failed"
  <2>1. ASSUME NEW res, ram' = [ram EXCEPT !.result = res], res.way # "failed"
        PROVE  ram'.path = ram.path /\ ram'.result.way # "failed"
    BY <1>1, <2>1 DEF RamTyped
  <2>2. NoResult.way # "failed" /\ [way |-> "disk", name |-> n].way # "failed"
    BY DEF NoResult
  <2>3. UNCHANGED <<store.open, store.faults>>
    BY <1>1 DEF StoreTyped, LoadApp
  <2> QED
    BY <1>2, <2>1, <2>2, <2>3
<1>4. Tried("app", n, AppBank, 0, AppMax, "app").pc = "identify"
  BY DEF Tried, Load
<1>5. todo'.pc \notin {"shut", "return"}
  BY <1>1, <1>2, <1>4
<1> QED
  BY <1>1, <1>3, <1>5, CalmSame

LEMMA CalmAtAppReturns ==
  ASSUME DmaAssumption, DInv, CInv, AppReturns
  PROVE  CInv'
<1> DEFINE f == TryEnds
           way == IF ram.error = "none" THEN "dma"
                  ELSE IF Available(f) THEN "failed" ELSE "disk"
           res == [way |-> way, name |-> todo.name]
<1>1. /\ RamTyped /\ StoreTyped /\ todo.pc \in Closed /\ todo.pc = "return"
      /\ todo.job = "app" /\ todo' = Menu
      /\ ram' = [f EXCEPT !.result = res] /\ store' = Saved(f)
  BY DEF DInv, Typed, AppReturns, Closed
<1>2. /\ f = [ram EXCEPT !.avail = f.avail, !.ready = f.ready] /\ f.path = ram.path
  BY <1>1, TryEndsOK
<1>3. Available(f) => ram.error \notin {"nouci", "path"}
  BY <1>1 DEF RamTyped, TryEnds, Available
<1>4. ram.error \in {"none", "nouci", "path", "load"}
  BY <1>1 DEF RamTyped
<1> HIDE DEF f
<1>5. way = "failed" => ram.error = "load"
  <2>1. CASE ram.error = "none"
    BY <2>1
  <2>2. CASE ram.error \in {"nouci", "path"}
    <3>1. ram.error # "none" /\ ~Available(f)
      BY <1>3, <2>2
    <3> QED
      BY <3>1
  <2> QED
    BY <1>4, <2>1, <2>2
<1> HIDE DEF way
<1>6. UNCHANGED <<ram.path, store.open, store.faults>> /\ ram'.result = res
  BY <1>1, <1>2 DEF RamTyped, StoreTyped, Saved
<1>7. way = "failed" /\ store.faults = 0 => ~Good(todo.name)
  BY <1>1, <1>5 DEF CInv
<1> QED
  BY <1>1, <1>6, <1>7, MenuPc, CalmCaller

LEMMA CalmAtResources ==
  ASSUME DInv, CInv, LoadResources \/ ResourcesDone
  PROVE  CInv'
<1>1. RamTyped /\ StoreTyped /\ todo.pc \in Closed /\ todo.pc \notin {"shut", "return"}
  BY DEF DInv, Typed, LoadResources, ResourcesDone, Closed
<1>2. UNCHANGED <<ram.path, ram.result>>
  BY <1>1 DEF RamTyped, LoadResources, ResourcesDone
<1>3. UNCHANGED <<store.open, store.faults>>
  BY <1>1 DEF StoreTyped, LoadResources, ResourcesDone
<1>4. todo'.pc \notin {"shut", "return"}
  <2>1. CASE todo' = todo
    BY <1>1, <2>1
  <2>2. CASE todo' = Menu
    BY <2>2, MenuPc
  <2>3. ASSUME NEW l, todo' = [Load("overlay") EXCEPT !.pc = "entry", !.line = l]
        PROVE  todo'.pc \notin {"shut", "return"}
    BY <2>3 DEF Load
  <2> QED
    BY <2>1, <2>2, <2>3 DEF LoadResources, ResourcesDone
<1> QED
  BY <1>1, <1>2, <1>3, <1>4, CalmSame

LEMMA CalmAtStart ==
  ASSUME DInv, CInv, StartEntry
  PROVE  CInv'
<1>1. /\ RamTyped /\ StoreTyped /\ todo.pc = "entry" /\ todo.pc \in Closed
      /\ todo \in JobType
  BY LoadTyped DEF DInv, Typed, StartEntry, Closed
<1>2. CASE todo' = Menu /\ ram' = ram /\ store' = store
  BY <1>1, <1>2, MenuPc, CalmSame
<1>3. ASSUME NEW b, NEW o, NEW free, NEW reu, NEW t,
             ram' = [ram EXCEPT !.banks[o] = b],
             store' = [store EXCEPT !.free = free, !.reu = reu],
             todo' = t, t.pc \notin {"shut", "return"}
      PROVE  CInv'
  <2>1. UNCHANGED <<ram.path, ram.result, store.open, store.faults>>
    BY <1>1, <1>3 DEF RamTyped, StoreTyped
  <2> QED
    BY <1>1, <1>3, <2>1, CalmSame
<1>4. CASE Entry # Bad
  <2> DEFINE o == Entry.ord
             b == BankFor(o)
             free == store.free \ {b}
             reu == IF b # 0 /\ Available(ram) THEN Zeroed(store.reu, b, Entry.off)
                    ELSE store.reu
             tried == Tried("overlay", Entry.name, b, Entry.off, Slot, "overlay")
  <2>1. /\ ram' = [ram EXCEPT !.banks[o] = b]
        /\ store' = [store EXCEPT !.free = free, !.reu = reu]
        /\ todo' \in {Menu, [todo EXCEPT !.pc = "stream", !.bank = b],
                      [tried EXCEPT !.line = todo.line, !.at = todo.at]}
    BY <1>4 DEF StartEntry
  <2>2. /\ Menu.pc \notin {"shut", "return"}
        /\ [todo EXCEPT !.pc = "stream", !.bank = b].pc \notin {"shut", "return"}
        /\ [tried EXCEPT !.line = todo.line, !.at = todo.at].pc \notin {"shut", "return"}
    BY <1>1 DEF Menu, Tried, Load, JobType
  <2>3. todo'.pc \notin {"shut", "return"}
    BY <2>1, <2>2
  <2> HIDE DEF o, b, free, reu
  <2> QED
    BY <1>3, <2>1, <2>3
<1> QED
  BY <1>2, <1>4 DEF StartEntry

LEMMA CalmRecorded ==
  ASSUME RamTyped, todo \in JobType, NEW len, NEW avail, NEW ready,
         NEW r, r = [ram EXCEPT !.avail = avail, !.ready = ready], Recorded(r, len)
  PROVE  UNCHANGED <<ram.path, ram.result>> /\ todo'.pc \notin {"shut", "return"}
<1>1. CASE todo' = Menu /\ ram' = r
  BY <1>1, MenuPc DEF RamTyped
<1>2. ASSUME NEW recs, NEW at, ram' = [r EXCEPT !.recs = recs],
             todo' = [todo EXCEPT !.pc = "entry", !.at = at]
      PROVE  UNCHANGED <<ram.path, ram.result>> /\ todo'.pc \notin {"shut", "return"}
  BY <1>2 DEF RamTyped, JobType
<1> QED
  BY <1>1, <1>2 DEF Recorded

LEMMA CalmAtOverlay ==
  ASSUME DInv, CInv, OverlayReturns
  PROVE  CInv'
<1> DEFINE f == TryEnds
<1>1. /\ RamTyped /\ StoreTyped /\ todo.pc = "return" /\ todo.pc \in Closed
      /\ todo \in JobType
      /\ Recorded(f, todo.left) \/ (ram' = f /\ todo' = Menu)
      /\ store' = Saved(f)
  BY LoadTyped DEF DInv, Typed, OverlayReturns, Closed, Loads
<1>2. /\ f = [ram EXCEPT !.avail = f.avail, !.ready = f.ready]
      /\ f.path = ram.path /\ f.result = ram.result
  BY <1>1, TryEndsOK
<1> HIDE DEF f
<1>3. UNCHANGED <<ram.path, ram.result>> /\ todo'.pc \notin {"shut", "return"}
  BY <1>1, <1>2, MenuPc, CalmRecorded
<1>4. UNCHANGED <<store.open, store.faults>>
  BY <1>1 DEF StoreTyped, Saved
<1> QED
  BY <1>1, <1>3, <1>4, CalmSame

LEMMA CalmAtStream ==
  ASSUME DInv, CInv, Stream
  PROVE  CInv'
<1>1. /\ RamTyped /\ StoreTyped /\ todo.pc = "stream" /\ todo.pc \in Closed
      /\ todo \in JobType
  BY LoadTyped DEF DInv, Typed, Stream, Closed
<1>2. ram = [ram EXCEPT !.avail = ram.avail, !.ready = ram.ready]
  BY <1>1 DEF RamTyped
<1>3. UNCHANGED <<ram.path, ram.result>> /\ todo'.pc \notin {"shut", "return"}
  <2>1. (todo' = Menu /\ ram' = ram) \/ \E len : Recorded(ram, len)
    BY DEF Stream
  <2> QED
    BY <1>1, <1>2, <2>1, MenuPc, CalmRecorded
<1>4. \/ UNCHANGED <<store.open, store.faults>>
      \/ store'.faults = store.faults + 1
  BY <1>1 DEF StoreTyped, Stream
<1>5. CASE UNCHANGED <<store.open, store.faults>>
  BY <1>1, <1>3, <1>5, CalmSame
<1>6. CASE store'.faults = store.faults + 1
  BY <1>6 DEF CInv
<1> QED
  BY <1>4, <1>5, <1>6

LEMMA CalmAtProgram ==
  ASSUME DInv, CInv, RunProgram
  PROVE  CInv'
<1>1. RamTyped /\ StoreTyped /\ todo' = todo /\ todo.pc = "menu"
  BY DEF DInv, Typed, RunProgram
<1>2. store'.open = <<>> /\ store'.faults = store.faults
  BY <1>1 DEF RunProgram, StoreTyped
<1>3. ram'.result.way # "failed"
  BY <1>1 DEF RunProgram, Resumed, RamTyped, NoResult
<1> QED
  BY <1>1, <1>2, <1>3 DEF CInv

LEMMA CalmInit ==
  ASSUME Init
  PROVE  CInv
<1>1. store.faults = 0 /\ store.open = <<>>
  BY DEF Init
<1>2. ram.result.way # "failed"
  <2>1. ram.result = NoResult
    BY DEF Init
  <2>2. NoResult.way # "failed"
    BY DEF NoResult
  <2> QED
    BY <2>1, <2>2
<1>3. todo.pc = "probe"
  BY DEF Init, Menu
<1> QED
  BY <1>1, <1>2, <1>3 DEF CInv

LEMMA CalmStep ==
  ASSUME DmaAssumption, DInv, CInv, [Next]_vars
  PROVE  CInv'
<1>1. CASE UNCHANGED vars
  <2>1. ram' = ram /\ store' = store /\ todo' = todo
    BY <1>1 DEF vars
  <2>2. \A n : Good(n)' <=> Good(n)
    BY <2>1, SameImage
  <2> QED
    BY <2>1, <2>2 DEF CInv
<1> QED
  BY <1>1, CalmAtProbe, CalmAtLoadApp, CalmAtAppReturns, CalmAtResources, CalmAtStart,
     CalmAtOverlay, CalmAtStream, CalmAtProgram, CalmAtCommand, CalmAtPath,
     CalmAtImage, CalmAtMounted, CalmAtOpen, CalmAtInfo, CalmAtHeader, CalmAtLoad,
     CalmAtClose
     DEF Next

\* As long as no command goes wrong, load_app_to_reu gives up a program only if the
\* image has no file of that name that is a program and fits, and no file stays open
\* on the Ultimate when the menu is back.
THEOREM DmaCalmLoads ==
  ASSUME DmaAssumption
  PROVE  Spec => []CalmLoads
<1>1. Init => CInv
  BY CalmInit
<1>2. DInv /\ CInv /\ [Next]_vars => CInv'
  BY CalmStep
<1>3. CInv => CalmLoads
  BY DEF CInv, CalmLoads, Good, Closed
<1> QED
  BY <1>1, <1>2, <1>3, DmaInvariant, PTL DEF Spec

\* All that the runs check of the DMA loading.
THEOREM DmaSound ==
  ASSUME DmaAssumption, SlotsApart
  PROVE  Spec => []Sound
<1>1. AppIsFile /\ OverlaysWhole /\ OthersUntouched /\ CalmLoads => Sound
  BY DEF Sound
<1> QED
  BY <1>1, DmaLoadsTheFile, DmaOverlaysWhole, DmaSparesTheRest, DmaCalmLoads, PTL

=============================================================================
