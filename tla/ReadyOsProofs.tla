--------------------------- MODULE ReadyOsProofs ---------------------------
(***************************************************************************)
(* Proofs about ReadyOs: the state is well typed, and the ReadyOS bank,    *)
(* the banks below it and the banks the REU does not have are never given  *)
(* away, for every number of banks, tokens, apps, slots and records, every *)
(* catalog and every choice of the user, with resets at any moment.        *)
(***************************************************************************)
EXTENDS ReadyOs, TLAPS

(***************************************************************************)
(* The bank-type table                                                     *)
(***************************************************************************)
LEMMA BankFacts ==
  /\ 0 \in Banks /\ Skip \in Banks
  /\ Usable \subseteq Banks /\ 0 \notin Usable
  /\ \A b \in Usable : b > Skip /\ b < Phys
BY BankAssumption DEF Banks, Usable, Dynamic

\* A table of bank types in which the fixed banks have theirs.
Sound(bt) == bt \in [Banks -> BankTypes] /\ Fixed(bt)

LEMMA SetTypeFact ==
  ASSUME NEW bt, Sound(bt), NEW S, S \subseteq Usable, NEW type \in BankTypes,
         type \notin FixedTypes
  PROVE  Sound(SetType(bt, S, type))
BY BankAssumption, BankFacts
   DEF Sound, SetType, Fixed, FixedType, Banks

LEMMA FreePhysicalFact ==
  ASSUME NEW bt, Sound(bt), NEW S, S \subseteq Usable \cup {0}
  PROVE  Sound(FreePhysical(bt, S))
BY BankAssumption, BankFacts
   DEF Sound, FreePhysical, Fixed, FixedType, Banks, BankTypes, FixedTypes

LEMMA FreeBankFact ==
  ASSUME NEW bt, Sound(bt), NEW S, S \subseteq Usable
  PROVE  Sound(FreeBank(bt, S))
BY BankAssumption, BankFacts
   DEF Sound, FreeBank, Fixed, FixedType, Banks, BankTypes, FixedTypes

LEMMA PrepareFact ==
  ASSUME NEW bt \in [Banks -> BankTypes], NEW valid \in BOOLEAN
  PROVE  Sound(Prepare(valid, bt))
BY BankAssumption
   DEF Sound, Prepare, Fixed, FixedType, Banks, BankTypes, FixedTypes

LEMMA AnchoredFact ==
  ASSUME NEW bt, Sound(bt)
  PROVE  Sound(Anchored(bt))
BY BankAssumption, BankFacts
   DEF Sound, Anchored, Fixed, FixedType, Banks, BankTypes, FixedTypes

\* What an allocation finds can be used: the fixed types hide the rest.
LEMMA FreeFact ==
  ASSUME NEW bt, Sound(bt)
  PROVE  FreeBanks(bt) \subseteq Usable
BY BankAssumption
   DEF Sound, FreeBanks, Fixed, Usable, Dynamic, Banks

LEMMA ClientTypesFact ==
  {"app", "clip", "alloc", "rbcore", "rbcode"} \subseteq BankTypes \ FixedTypes
BY DEF BankTypes, ClientTypes, FixedTypes

-----------------------------------------------------------------------------
(***************************************************************************)
(* The launcher's view of the tables                                       *)
(***************************************************************************)
Status == {"free", "valid", "loaded"}

IsEntries(r) == r \in [Apps -> Entry]
IsStatus(st) == st \in [Tokens -> Status]

LEMMA AppsFact ==
  /\ MaxApps \in Nat /\ \A n \in 0 .. MaxApps : 1 .. n \subseteq Apps
  /\ 0 \notin Apps /\ 0 \notin Tokens
BY CatalogAssumption DEF Apps, Tokens

LEMMA SyncedStatusFact ==
  ASSUME NEW n, NEW r, NEW st, IsStatus(st), saved \in {0} \cup Tokens
  PROVE  /\ IsStatus(SyncedStatus(n, r, st))
         /\ \A t \in Tokens :
              SyncedStatus(n, r, st)[t] # "free" => st[t] # "free"
BY DEF IsStatus, SyncedStatus, Status

LEMMA SyncedEntriesFact ==
  ASSUME NEW n \in 0 .. MaxApps, NEW r, IsEntries(r), NEW st, IsStatus(st)
  PROVE  /\ IsEntries(SyncedEntries(n, r, st))
         /\ \A i \in Apps : SyncedEntries(n, r, st)[i].tok = r[i].tok
         /\ (\A i \in Apps : r[i].loaded => r[i].tok # 0) =>
              \A i \in Apps : SyncedEntries(n, r, st)[i].loaded =>
                              SyncedEntries(n, r, st)[i].tok # 0
BY DEF SyncedEntries, Entry, IsEntries, IsStatus

LEMMA LoadedBanksFact ==
  ASSUME NEW n \in 0 .. MaxApps, NEW r, IsEntries(r), NEW st, IsStatus(st),
         lookup \in [Tokens -> {0} \cup Usable],
         \A t \in Tokens : st[t] # "free" => lookup[t] # 0
  PROVE  LoadedBanks(n, r, st) \subseteq Usable
BY AppsFact DEF LoadedBanks, Entry, IsEntries, IsStatus

LEMMA MirrorFact ==
  ASSUME NEW n \in 0 .. MaxApps, NEW r, IsEntries(r), NEW st, IsStatus(st)
  PROVE  /\ IsStatus(MirroredStatus(n, r, st))
         /\ MirroredApp(n, r, st) \in [Tokens -> {0} \cup Apps]
         /\ \A t \in Tokens :
              MirroredStatus(n, r, st)[t] # "free" => st[t] # "free"
         /\ Published(n, r) \in [count : 0 .. MaxApps, apps : [Apps -> Entry]]
         /\ Published(n, r).apps = r
BY AppsFact DEF MirroredStatus, MirroredApp, Published, Uses, Status,
                IsEntries, IsStatus

-----------------------------------------------------------------------------
(***************************************************************************)
(* The inductive invariant, action by action                               *)
(***************************************************************************)
LEMMA BlankFact ==
  BlankEntry \in Entry /\ BlankEntry.tok = 0 /\ BlankEntry.loaded = FALSE
BY CatalogAssumption DEF BlankEntry, Entry

\* The one hypothesis of this module is that the REU is not smaller than it
\* was when the tables it holds were written: the clipboard table keeps its
\* banks, and freeing one that is missing makes it allocatable.
NotShrunk == \A p \in Earlier : p <= Phys

LEMMA InitTables ==
  ASSUME NotShrunk, Init
  PROVE  /\ hdr \in BOOLEAN /\ btype \in [Banks -> BankTypes]
         /\ clip \subseteq Usable /\ (hdr => \A b \in clip : btype[b] = "clip")
         /\ tail \in [Banks -> Payload \cup {NoPayload}]
<1>1. CASE Unformatted
  BY <1>1 DEF Unformatted, BankTypes, ClientTypes
<1>2. CASE Formatted
  <2>0. PICK p \in Earlier :
          \E C, O \in SUBSET {b \in Dynamic : b < p} :
            /\ btype = TypesLeft(p, C, O) /\ clip = C
            /\ \E d \in PayloadsLeft(p) :
                 tail = [b \in Banks |-> IF b \in Usable THEN d ELSE NoPayload]
    BY <1>2 DEF Formatted
  <2>1. PICK C \in SUBSET {b \in Dynamic : b < p},
             O \in SUBSET {b \in Dynamic : b < p}, d \in PayloadsLeft(p) :
          /\ hdr = TRUE /\ btype = TypesLeft(p, C, O) /\ clip = C
          /\ tail = [b \in Banks |-> IF b \in Usable THEN d ELSE NoPayload]
    BY <1>2, <2>0 DEF Formatted
  <2>2. {b \in Dynamic : b < p} \subseteq Usable
    BY CatalogAssumption, BankAssumption DEF NotShrunk, Usable, Dynamic, Banks
  <2>3. btype \in [Banks -> BankTypes]
    BY <2>1, BankAssumption
       DEF TypesLeft, FixedType, BankTypes, FixedTypes, ClientTypes
  <2>4. \A b \in clip : btype[b] = "clip"
    <3>1. \A b \in C : b \in Banks /\ ~(b <= Skip) /\ ~(b >= p)
      BY BankAssumption, CatalogAssumption DEF Dynamic, Banks
    <3> QED
      BY <2>1, <3>1 DEF TypesLeft
  <2>5. d \in Payload \cup {NoPayload}
    BY <2>2, CatalogAssumption DEF PayloadsLeft, Payload
  <2> QED
    BY <2>1, <2>2, <2>3, <2>4, <2>5
<1> QED
  BY <1>1, <1>2 DEF Init

LEMMA InitIInv == ASSUME NotShrunk, Init PROVE IInv
<1>1. TypeOK
  <2>1. /\ hdr \in BOOLEAN /\ btype \in [Banks -> BankTypes]
        /\ hotkey \in [Slots -> {0} \cup Tokens] /\ clip \subseteq Usable
        /\ bound \in [Slots -> Prog \cup {None}] /\ stale \subseteq Slots
    BY InitTables DEF Init
  <2>2. /\ reg \in [count : 0 .. MaxApps, apps : [Apps -> Entry]]
        /\ ram \in [Apps -> Entry] /\ count \in 0 .. MaxApps
    BY BlankFact, AppsFact DEF Init, Published
  <2> QED
    BY <2>1, <2>2, InitTables DEF Init, TypeOK, NoJob, Job, PCs, Images, AppPCs
<1>2. /\ FixedBanks /\ HeaderValid /\ JobOK /\ LoadedHasToken
      /\ RunningHasToken /\ TokensMapped
  BY BlankFact
     DEF Init, FixedBanks, HeaderValid, JobOK, LoadedHasToken, RunningHasToken,
         TokensMapped, Published, AppPCs
<1> QED
  BY <1>1, <1>2 DEF IInv

LEMMA ResetStep == ASSUME IInv, Reset \/ NoRoom PROVE IInv'
<1>1. TypeOK'
  BY BankFacts, AppsFact, BlankFact
     DEF Reset, NoRoom, PowerDown, IInv, TypeOK, NoJob, Job, PCs, tokenVars,
         catalogVars, bankVars, hotkeyVars, AppPCs
<1>2. /\ FixedBanks' /\ HeaderValid' /\ JobOK' /\ LoadedHasToken'
      /\ RunningHasToken' /\ TokensMapped'
  BY BlankFact
     DEF Reset, NoRoom, PowerDown, IInv, FixedBanks, HeaderValid, JobOK,
         LoadedHasToken, RunningHasToken, TokensMapped, tokenVars, catalogVars,
         AppPCs
<1> QED
  BY <1>1, <1>2 DEF IInv

LEMMA KeepTokenStep == ASSUME IInv, KeepToken PROVE IInv'
BY DEF KeepToken, GoTo, IInv, TypeOK, FixedBanks, HeaderValid, JobOK,
       LoadedHasToken, RunningHasToken, TokensMapped, PCs, tokenVars,
       catalogVars, bankVars, menuVars, shimVars, appVars, hotkeyVars, AppPCs

LEMMA BindHotkeyStep == ASSUME IInv, NEW s \in Slots, BindHotkey(s) PROVE IInv'
BY DEF BindHotkey, IInv, TypeOK, FixedBanks, HeaderValid, JobOK,
       LoadedHasToken, RunningHasToken, TokensMapped, PCs, tokenVars,
       catalogVars, bankVars, menuVars, shimVars, appVars, AppPCs

LEMMA BindTokenStep == ASSUME IInv, BindToken PROVE IInv'
<1>1. PICK t \in FirstToken(job.idx), b \in FirstFree(btype) :
        LET r1  == [ram EXCEPT ![job.idx].tok = t]
            st1 == [tstat EXCEPT ![t] = "valid"]
        IN  /\ btype' = Anchored(SetType(btype, {b}, "app"))
            /\ lookup' = [lookup EXCEPT ![t] = b]
            /\ ram' = r1
            /\ tstat' = MirroredStatus(count, r1, st1)
            /\ tapp' = MirroredApp(count, r1, st1)
            /\ reg' = Published(count, r1)
  BY DEF BindToken
<1> DEFINE r1  == [ram EXCEPT ![job.idx].tok = t]
           st1 == [tstat EXCEPT ![t] = "valid"]
<1>2. /\ pc = "alloc" /\ pc' = "preload" /\ job' = job
      /\ UNCHANGED <<hdr, file, recs, clip, bankVars, count, shimVars, appVars,
                     hotkeyVars>>
  BY DEF BindToken, GoTo
<1>3. /\ hdr /\ Sound(btype)
      /\ job.idx \in 1 .. count /\ job.idx \in Apps /\ count \in 0 .. MaxApps
      /\ IsEntries(ram) /\ IsStatus(tstat)
  BY <1>2, AppsFact
     DEF IInv, TypeOK, FixedBanks, HeaderValid, JobOK, Status, IsEntries,
         IsStatus, Sound
<1>4. b \in Usable /\ b # 0 /\ t \in Tokens /\ t # 0
  BY <1>3, FreeFact, BankFacts, AppsFact DEF FirstFree, FirstToken, FreeTokens
<1>5. /\ IsEntries(r1) /\ r1[job.idx].tok = t
      /\ \A i \in Apps : i # job.idx => r1[i] = ram[i]
      /\ \A i \in Apps : r1[i].loaded = ram[i].loaded
  BY <1>3, <1>4 DEF Entry, IsEntries
<1>6. IsStatus(st1) /\ \A u \in Tokens : u # t => st1[u] = tstat[u]
  BY <1>3, <1>4 DEF Status, IsStatus
<1>6a. /\ ram' = r1 /\ reg' = Published(count, r1)
      /\ tstat' = MirroredStatus(count, r1, st1)
      /\ tapp' = MirroredApp(count, r1, st1)
      /\ lookup' = [lookup EXCEPT ![t] = b]
  BY <1>1
<1> HIDE DEF r1, st1
<1>7. Sound(btype')
  <2>1. Sound(SetType(btype, {b}, "app"))
    BY <1>3, <1>4, SetTypeFact, ClientTypesFact
  <2> QED
    BY <1>1, <2>1, AnchoredFact
<1>8. TypeOK'
  BY <1>2, <1>3, <1>4, <1>5, <1>6, <1>7, <1>6a, MirrorFact
     DEF IInv, TypeOK, Status, PCs, bankVars, shimVars, appVars, hotkeyVars,
         IsEntries, IsStatus, Sound, AppPCs
<1>9. FixedBanks' /\ HeaderValid' /\ JobOK' /\ RunningHasToken'
  BY <1>1, <1>6a, <1>2, <1>3, <1>4, <1>5, <1>7
     DEF FixedBanks, HeaderValid, JobOK, RunningHasToken, Sound, AppPCs
<1>10. LoadedHasToken'
  BY <1>6a, <1>2, <1>3, <1>4, <1>5 DEF IInv, LoadedHasToken
<1>11. TokensMapped'
  <2>1. \A u \in Tokens : lookup'[u] = IF u = t THEN b ELSE lookup[u]
    BY <1>1 DEF IInv, TypeOK
  <2>2. ASSUME NEW u \in Tokens, tstat'[u] # "free" PROVE lookup'[u] # 0
    <3>1. st1[u] # "free"
      BY <1>6a, <1>3, <1>5, <1>6, <2>2, MirrorFact
    <3>2. u # t => tstat[u] # "free"
      BY <1>6, <3>1
    <3> QED
      BY <1>4, <2>1, <3>2 DEF IInv, TokensMapped
  <2>3. ASSUME NEW i \in Apps, r1[i].tok # 0 PROVE lookup'[r1[i].tok] # 0
    <3>1. CASE i = job.idx
      BY <1>4, <1>5, <2>1, <3>1
    <3>2. CASE i # job.idx
      <4>1. ram[i].tok \in Tokens /\ lookup[ram[i].tok] # 0
        BY <1>3, <1>5, <2>3, <3>2 DEF IInv, TokensMapped, Entry, IsEntries
      <4> QED
        BY <1>4, <1>5, <2>1, <3>2, <4>1
    <3> QED
      BY <3>1, <3>2
  <2>4. cur' # 0 => lookup'[cur'] # 0
    BY <1>2, <1>4, <2>1 DEF IInv, TypeOK, TokensMapped, shimVars
  <2> QED
    <3>1. reg'.apps = r1 /\ ram' = r1
      BY <1>6a, <1>3, <1>5, <1>6, MirrorFact
    <3> QED
      BY <2>2, <2>3, <2>4, <3>1 DEF TokensMapped
<1> QED
  BY <1>7, <1>8, <1>9, <1>10, <1>11 DEF IInv

LEMMA IInvFacts ==
  ASSUME IInv
  PROVE  /\ pc # "off" => Sound(btype)
         /\ IsEntries(ram) /\ IsStatus(tstat) /\ IsEntries(reg.apps)
         /\ count \in 0 .. MaxApps /\ reg.count \in 0 .. MaxApps
         /\ saved \in {0} \cup Tokens
         /\ lookup \in [Tokens -> {0} \cup Usable]
         /\ \A t \in Tokens : tstat[t] # "free" => lookup[t] # 0
         /\ pc # "off" => hdr
BY DEF IInv, TypeOK, FixedBanks, Sound, IsEntries, IsStatus, Status,
       TokensMapped, HeaderValid

\* The bank of the running app is a bank that can be written.
LEMMA HomeFact ==
  ASSUME IInv, pc \in AppPCs
  PROVE  cur \in Tokens /\ Home \in Usable
BY DEF IInv, TypeOK, RunningHasToken, TokensMapped, Home, AppPCs

LEMMA NoTokenStep == ASSUME IInv, NoToken PROVE IInv'
BY DEF NoToken, GoTo, IInv, TypeOK, FixedBanks, HeaderValid, JobOK,
       LoadedHasToken, RunningHasToken, TokensMapped, PCs, tokenVars,
       catalogVars, bankVars, menuVars, shimVars, appVars, hotkeyVars, AppPCs

LEMMA DmaLoadFailsStep == ASSUME IInv, DmaLoadFails PROVE IInv'
BY DEF DmaLoadFails, GoTo, IInv, TypeOK, FixedBanks, HeaderValid, JobOK,
       LoadedHasToken, RunningHasToken, TokensMapped, PCs, Images, tokenVars,
       catalogVars, menuVars, shimVars, appVars, hotkeyVars, AppPCs

LEMMA AppInitStep == ASSUME IInv, AppInit PROVE IInv'
BY DEF AppInit, GoTo, IInv, TypeOK, FixedBanks, HeaderValid, JobOK,
       LoadedHasToken, RunningHasToken, TokensMapped, PCs, tokenVars,
       catalogVars, bankVars, menuVars, shimVars, appVars, hotkeyVars, AppPCs

LEMMA ResumeNotesStep == ASSUME IInv, ResumeNotes PROVE IInv'
<1>1. held' \subseteq Usable
  BY HomeFact, BankFacts
     DEF ResumeNotes, AppPCs, IInv, TypeOK, Payload, NoPayload
<1> QED
  BY <1>1 DEF ResumeNotes, GoTo, IInv, TypeOK, FixedBanks, HeaderValid, JobOK,
              LoadedHasToken, RunningHasToken, TokensMapped, PCs, tokenVars,
              catalogVars, bankVars, menuVars, shimVars, hotkeyVars, AppPCs

\* A step of an app that changes the bank types, and resource records,
\* clipboard or held banks, as their types allow.
LEMMA AppStep ==
  ASSUME IInv, pc \in AppPCs, pc' \in AppPCs, Sound(btype'),
         recs' \subseteq Record, held' \subseteq Usable, clip' \subseteq Usable,
         UNCHANGED <<hdr, tokenVars, catalogVars, bankVars, menuVars,
                     shimVars, running, hotkeyVars, job>>
  PROVE  IInv'
BY DEF Sound, IInv, TypeOK, FixedBanks, HeaderValid, JobOK, LoadedHasToken,
       RunningHasToken, TokensMapped, PCs, tokenVars, catalogVars, bankVars,
       menuVars, shimVars, hotkeyVars, AppPCs

LEMMA StartNotesStep == ASSUME IInv, StartNotes PROVE IInv'
BY IInvFacts, AppStep
   DEF StartNotes, GoTo, AppPCs, IInv, TypeOK

LEMMA NoteRefusedStep == ASSUME IInv, NoteRefused PROVE IInv'
BY IInvFacts, AppStep
   DEF NoteRefused, GoTo, AppPCs, IInv, TypeOK, appVars

\* A bank that an owner is given.
LEMMA TakenFact ==
  ASSUME IInv, TakeNote
  PROVE  \E b \in Usable :
           /\ b \in FreeBanks(btype) /\ tapp[cur] \in Apps
           /\ held' = held \cup {b}
           /\ btype' = SetType(btype, {b}, "alloc")
           /\ recs' = recs \cup
                {[app |-> tapp[cur], kind |-> "alloc", bank |-> b]}
<1>1. PICK b \in NextNote :
        /\ held' = held \cup {b}
        /\ btype' = SetType(btype, {b}, "alloc")
        /\ recs' = recs \cup
                     {[app |-> tapp[cur], kind |-> "alloc", bank |-> b]}
  BY DEF TakeNote
<1>2. cur \in Tokens /\ Sound(btype)
  BY HomeFact, IInvFacts DEF TakeNote, AppPCs
<1>3. b \in FreeBanks(btype) /\ tapp[cur] # 0
  BY <1>1 DEF NextNote, FirstFree
<1>4. b \in Usable /\ tapp[cur] \in Apps
  BY <1>2, <1>3, FreeFact DEF IInv, TypeOK
<1> QED
  BY <1>1, <1>3, <1>4

LEMMA TakeNoteStep == ASSUME IInv, TakeNote PROVE IInv'
<1>1. PICK b \in Usable :
        /\ tapp[cur] \in Apps
        /\ held' = held \cup {b}
        /\ btype' = SetType(btype, {b}, "alloc")
        /\ recs' = recs \cup
                     {[app |-> tapp[cur], kind |-> "alloc", bank |-> b]}
  BY TakenFact
<1>2. Sound(btype)
  BY IInvFacts DEF TakeNote
<1>3. recs' \subseteq Record /\ held' \subseteq Usable
  BY <1>1 DEF IInv, TypeOK, Record, Kinds
<1>4. Sound(btype')
  BY <1>1, <1>2, SetTypeFact, ClientTypesFact
<1>5. pc \in AppPCs /\ pc' \in AppPCs
  BY DEF TakeNote, GoTo, AppPCs
<1> QED
  BY <1>3, <1>4, <1>5, AppStep DEF TakeNote, GoTo, IInv, TypeOK

LEMMA GiveBackStep == ASSUME IInv, NEW b \in held, GiveBack(b) PROVE IInv'
<1>1. Sound(btype) /\ b \in Usable
  BY IInvFacts DEF GiveBack, IInv, TypeOK
<1>2. Sound(btype')
  BY <1>1, FreeBankFact DEF GiveBack
<1>3. recs' \subseteq Record /\ held' \subseteq Usable
  BY DEF GiveBack, RecordsWithout, IInv, TypeOK
<1>4. pc \in AppPCs /\ pc' \in AppPCs
  BY DEF GiveBack, GoTo, AppPCs
<1> QED
  BY <1>2, <1>3, <1>4, AppStep DEF GiveBack, GoTo, IInv, TypeOK

LEMMA ClipCopyStep == ASSUME IInv, ClipCopy PROVE IInv'
<1>1. PICK b \in FirstFree(btype) :
        btype' = SetType(btype, {b}, "clip") /\ clip' = clip \cup {b}
  BY DEF ClipCopy
<1>2. pc = "app" /\ pc' = "app" /\ Sound(btype)
  BY IInvFacts DEF ClipCopy
<1>3. b \in Usable
  BY <1>2, FreeFact DEF FirstFree
<1>4. Sound(btype')
  BY <1>1, <1>2, <1>3, SetTypeFact, ClientTypesFact
<1> QED
  BY <1>1, <1>2, <1>3, <1>4, AppStep DEF ClipCopy, AppPCs, appVars, IInv,
     TypeOK

LEMMA ClipFreeStep ==
  ASSUME IInv, NEW S, ClipFree(S)
  PROVE  IInv'
<1>1. pc = "app" /\ pc' = "app" /\ Sound(btype) /\ S \subseteq Usable
  BY IInvFacts DEF ClipFree, IInv, TypeOK
<1>2. Sound(btype')
  BY <1>1, FreeBankFact DEF ClipFree
<1> QED
  BY <1>1, <1>2, AppStep DEF ClipFree, AppPCs, appVars, IInv, TypeOK

LEMMA QuitStep == ASSUME IInv, Quit PROVE IInv'
<1>1. Sound(btype) /\ held \subseteq Usable
  BY IInvFacts DEF Quit, IInv, TypeOK
<1>2. Sound(btype')
  BY <1>1, FreeBankFact DEF Quit
<1>3. TypeOK'
  <2>1. /\ tail' \in [Banks -> Payload \cup {NoPayload}]
        /\ recs' \subseteq Record
    BY DEF Quit, RecordsWithout, IInv, TypeOK
  <2>2. /\ job' \in Job /\ pc' \in PCs /\ ram' \in [Apps -> Entry]
        /\ count' \in 0 .. MaxApps
    BY BlankFact, AppsFact DEF Quit, PowerDown, NoJob, Job, PCs, AppPCs
  <2> QED
    BY <1>2, <2>1, <2>2
    DEF Quit, PowerDown, IInv, TypeOK, Sound, tokenVars, catalogVars,
         hotkeyVars
<1>4. /\ FixedBanks' /\ HeaderValid' /\ JobOK' /\ LoadedHasToken'
      /\ RunningHasToken' /\ TokensMapped'
  BY <1>2, BlankFact
     DEF Quit, PowerDown, IInv, FixedBanks, HeaderValid, JobOK, Sound,
         LoadedHasToken, RunningHasToken, TokensMapped, tokenVars, catalogVars,
         AppPCs
<1> QED
  BY <1>3, <1>4 DEF IInv

\* The entries of the launcher that a step leaves.
Mapped(r) == \A i \in Apps : r[i].tok # 0 => lookup[r[i].tok] # 0
Tokened(r) == \A i \in Apps : r[i].loaded => r[i].tok # 0
StatusMapped(st) == \A t \in Tokens : st[t] # "free" => lookup[t] # 0

LEMMA EntriesFacts ==
  ASSUME IInv
  PROVE  /\ Mapped(ram) /\ Mapped(reg.apps) /\ Tokened(ram)
         /\ StatusMapped(tstat)
BY DEF IInv, TokensMapped, LoadedHasToken, Mapped, Tokened, StatusMapped

\* What a step of the launcher may do to the tables.
LEMMA LauncherStep ==
  ASSUME IInv, pc # "off", hdr' = hdr, lookup' = lookup,
         Sound(btype'), IsStatus(tstat'), StatusMapped(tstat'),
         tapp' \in [Tokens -> {0} \cup Apps],
         reg' \in [count : 0 .. MaxApps, apps : [Apps -> Entry]],
         Mapped(reg'.apps),
         IsEntries(ram'), Mapped(ram'), Tokened(ram'), count' \in 0 .. MaxApps,
         file' \in [Apps -> Prog \cup {None}], recs' \subseteq Record,
         hotkey' \in [Slots -> {0} \cup Tokens],
         bound' \in [Slots -> Prog \cup {None}], stale' \subseteq Slots,
         image' \in [Banks -> Images], saved' \in {0} \cup Tokens,
         pc' \in PCs \ ({"off"} \cup AppPCs), job' \in Job, JobOK',
         UNCHANGED <<clip, tail, cur, appVars>>
  PROVE  IInv'
<1>1. TypeOK'
  BY DEF IInv, TypeOK, Sound, IsStatus, Status, IsEntries, appVars
<1>2. FixedBanks' /\ HeaderValid' /\ RunningHasToken' /\ LoadedHasToken'
  BY DEF IInv, FixedBanks, HeaderValid, RunningHasToken, LoadedHasToken, Sound,
         Tokened, AppPCs
<1>3. TokensMapped'
  BY DEF IInv, TokensMapped, Mapped, StatusMapped
<1> QED
  BY <1>1, <1>2, <1>3 DEF IInv

LEMMA SyncFact ==
  ASSUME IInv, NEW n \in 0 .. MaxApps, NEW r, NEW st, NEW bt,
         IsEntries(r), Mapped(r), Tokened(r), IsStatus(st), StatusMapped(st),
         Sound(bt), Sync(n, r, st, bt)
  PROVE  /\ IsEntries(ram') /\ \A i \in Apps : ram'[i].tok = r[i].tok
         /\ Mapped(ram') /\ Tokened(ram')
         /\ IsStatus(tstat') /\ StatusMapped(tstat')
         /\ Sound(btype') /\ saved' = 0
<1> DEFINE st1 == SyncedStatus(n, r, st)
           r1  == SyncedEntries(n, r, st1)
<1>1. ram' = r1 /\ tstat' = st1 /\ saved' = 0
      /\ btype' = SetType(bt, LoadedBanks(n, r1, st1), "app")
  BY DEF Sync
<1>2. IsStatus(st1) /\ StatusMapped(st1)
  BY IInvFacts, SyncedStatusFact DEF StatusMapped
<1> HIDE DEF st1
<1>3. /\ IsEntries(r1) /\ \A i \in Apps : r1[i].tok = r[i].tok
      /\ \A i \in Apps : r1[i].loaded => r1[i].tok # 0
  BY <1>2, SyncedEntriesFact DEF Tokened
<1> HIDE DEF r1
<1>4. Mapped(r1) /\ Tokened(r1)
  BY <1>3 DEF Mapped, Tokened
<1>5. LoadedBanks(n, r1, st1) \subseteq Usable
  BY <1>2, <1>3, IInvFacts, LoadedBanksFact DEF StatusMapped
<1>6. Sound(btype')
  BY <1>1, <1>5, SetTypeFact, ClientTypesFact
<1> QED
  BY <1>1, <1>2, <1>3, <1>4, <1>6

LEMMA SelectLoadStep ==
  ASSUME IInv, NEW i \in Apps, SelectLoad(i) \/ SelectLaunch(i)
  PROVE  IInv'
<1>1. /\ pc = "menu" /\ i \in 1 .. count /\ Sync(count, ram, tstat, btype)
      /\ UNCHANGED <<hdr, lookup, tapp, catalogVars, recs, clip, bankVars,
                     count, cur, appVars, hotkeyVars>>
  BY CatalogAssumption, IInvFacts DEF SelectLoad, SelectLaunch, Apps
<1>2. \/ pc' = "menu" /\ job' = NoJob
      \/ pc' = "alloc" /\ job' \in Job /\ job'.idx = i
      \/ /\ pc' = "launch" /\ job' \in Job /\ job'.idx = i
         /\ ram'[i].loaded
  BY DEF SelectLoad, SelectLaunch, BackToMenu, Job
<1>3. /\ IsEntries(ram') /\ Mapped(ram') /\ Tokened(ram')
      /\ IsStatus(tstat') /\ StatusMapped(tstat')
      /\ Sound(btype') /\ saved' = 0
  BY <1>1, IInvFacts, EntriesFacts, SyncFact
<1>4. JobOK' /\ job' \in Job /\ pc' \in PCs \ ({"off"} \cup AppPCs)
  BY <1>1, <1>2, <1>3 DEF JobOK, Tokened, NoJob, Job, PCs, AppPCs
<1> QED
  BY <1>1, <1>3, <1>4, EntriesFacts, LauncherStep
     DEF IInv, TypeOK, Mapped, catalogVars, bankVars, hotkeyVars

LEMMA NewEntryFact ==
  ASSUME NEW p \in Prog
  PROVE  /\ NewEntry(p) \in Entry
         /\ NewEntry(p).tok = 0 /\ NewEntry(p).loaded = FALSE
<1>1. ASSUME NEW s \in 0 .. NSlots, NEW b \in BOOLEAN,
             NEW e, e = [BlankEntry EXCEPT !.slot = s, !.basic = b]
      PROVE  e \in Entry /\ e.tok = 0 /\ e.loaded = FALSE
  BY <1>1 DEF BlankEntry, Entry
<1>2. DefaultSlot[p] \in 0 .. NSlots /\ (p \in NeedsBasic) \in BOOLEAN
  BY CatalogAssumption
<1> QED
  BY <1>1, <1>2, Zenon DEF NewEntry

LEMMA SelectManifestStep ==
  ASSUME IInv, NEW p \in Manifests, SelectManifest(p)
  PROVE  IInv'
<1> DEFINE n == count + 1
           r == [ram EXCEPT ![n] = NewEntry(p)]
<1>1. /\ pc = "menu" /\ pc' = "alloc" /\ count' = n
      /\ file' = [file EXCEPT ![n] = p]
      /\ Sync(n, r, tstat, btype)
      /\ job' = [kind |-> "manifest", idx |-> n]
      /\ UNCHANGED <<hdr, lookup, tapp, reg, recs, clip, bankVars, cur, appVars,
                     hotkeyVars>>
  BY DEF SelectManifest
<1>2. n \in 0 .. MaxApps /\ n \in Apps /\ n \in 1 .. n /\ p \in Prog
  BY CatalogAssumption, IInvFacts DEF SelectManifest, Apps
<1>3. IsEntries(r) /\ Mapped(r) /\ Tokened(r)
  BY <1>2, IInvFacts, EntriesFacts, NewEntryFact
     DEF IsEntries, Mapped, Tokened
<1> HIDE DEF r
<1>4. /\ IsEntries(ram') /\ Mapped(ram') /\ Tokened(ram')
      /\ IsStatus(tstat') /\ StatusMapped(tstat')
      /\ Sound(btype') /\ saved' = 0
  BY <1>1, <1>2, <1>3, IInvFacts, EntriesFacts, SyncFact
<1>5. JobOK' /\ job' \in Job /\ pc' \in PCs \ ({"off"} \cup AppPCs)
  BY <1>1, <1>2 DEF JobOK, Job, PCs, AppPCs
<1>6. file' \in [Apps -> Prog \cup {None}]
  BY <1>1, <1>2 DEF IInv, TypeOK
<1> QED
  BY <1>1, <1>2, <1>4, <1>5, <1>6, EntriesFacts, LauncherStep
     DEF IInv, TypeOK, bankVars, hotkeyVars

LEMMA LoadFailedStep == ASSUME IInv, LoadFailed PROVE IInv'
<1>1. /\ pc = "failed" /\ pc' = "menu" /\ job' = NoJob
      /\ Sync(count, ram, tstat, btype)
      /\ UNCHANGED <<hdr, lookup, tapp, catalogVars, recs, clip, bankVars,
                     count, cur, appVars, hotkeyVars>>
  BY DEF LoadFailed, BackToMenu
<1>2. /\ IsEntries(ram') /\ Mapped(ram') /\ Tokened(ram')
      /\ IsStatus(tstat') /\ StatusMapped(tstat')
      /\ Sound(btype') /\ saved' = 0
  BY <1>1, IInvFacts, EntriesFacts, SyncFact
<1>3. JobOK' /\ job' \in Job /\ pc' \in PCs \ ({"off"} \cup AppPCs)
  BY <1>1 DEF JobOK, NoJob, Job, PCs, AppPCs
<1> QED
  BY <1>1, <1>2, <1>3, EntriesFacts, LauncherStep
     DEF IInv, TypeOK, catalogVars, bankVars, hotkeyVars

LEMMA JobFacts ==
  ASSUME IInv, pc \in {"alloc", "preload", "resources", "loaded", "failed",
                      "launch", "start"}
  PROVE  /\ job.idx \in 1 .. count /\ job.idx \in Apps /\ count >= 1
         /\ Sound(btype)
         /\ pc \notin {"alloc", "failed"} =>
              /\ ram[job.idx].tok \in Tokens
              /\ lookup[ram[job.idx].tok] \in Usable
<1>1. job.idx \in 1 .. count /\ job.idx \in Apps /\ count >= 1 /\ Sound(btype)
  BY AppsFact, IInvFacts DEF IInv, JobOK, TypeOK
<1>2. ram[job.idx] \in Entry
  BY <1>1, IInvFacts DEF IsEntries
<1> QED
  BY <1>1, <1>2 DEF IInv, JobOK, TypeOK, TokensMapped, Entry

LEMMA PreloadStep ==
  ASSUME IInv, NEW got \in Images, Preload(got)
  PROVE  IInv'
<1> DEFINE i == job.idx
           t == ram[i].tok
<1>1. /\ pc = "preload" /\ pc' = "resources" /\ job' = job
      /\ image' = [image EXCEPT ![lookup[t]] = got]
      /\ tstat' = [tstat EXCEPT ![t] = "loaded"]
      /\ ram' = [ram EXCEPT ![i].loaded = TRUE,
                            ![i].ready = @ /\ ~ram[i].basic]
      /\ UNCHANGED <<hdr, btype, lookup, tapp, catalogVars, recs, clip, tail,
                     count, shimVars, appVars, hotkeyVars>>
  BY DEF Preload, GoTo
<1>2. i \in Apps /\ i \in 1 .. count /\ t \in Tokens /\ lookup[t] \in Usable
      /\ t # 0 /\ Sound(btype)
  BY <1>1, JobFacts, AppsFact
<1>3. ram[i] \in Entry
  BY <1>2, IInvFacts DEF IsEntries
<1>4. /\ ram' = [ram EXCEPT ![i] = [ram[i] EXCEPT !.loaded = TRUE,
                                   !.ready = ram[i].ready /\ ~ram[i].basic]]
  BY <1>1, <1>2, <1>3, IInvFacts DEF IsEntries, Entry
<1>5. ASSUME NEW e, e = [ram[i] EXCEPT !.loaded = TRUE,
                           !.ready = ram[i].ready /\ ~ram[i].basic]
      PROVE  e \in Entry /\ e.tok = t
  BY <1>3, <1>5 DEF Entry
<1>6. IsEntries(ram') /\ \A j \in Apps : ram'[j].tok = ram[j].tok
  BY <1>2, <1>4, <1>5, IInvFacts DEF IsEntries
<1>7. \A j \in Apps : j # i => ram'[j] = ram[j]
  BY <1>2, <1>4, IInvFacts DEF IsEntries
<1>8. Mapped(ram') /\ Tokened(ram')
  BY <1>2, <1>6, <1>7, EntriesFacts DEF Mapped, Tokened
<1>9. IsStatus(tstat') /\ StatusMapped(tstat')
  BY <1>1, <1>2, IInvFacts, EntriesFacts, BankFacts
     DEF IsStatus, Status, StatusMapped
<1>10. JobOK' /\ job' \in Job /\ pc' \in PCs \ ({"off"} \cup AppPCs)
  BY <1>1, <1>2, <1>6 DEF IInv, TypeOK, JobOK, PCs, AppPCs
<1>11. image' \in [Banks -> Images]
  BY <1>1 DEF IInv, TypeOK
<1> QED
  BY <1>1, <1>2, <1>6, <1>8, <1>9, <1>10, <1>11, EntriesFacts, LauncherStep
     DEF IInv, TypeOK, catalogVars, shimVars, hotkeyVars

\* Hotkey bytes hold tokens.
IsHotkeys(hk) == hk \in [Slots -> {0} \cup Tokens]

LEMMA SetHotkeysFact ==
  ASSUME IInv, NEW hk, IsHotkeys(hk), NEW r, SetHotkeys(hk, r)
  PROVE  /\ IsHotkeys(hotkey') /\ bound' \in [Slots -> Prog \cup {None}]
         /\ stale' \subseteq Slots
<1>1. /\ hotkey' = hk
      /\ bound' = [s \in Slots |->
           IF hk[s] = hotkey[s] THEN bound[s]
           ELSE IF \E i \in Apps : r[i].tok # 0 /\ r[i].tok = hk[s]
           THEN file[CHOOSE i \in Apps : r[i].tok # 0 /\ r[i].tok = hk[s]]
           ELSE None]
      /\ stale' \subseteq stale
  BY DEF SetHotkeys
<1>2. ASSUME NEW s \in Slots PROVE bound'[s] \in Prog \cup {None}
  BY <1>1 DEF IInv, TypeOK
<1> QED
  BY <1>1, <1>2 DEF IInv, TypeOK

LEMMA HotkeysFact ==
  ASSUME IInv
  PROVE  /\ IsHotkeys(hotkey)
         /\ \A t \in Tokens : IsHotkeys(ClearedHotkeys(t))
         /\ \A i \in Apps : IsHotkeys(DefaultBound(i))
BY IInvFacts
   DEF IInv, TypeOK, IsHotkeys, ClearedHotkeys, DefaultBound, IsEntries, Entry

LEMMA SeededFact ==
  ASSUME NEW n \in 0 .. MaxApps, NEW r, IsEntries(r), NEW hk, IsHotkeys(hk)
  PROVE  IsHotkeys(SeededHotkeys(n, r, hk))
<1>1. ASSUME NEW s \in Slots
      PROVE  SeededHotkeys(n, r, hk)[s] \in {0} \cup Tokens
  <2>1. CASE hk[s] = 0 /\ \E i \in 1 .. n : SeedsSlot(n, r, i, s)
    <3> DEFINE c == CHOOSE i \in 1 .. n : SeedsSlot(n, r, i, s)
    <3>1. c \in Apps
      BY <2>1, AppsFact
    <3>2. SeededHotkeys(n, r, hk)[s] = r[c].tok
      BY <2>1 DEF SeededHotkeys
    <3> QED
      BY <3>1, <3>2 DEF IsEntries, Entry
  <2>2. CASE ~(hk[s] = 0 /\ \E i \in 1 .. n : SeedsSlot(n, r, i, s))
    BY <2>2 DEF SeededHotkeys, IsHotkeys
  <2> QED
    BY <2>1, <2>2
<1> QED
  BY <1>1 DEF SeededHotkeys, IsHotkeys

LEMMA FreedFact ==
  ASSUME IInv, NEW bt, Sound(bt), NEW i \in Apps
  PROVE  /\ Sound(FreedResources(bt, i))
         /\ OtherRecords(i) \subseteq Record
<1>1. OwnedBanks(i) \subseteq Usable /\ OtherRecords(i) \subseteq Record
  BY DEF OwnedBanks, OtherRecords, IInv, TypeOK, Record
<1>2. ram[i].core \in {0} \cup Usable /\ ram[i].code \in {0} \cup Usable
  BY IInvFacts DEF IsEntries, Entry
<1> QED
  BY <1>1, <1>2, FreePhysicalFact DEF FreedResources

LEMMA UnloadStep ==
  ASSUME IInv, NEW i \in Apps, Unload(i)
  PROVE  IInv'
<1> DEFINE t == ram[i].tok
           st1 == [tstat EXCEPT ![t] = "free"]
           snap == IF tstat[t] # "free" THEN {lookup[t]} ELSE {}
           r1 == [ram EXCEPT ![i] = [@ EXCEPT !.tok = 0, !.loaded = FALSE,
                                     !.ready = FALSE, !.core = 0, !.code = 0]]
<1>1. /\ pc = "menu" /\ i <= count /\ t # 0
      /\ SetHotkeys(ClearedHotkeys(t), r1)
      /\ btype' = Anchored(FreedResources(FreePhysical(btype, snap), i))
      /\ recs' = OtherRecords(i)
      /\ ram' = r1
      /\ tstat' = MirroredStatus(count, r1, st1)
      /\ tapp' = MirroredApp(count, r1, st1)
      /\ reg' = Published(count, r1)
      /\ saved' = (IF saved = t THEN 0 ELSE saved)
      /\ image' = [image EXCEPT ![lookup[t]] = None]
      /\ UNCHANGED <<hdr, lookup, file, clip, tail, pc, job, count, cur, appVars>>
  BY DEF Unload
<1>2. ram[i] \in Entry /\ t \in Tokens
  BY <1>1, IInvFacts DEF IsEntries, Entry
<1>3. /\ IsEntries(r1) /\ r1[i].tok = 0 /\ r1[i].loaded = FALSE
      /\ \A j \in Apps : j # i => r1[j] = ram[j]
  <2>1. ASSUME NEW e, e = [ram[i] EXCEPT !.tok = 0, !.loaded = FALSE,
                             !.ready = FALSE, !.core = 0, !.code = 0]
        PROVE  e \in Entry /\ e.tok = 0 /\ e.loaded = FALSE
    BY <1>2, <2>1 DEF Entry
  <2> QED
    BY <2>1, IInvFacts DEF IsEntries
<1>4. IsStatus(st1) /\ StatusMapped(st1)
  BY <1>2, IInvFacts, EntriesFacts DEF IsStatus, Status, StatusMapped
<1>5. snap \subseteq Usable \cup {0}
  BY <1>2, IInvFacts
<1>6. Sound(btype')
  BY <1>1, <1>5, IInvFacts, FreePhysicalFact, FreedFact, AnchoredFact
<1>7. /\ IsHotkeys(hotkey') /\ bound' \in [Slots -> Prog \cup {None}]
      /\ stale' \subseteq Slots
  BY <1>1, <1>2, HotkeysFact, SetHotkeysFact
<1> HIDE DEF st1, r1
<1>8. /\ IsStatus(tstat') /\ StatusMapped(tstat')
      /\ tapp' \in [Tokens -> {0} \cup Apps]
      /\ reg' \in [count : 0 .. MaxApps, apps : [Apps -> Entry]]
      /\ reg'.apps = r1
  BY <1>1, <1>3, <1>4, MirrorFact, IInvFacts DEF StatusMapped
<1>9. Mapped(r1) /\ Tokened(r1)
  BY <1>3, EntriesFacts DEF Mapped, Tokened
<1>10. JobOK' /\ job' \in Job /\ pc' \in PCs \ ({"off"} \cup AppPCs)
  BY <1>1 DEF IInv, TypeOK, JobOK, PCs, AppPCs
<1>11. image' \in [Banks -> Images] /\ saved' \in {0} \cup Tokens
  BY <1>1, IInvFacts DEF IInv, TypeOK, Images
<1>12. recs' \subseteq Record
  BY <1>1, IInvFacts, FreedFact
<1> QED
  BY <1>1, <1>3, <1>6, <1>7, <1>8, <1>9, <1>10, <1>11, <1>12, LauncherStep
     DEF IInv, TypeOK, IsHotkeys

-----------------------------------------------------------------------------
LEMMA MarkBasicFact ==
  ASSUME NEW bt, Sound(bt), NEW c \in {0} \cup Usable, NEW d \in {0} \cup Usable
  PROVE  Sound(MarkBasic(bt, c, d))
<1>1. Sound(SetType(bt, {c} \ {0}, "rbcore"))
  BY SetTypeFact, ClientTypesFact
<1> QED
  BY <1>1, SetTypeFact, ClientTypesFact DEF MarkBasic

\* An outcome of launcher_prepare_app_resources for app i.
Outcome(o, i) ==
  /\ o.ok \in BOOLEAN
  /\ o.recs \subseteq Record /\ Sound(o.types)
  /\ o.entry \in Entry
  /\ o.entry.tok = ram[i].tok /\ o.entry.loaded = ram[i].loaded

LEMMA LoadedBasicFact ==
  ASSUME IInv, NEW i \in Apps, NEW bt, Sound(bt), NEW o \in LoadedBasic(bt, i)
  PROVE  Outcome(o, i)
<1> DEFINE e == ram[i]
<1>1. e \in Entry
  BY IInvFacts DEF IsEntries
<1>2. CASE BasicBanks(bt, e) = {}
  <2>1. o = [ok |-> FALSE, mirrored |-> FALSE, recs |-> recs,
         types |-> FreePhysical(bt, KeptCore(bt, e) \cup KeptCode(bt, e)),
         entry |-> [e EXCEPT !.core = 0, !.code = 0]]
    BY <1>2 DEF LoadedBasic
  <2>2. KeptCore(bt, e) \cup KeptCode(bt, e) \subseteq Usable
    BY <1>1 DEF KeptCore, KeptCode, Validated, Entry
  <2>3. Sound(o.types)
    BY <2>1, <2>2, FreePhysicalFact
  <2>4. /\ o.entry \in Entry
        /\ o.entry.tok = ram[i].tok /\ o.entry.loaded = ram[i].loaded
    BY <1>1, <2>1 DEF Entry
  <2> QED
    BY <2>1, <2>3, <2>4 DEF Outcome, IInv, TypeOK
<1>3. CASE BasicBanks(bt, e) # {}
  <2> DEFINE room == MaxRecs - Cardinality(OtherRecords(i))
             both == room >= 2
  <2>1. PICK p \in BasicBanks(bt, e) :
          o = [ok |-> both, mirrored |-> both,
             recs |-> OtherRecords(i) \cup
                        {x \in BasicRecords(i, p[1], p[2]) :
                           both \/ (room = 1 /\ x.kind = "rbcore")},
             types |-> MarkBasic(bt, p[1], p[2]),
             entry |-> [e EXCEPT !.core = p[1], !.code = p[2],
                                 !.ready = both]]
    BY <1>3 DEF LoadedBasic
  <2>2. p[1] \in Usable /\ p[2] \in Usable
    BY DEF BasicBanks
  <2>3. Sound(o.types)
    BY <2>1, <2>2, MarkBasicFact
  <2>4. BasicRecords(i, p[1], p[2]) \subseteq Record
    BY <2>2 DEF BasicRecords, Record, Kinds
  <2>5. o.recs \subseteq Record
    BY <2>1, <2>4 DEF OtherRecords, IInv, TypeOK
  <2>6. both \in BOOLEAN
    OBVIOUS
  <2> HIDE DEF both
  <2>7. /\ o.entry \in Entry
        /\ o.entry.tok = ram[i].tok /\ o.entry.loaded = ram[i].loaded
    <3>1. ASSUME NEW f, f = [e EXCEPT !.core = p[1], !.code = p[2],
                               !.ready = both]
          PROVE  f \in Entry /\ f.tok = e.tok /\ f.loaded = e.loaded
      BY <1>1, <2>2, <2>6, <3>1 DEF Entry
    <3> QED
      BY <2>1, <3>1
  <2>8. o.ok \in BOOLEAN
    BY <2>1, <2>6
  <2> QED
    BY <2>3, <2>5, <2>7, <2>8 DEF Outcome
<1> QED
  BY <1>2, <1>3

LEMMA PreparedFact ==
  ASSUME IInv, pc # "off", NEW i \in Apps, NEW o \in Prepared(i)
  PROVE  Outcome(o, i)
<1> DEFINE e  == ram[i]
           bt == SetType(btype, LoadedBanks(count, ram, tstat), "app")
<1>1. e \in Entry /\ Sound(btype)
  BY IInvFacts DEF IsEntries
<1>2. Sound(bt)
  <2>1. LoadedBanks(count, ram, tstat) \subseteq Usable
    BY IInvFacts, LoadedBanksFact
  <2> QED
    BY <1>1, <2>1, SetTypeFact, ClientTypesFact
<1>3. CASE ~e.basic
  <2>1. o = [ok |-> TRUE, mirrored |-> FALSE, recs |-> recs,
             types |-> btype, entry |-> e]
    BY <1>3 DEF Prepared
  <2> QED
    BY <1>1, <2>1 DEF Outcome, IInv, TypeOK
<1>4. CASE e.basic /\ e.ready
  <2>1. o = [ok |-> TRUE, mirrored |-> FALSE, recs |-> recs,
             types |-> MarkBasic(bt, e.core, e.code), entry |-> e]
    BY <1>4 DEF Prepared
  <2>2. Sound(o.types)
    BY <1>1, <1>2, <2>1, MarkBasicFact DEF Entry
  <2> QED
    BY <1>1, <2>1, <2>2 DEF Outcome, IInv, TypeOK
<1>5. CASE e.basic /\ ~e.ready
  <2>1. o \in LoadedBasic(bt, i)
    BY <1>5 DEF Prepared
  <2> QED
    BY <1>2, <2>1, LoadedBasicFact
<1> QED
  BY <1>3, <1>4, <1>5

\* The mirror, or nothing, after a step that leaves the entries r.
LEMMA MirrorIfFact ==
  ASSUME IInv, NEW r, IsEntries(r), Mapped(r), NEW cond, MirrorIf(cond, r)
  PROVE  /\ IsStatus(tstat') /\ StatusMapped(tstat')
         /\ tapp' \in [Tokens -> {0} \cup Apps]
         /\ reg' \in [count : 0 .. MaxApps, apps : [Apps -> Entry]]
         /\ Mapped(reg'.apps)
<1>1. CASE cond
  BY <1>1, IInvFacts, MirrorFact DEF MirrorIf, StatusMapped
<1>2. CASE ~cond
  BY <1>2, IInvFacts, EntriesFacts DEF MirrorIf, IInv, TypeOK
<1> QED
  BY <1>1, <1>2

LEMMA LoadResourcesStep == ASSUME IInv, LoadResources PROVE IInv'
<1> DEFINE i == job.idx
<1>1. PICK o \in Prepared(i) :
        LET r1 == [ram EXCEPT ![i] = [o.entry EXCEPT !.loaded = @ /\ o.ok]]
        IN  /\ ram' = r1 /\ recs' = o.recs /\ btype' = Anchored(o.types)
            /\ MirrorIf(o.mirrored \/ ~o.ok, r1)
            /\ GoTo(IF o.ok THEN "loaded" ELSE "failed")
  BY DEF LoadResources
<1>2. /\ pc = "resources"
      /\ UNCHANGED <<hdr, lookup, file, clip, bankVars, count, shimVars,
                     appVars, hotkeyVars>>
  BY DEF LoadResources
<1>3. i \in Apps /\ i \in 1 .. count /\ ram[i].tok \in Tokens /\ ram[i].tok # 0
  BY <1>2, JobFacts, AppsFact
<1>4. Outcome(o, i)
  BY <1>2, <1>3, PreparedFact
<1> DEFINE e  == [o.entry EXCEPT !.loaded = @ /\ o.ok]
           r1 == [ram EXCEPT ![i] = e]
<1>5. e \in Entry /\ e.tok = ram[i].tok /\ (e.loaded => ram[i].loaded)
  BY <1>4 DEF Outcome, Entry
<1>6. /\ ram' = r1 /\ recs' = o.recs /\ btype' = Anchored(o.types)
      /\ MirrorIf(o.mirrored \/ ~o.ok, r1)
      /\ pc' \in {"loaded", "failed"} /\ job' = job
  BY <1>1 DEF GoTo
<1> HIDE DEF e
<1>7. IsEntries(r1) /\ Mapped(r1) /\ Tokened(r1) /\ r1[i].tok # 0
  BY <1>3, <1>5, IInvFacts, EntriesFacts DEF IsEntries, Mapped, Tokened
<1> HIDE DEF r1
<1>8. Sound(btype')
  BY <1>4, <1>6, AnchoredFact DEF Outcome
<1>9. JobOK' /\ job' \in Job /\ pc' \in PCs \ ({"off"} \cup AppPCs)
  BY <1>2, <1>3, <1>6, <1>7 DEF IInv, TypeOK, JobOK, PCs, AppPCs
<1>10. recs' \subseteq Record
  BY <1>4, <1>6 DEF Outcome
<1> QED
  BY <1>2, <1>6, <1>7, <1>8, <1>9, <1>10, MirrorIfFact, LauncherStep
     DEF IInv, TypeOK, bankVars, shimVars, hotkeyVars

LEMMA PrepareLaunchStep == ASSUME IInv, PrepareLaunch PROVE IInv'
<1> DEFINE i == job.idx
<1>1. PICK o \in Prepared(i) :
        LET r1 == [ram EXCEPT ![i] = o.entry]
        IN  /\ ram' = r1 /\ recs' = o.recs
            /\ btype' = IF o.mirrored THEN Anchored(o.types) ELSE o.types
            /\ MirrorIf(o.mirrored, r1)
            /\ IF o.ok THEN GoTo("start") ELSE BackToMenu
  BY DEF PrepareLaunch
<1>2. /\ pc = "launch"
      /\ UNCHANGED <<hdr, lookup, file, clip, bankVars, count, shimVars,
                     appVars, hotkeyVars>>
  BY DEF PrepareLaunch
<1>3. i \in Apps /\ i \in 1 .. count /\ ram[i].tok \in Tokens /\ ram[i].tok # 0
  BY <1>2, JobFacts, AppsFact
<1>4. Outcome(o, i)
  BY <1>2, <1>3, PreparedFact
<1> DEFINE r1 == [ram EXCEPT ![i] = o.entry]
<1>5. /\ ram' = r1 /\ recs' = o.recs
      /\ btype' = IF o.mirrored THEN Anchored(o.types) ELSE o.types
      /\ MirrorIf(o.mirrored, r1)
      /\ \/ pc' = "start" /\ job' = job
         \/ pc' = "menu" /\ job' = NoJob
  BY <1>1 DEF GoTo, BackToMenu
<1>6. IsEntries(r1) /\ Mapped(r1) /\ Tokened(r1) /\ r1[i].tok # 0
  BY <1>3, <1>4, IInvFacts, EntriesFacts
     DEF Outcome, IsEntries, Mapped, Tokened
<1> HIDE DEF r1
<1>7. Sound(btype')
  BY <1>4, <1>5, AnchoredFact DEF Outcome
<1>8. JobOK' /\ job' \in Job /\ pc' \in PCs \ ({"off"} \cup AppPCs)
  BY <1>2, <1>3, <1>5, <1>6 DEF IInv, TypeOK, JobOK, PCs, NoJob, Job, AppPCs
<1>9. recs' \subseteq Record
  BY <1>4, <1>5 DEF Outcome
<1> QED
  BY <1>2, <1>5, <1>6, <1>7, <1>8, <1>9, MirrorIfFact, LauncherStep
     DEF IInv, TypeOK, bankVars, shimVars, hotkeyVars

LEMMA FinishLoadStep == ASSUME IInv, FinishLoad PROVE IInv'
<1> DEFINE i == job.idx
           st1 == MirroredStatus(count, ram, tstat)
           hk == IF job.kind = "manifest"
                 THEN SeededHotkeys(count, ram, DefaultBound(i))
                 ELSE DefaultBound(i)
<1>1. /\ pc = "loaded"
      /\ tapp' = MirroredApp(count, ram, tstat)
      /\ reg' = Published(count, ram)
      /\ Sync(count, ram, st1, Anchored(btype))
      /\ SetHotkeys(hk, ram)
      /\ \/ pc' = "launch" /\ job' = job
         \/ pc' = "menu" /\ job' = NoJob
      /\ UNCHANGED <<hdr, lookup, file, recs, clip, bankVars, count, cur, appVars>>
  BY DEF FinishLoad, GoTo, BackToMenu
<1>2. i \in Apps /\ i \in 1 .. count /\ ram[i].tok # 0 /\ Sound(btype)
  BY <1>1, JobFacts, AppsFact
<1>3. IsHotkeys(hk)
  BY <1>2, HotkeysFact, SeededFact, IInvFacts
<1> HIDE DEF hk
<1>4. /\ IsHotkeys(hotkey') /\ bound' \in [Slots -> Prog \cup {None}]
      /\ stale' \subseteq Slots
  BY <1>1, <1>3, SetHotkeysFact
<1>5. /\ IsStatus(st1) /\ StatusMapped(st1)
      /\ tapp' \in [Tokens -> {0} \cup Apps]
      /\ reg' \in [count : 0 .. MaxApps, apps : [Apps -> Entry]]
      /\ Mapped(reg'.apps)
  BY <1>1, IInvFacts, EntriesFacts, MirrorFact DEF StatusMapped
<1> HIDE DEF st1
<1>6. /\ IsEntries(ram') /\ \A j \in Apps : ram'[j].tok = ram[j].tok
      /\ Mapped(ram') /\ Tokened(ram')
      /\ IsStatus(tstat') /\ StatusMapped(tstat')
      /\ Sound(btype') /\ saved' = 0
  BY <1>1, <1>2, <1>5, IInvFacts, EntriesFacts, AnchoredFact, SyncFact
<1>7. JobOK' /\ job' \in Job /\ pc' \in PCs \ ({"off"} \cup AppPCs)
  BY <1>1, <1>2, <1>6 DEF IInv, TypeOK, JobOK, PCs, NoJob, Job, AppPCs
<1> QED
  BY <1>1, <1>4, <1>5, <1>6, <1>7, LauncherStep
     DEF IInv, TypeOK, IsHotkeys, bankVars

LEMMA ManifestFailedStep == ASSUME IInv, ManifestFailed PROVE IInv'
<1> DEFINE i == job.idx
           st1 == SyncedStatus(count, ram, tstat)
           r1  == SyncedEntries(count, ram, st1)
           bt1 == SetType(btype, LoadedBanks(count, r1, st1), "app")
<1>1. /\ pc = "failed" /\ pc' = "menu" /\ job' = NoJob
      /\ tstat' = st1
      /\ ram' = [r1 EXCEPT ![i] = BlankEntry]
      /\ btype' = FreedResources(bt1, i)
      /\ saved' = 0
      /\ file' = [file EXCEPT ![i] = None]
      /\ count' = count - 1
      /\ recs' = OtherRecords(i)
      /\ UNCHANGED <<hdr, lookup, tapp, reg, clip, bankVars, cur, appVars,
                     hotkeyVars>>
  BY DEF ManifestFailed, BackToMenu
<1>2. i \in Apps /\ count >= 1 /\ Sound(btype)
  BY <1>1, JobFacts
<1>3. IsStatus(st1) /\ StatusMapped(st1)
  BY IInvFacts, SyncedStatusFact DEF StatusMapped
<1> HIDE DEF st1
<1>3a. /\ IsEntries(ram) /\ count \in 0 .. MaxApps
       /\ \A j \in Apps : ram[j].loaded => ram[j].tok # 0
  BY IInvFacts, EntriesFacts DEF Tokened
<1>4. /\ IsEntries(r1) /\ \A j \in Apps : r1[j].tok = ram[j].tok
      /\ \A j \in Apps : r1[j].loaded => r1[j].tok # 0
  BY <1>3, <1>3a, SyncedEntriesFact
<1> HIDE DEF r1
<1>5. LoadedBanks(count, r1, st1) \subseteq Usable
  BY <1>3, <1>4, IInvFacts, LoadedBanksFact DEF StatusMapped
<1>6. Sound(bt1)
  BY <1>2, <1>5, SetTypeFact, ClientTypesFact
<1> HIDE DEF bt1
<1>7. Sound(btype') /\ recs' \subseteq Record
  BY <1>1, <1>2, <1>6, FreedFact
<1>8. IsEntries(ram') /\ Mapped(ram') /\ Tokened(ram')
  BY <1>1, <1>2, <1>4, BlankFact, EntriesFacts
     DEF IsEntries, Mapped, Tokened
<1>9. JobOK' /\ job' \in Job /\ pc' \in PCs \ ({"off"} \cup AppPCs)
  BY <1>1 DEF JobOK, NoJob, Job, PCs, AppPCs
<1>10. count' \in 0 .. MaxApps /\ file' \in [Apps -> Prog \cup {None}]
  BY <1>1, <1>2, IInvFacts, AppsFact DEF IInv, TypeOK
<1> QED
  BY <1>1, <1>3, <1>7, <1>8, <1>9, <1>10, EntriesFacts, LauncherStep
     DEF IInv, TypeOK, bankVars, hotkeyVars

-----------------------------------------------------------------------------
LEMMA DiskFact ==
  /\ IsEntries(DiskApps) /\ Mapped(DiskApps) /\ Tokened(DiskApps)
  /\ DiskFiles \in [Apps -> Prog \cup {None}]
  /\ Len(DiskCatalog) \in 0 .. MaxApps
<1>1. \A i \in 1 .. Len(DiskCatalog) : DiskCatalog[i] \in Prog
  BY CatalogAssumption
<1>2. Len(DiskCatalog) \in 0 .. MaxApps
  BY CatalogAssumption DEF Apps
<1>3. ASSUME NEW i \in Apps
      PROVE  /\ DiskApps[i] \in Entry
             /\ DiskApps[i].tok = 0 /\ DiskApps[i].loaded = FALSE
             /\ DiskFiles[i] \in Prog \cup {None}
  <2>1. CASE i <= Len(DiskCatalog)
    <3>1. DiskCatalog[i] \in Prog
      BY <1>1, <1>2, <2>1, CatalogAssumption DEF Apps
    <3> QED
      BY <2>1, <3>1, NewEntryFact DEF DiskApps, DiskFiles
  <2>2. CASE ~(i <= Len(DiskCatalog))
    BY <2>2, BlankFact DEF DiskApps, DiskFiles
  <2> QED
    BY <2>1, <2>2
<1>4. IsEntries(DiskApps)
  BY <1>3 DEF IsEntries, DiskApps
<1>5. DiskFiles \in [Apps -> Prog \cup {None}]
  BY <1>3 DEF DiskFiles
<1> QED
  BY <1>2, <1>3, <1>4, <1>5 DEF Mapped, Tokened

\* What reu_control_bank_prepare leaves.
LEMMA KeptFact ==
  ASSUME IInv
  PROVE  /\ Sound(Prepare(hdr, btype))
         /\ IsHotkeys(KeptHotkeys) /\ KeptClip \subseteq Usable
<1>1. hdr \in BOOLEAN /\ btype \in [Banks -> BankTypes]
  BY DEF IInv, TypeOK
<1> QED
  BY <1>1, PrepareFact
     DEF IInv, TypeOK, KeptHotkeys, KeptClip, IsHotkeys

LEMMA ColdCatalogStep ==
  ASSUME IInv, pc \in {"off", "return"}, NEW bt, Sound(bt),
         NEW hk, IsHotkeys(hk), ColdCatalog(bt, hk),
         hdr' = TRUE, clip' \subseteq Usable
  PROVE  IInv'
<1>1. Sound(btype')
  BY AnchoredFact DEF ColdCatalog
<1>2. /\ reg' \in [count : 0 .. MaxApps, apps : [Apps -> Entry]]
      /\ reg'.apps = DiskApps
  BY DiskFact DEF ColdCatalog, Published, IsEntries
<1>3. /\ IsEntries(ram') /\ count' \in 0 .. MaxApps
      /\ file' \in [Apps -> Prog \cup {None}]
      /\ tstat' \in [Tokens -> Status] /\ tapp' \in [Tokens -> {0} \cup Apps]
      /\ hotkey' \in [Slots -> {0} \cup Tokens] /\ stale' \subseteq Slots
      /\ image' \in [Banks -> Images] /\ saved' \in {0} \cup Tokens
      /\ recs' \subseteq Record
      /\ pc' = "menu" /\ job' = NoJob
      /\ UNCHANGED <<lookup, tail, cur, running, held, bound>>
  BY DiskFact DEF ColdCatalog, IsHotkeys, Status, Images, appVars
<1>4. TypeOK'
  BY <1>1, <1>2, <1>3
     DEF IInv, TypeOK, Sound, IsEntries, Status, Job, PCs, AppPCs
<1>5. FixedBanks' /\ HeaderValid' /\ JobOK' /\ RunningHasToken'
  BY <1>1, <1>3 DEF FixedBanks, HeaderValid, JobOK, RunningHasToken, Sound,
                    AppPCs
<1>6. LoadedHasToken' /\ TokensMapped'
  <2>1. ram' = DiskApps /\ \A t \in Tokens : tstat'[t] = "free"
    BY DEF ColdCatalog
  <2> QED
    BY <1>2, <1>3, <2>1, DiskFact
       DEF IInv, LoadedHasToken, TokensMapped, Mapped, Tokened
<1> QED
  BY <1>4, <1>5, <1>6 DEF IInv

LEMMA BlankEntriesFact ==
  /\ [i \in Apps |-> BlankEntry] \in [Apps -> Entry]
  /\ \A i \in Apps : /\ [j \in Apps |-> BlankEntry][i].tok = 0
                     /\ [j \in Apps |-> BlankEntry][i].loaded = FALSE
BY BlankFact

LEMMA ColdErrorStep ==
  ASSUME IInv, NEW bt, Sound(bt), ColdError(bt), hdr' = TRUE,
         clip' \subseteq Usable, IsHotkeys(hotkey'),
         UNCHANGED <<bound, stale, tokenVars, reg>>
  PROVE  IInv'
<1>1. /\ btype' = bt /\ recs' = {} /\ file' = [i \in Apps |-> None]
      /\ count' = 0 /\ ram' = [i \in Apps |-> BlankEntry]
      /\ cur' = 0 /\ saved' = 0 /\ running' = None /\ held' = {}
      /\ pc' = "off" /\ job' = NoJob
      /\ UNCHANGED <<image, tail, bound, stale, lookup, tstat, tapp, reg>>
  BY DEF ColdError, bankVars, tokenVars
<1>2. TypeOK'
  BY <1>1, BlankEntriesFact, AppsFact
     DEF IInv, TypeOK, Sound, IsHotkeys, Job, PCs, AppPCs
<1>3. FixedBanks' /\ HeaderValid' /\ JobOK' /\ RunningHasToken'
  BY <1>1 DEF FixedBanks, HeaderValid, JobOK, RunningHasToken, Sound, AppPCs
<1>4. LoadedHasToken' /\ TokensMapped'
  BY <1>1, BlankEntriesFact DEF IInv, LoadedHasToken, TokensMapped
<1> QED
  BY <1>2, <1>3, <1>4 DEF IInv

LEMMA BootStep == ASSUME IInv, Boot PROVE IInv'
BY KeptFact, ColdCatalogStep DEF Boot

LEMMA BootErrorStep == ASSUME IInv, BootError PROVE IInv'
BY KeptFact, ColdErrorStep DEF BootError

LEMMA ColdInitStep == ASSUME IInv, ColdInit PROVE IInv'
<1>1. hdr' = TRUE /\ clip' \subseteq Usable /\ IsHotkeys(hotkey)
  BY HotkeysFact DEF ColdInit, IInv, TypeOK, HeaderValid
<1> QED
  BY <1>1, KeptFact, ColdCatalogStep DEF ColdInit

LEMMA ColdInitErrorStep == ASSUME IInv, ColdInitError PROVE IInv'
<1>1. hdr' = TRUE /\ clip' \subseteq Usable /\ IsHotkeys(hotkey')
      /\ UNCHANGED <<bound, stale, tokenVars, reg>>
  BY HotkeysFact
     DEF ColdInitError, IInv, TypeOK, HeaderValid, hotkeyVars, IsHotkeys
<1> QED
  BY <1>1, KeptFact, ColdErrorStep DEF ColdInitError

LEMMA WarmInitStep == ASSUME IInv, WarmInit PROVE IInv'
<1> DEFINE n   == reg.count
           bt  == Prepare(hdr, btype)
           r0  == [i \in Apps |-> [reg.apps[i] EXCEPT !.loaded = FALSE]]
           st1 == SyncedStatus(n, reg.apps, tstat)
           r1  == SyncedEntries(n, r0, st1)
           hk  == SeededHotkeys(n, r1, hotkey)
<1>1. /\ pc = "return" /\ pc' = "menu" /\ job' = NoJob /\ saved' = 0
      /\ count' = n /\ ram' = r1
      /\ tstat' = MirroredStatus(n, r1, st1)
      /\ tapp' = MirroredApp(n, r1, st1)
      /\ reg' = Published(n, r1)
      /\ btype' = Anchored(SetType(bt, LoadedBanks(n, r1, st1), "app"))
      /\ SetHotkeys(hk, r1)
      /\ UNCHANGED <<hdr, lookup, file, recs, clip, bankVars, cur, appVars>>
  BY DEF WarmInit
<1>2. IsStatus(st1) /\ StatusMapped(st1) /\ n \in 0 .. MaxApps /\ Sound(bt)
  BY IInvFacts, KeptFact, SyncedStatusFact DEF StatusMapped
<1> HIDE DEF st1, bt
<1>3. ASSUME NEW i \in Apps
      PROVE  r0[i] \in Entry /\ r0[i].tok = reg.apps[i].tok /\ ~r0[i].loaded
  BY IInvFacts DEF IsEntries, Entry
<1>4. /\ IsEntries(r0) /\ \A i \in Apps : r0[i].tok = reg.apps[i].tok
      /\ \A i \in Apps : r0[i].loaded => r0[i].tok # 0
  BY <1>3 DEF IsEntries
<1> HIDE DEF r0
<1>5. /\ IsEntries(r1) /\ \A i \in Apps : r1[i].tok = reg.apps[i].tok
      /\ \A i \in Apps : r1[i].loaded => r1[i].tok # 0
  BY <1>2, <1>4, SyncedEntriesFact
<1> HIDE DEF r1
<1>6. Mapped(r1) /\ Tokened(r1)
  BY <1>5, EntriesFacts DEF Mapped, Tokened
<1>7. Sound(btype')
  <2>1. LoadedBanks(n, r1, st1) \subseteq Usable
    BY <1>2, <1>5, IInvFacts, LoadedBanksFact DEF StatusMapped
  <2> QED
    BY <1>1, <1>2, <2>1, SetTypeFact, AnchoredFact, ClientTypesFact
<1>8. /\ IsStatus(tstat') /\ StatusMapped(tstat')
      /\ tapp' \in [Tokens -> {0} \cup Apps]
      /\ reg' \in [count : 0 .. MaxApps, apps : [Apps -> Entry]]
      /\ reg'.apps = r1
  BY <1>1, <1>2, <1>5, MirrorFact DEF StatusMapped
<1>9. IsHotkeys(hk)
  BY <1>2, <1>5, HotkeysFact, SeededFact
<1> HIDE DEF hk
<1>10. /\ IsHotkeys(hotkey') /\ bound' \in [Slots -> Prog \cup {None}]
       /\ stale' \subseteq Slots
  BY <1>1, <1>9, SetHotkeysFact
<1>11. JobOK' /\ job' \in Job /\ pc' \in PCs \ ({"off"} \cup AppPCs)
  BY <1>1 DEF JobOK, NoJob, Job, PCs, AppPCs
<1> QED
  BY <1>1, <1>2, <1>5, <1>6, <1>7, <1>8, <1>10, <1>11, LauncherStep
     DEF IInv, TypeOK, IsHotkeys, bankVars

-----------------------------------------------------------------------------
\* A program is started from a bank of images.
LEMMA RunImageFact ==
  ASSUME NEW t \in Tokens, NEW img \in Images, RunImage(t, img)
  PROVE  /\ cur' = t /\ count' = 0 /\ job' = NoJob /\ held' = {}
         /\ ram' = [i \in Apps |-> BlankEntry]
         /\ running' \in Prog \cup {None}
         /\ pc' \in {"appinit", "return"}
BY DEF RunImage, Images

LEMMA StartStep == ASSUME IInv, Start PROVE IInv'
<1> DEFINE t == ram[job.idx].tok
<1>1. /\ pc = "start" /\ RunImage(t, image[lookup[t]])
      /\ UNCHANGED <<hdr, btype, tokenVars, catalogVars, recs, clip, bankVars,
                     saved, hotkeyVars>>
  BY DEF Start
<1>2. t \in Tokens /\ lookup[t] \in Usable /\ t # 0 /\ Sound(btype) /\ hdr
  BY <1>1, JobFacts, AppsFact, IInvFacts
<1> HIDE DEF t
<1>3. image[lookup[t]] \in Images
  BY <1>2, BankFacts DEF IInv, TypeOK
<1>4. /\ cur' = t /\ count' = 0 /\ job' = NoJob /\ held' = {}
      /\ ram' = [i \in Apps |-> BlankEntry]
      /\ running' \in Prog \cup {None}
      /\ pc' \in {"appinit", "return"}
  BY <1>1, <1>2, <1>3, RunImageFact
<1>5. TypeOK'
  BY <1>1, <1>2, <1>4, BlankEntriesFact, AppsFact
     DEF IInv, TypeOK, Job, PCs, tokenVars, catalogVars, bankVars, hotkeyVars,
         AppPCs
<1>6. FixedBanks' /\ HeaderValid' /\ JobOK' /\ RunningHasToken'
  BY <1>1, <1>2, <1>4
     DEF FixedBanks, HeaderValid, JobOK, RunningHasToken, Sound, AppPCs
<1>7. LoadedHasToken' /\ TokensMapped'
  BY <1>1, <1>2, <1>4, BlankEntriesFact, BankFacts
     DEF IInv, LoadedHasToken, TokensMapped, tokenVars, catalogVars
<1> QED
  BY <1>5, <1>6, <1>7 DEF IInv

LEMMA StashFact ==
  ASSUME IInv, pc = "app", Stash
  PROVE  /\ tail' \in [Banks -> Payload \cup {NoPayload}]
         /\ image' \in [Banks -> Images]
         /\ tstat' \in [Tokens -> Status]
         /\ \A t \in Tokens : tstat'[t] # "free" => lookup[t] # 0
<1>1. cur \in Tokens /\ Home \in Usable /\ Home = lookup[cur] /\ Home # 0
  BY HomeFact, BankFacts DEF Home, AppPCs
<1>2. /\ running \in Images
      /\ running \in Owners =>
           [tok |-> cur, prog |-> running, held |-> held] \in Payload
  BY <1>1, CatalogAssumption DEF IInv, TypeOK, Images, Payload
<1>3. tail' \in [Banks -> Payload \cup {NoPayload}]
  <2> DEFINE pay == IF running \in Owners
                    THEN [tok |-> cur, prog |-> running, held |-> held]
                    ELSE NoPayload
  <2>1. pay \in Payload \cup {NoPayload} /\ tail' = [tail EXCEPT ![Home] = pay]
    BY <1>2 DEF Stash
  <2> HIDE DEF pay
  <2> QED
    BY <2>1 DEF IInv, TypeOK
<1>4. image' \in [Banks -> Images]
  BY <1>2 DEF Stash, IInv, TypeOK
<1>5. /\ tstat' \in [Tokens -> Status]
      /\ \A t \in Tokens : t # cur => tstat'[t] = tstat[t]
  BY <1>1 DEF Stash, IInv, TypeOK, Status
<1> QED
  BY <1>1, <1>3, <1>4, <1>5 DEF IInv, TokensMapped

LEMMA ReturnStep == ASSUME IInv, Return PROVE IInv'
<1>1. /\ pc = "app" /\ Stash /\ pc' = "return" /\ job' = job
      /\ saved' = cur /\ cur' = 0 /\ running' = None /\ held' = {}
      /\ UNCHANGED <<hdr, btype, lookup, tapp, catalogVars, recs, clip,
                     menuVars, hotkeyVars>>
  BY DEF Return, GoTo
<1>2. /\ tail' \in [Banks -> Payload \cup {NoPayload}]
      /\ image' \in [Banks -> Images]
      /\ tstat' \in [Tokens -> Status]
      /\ \A t \in Tokens : tstat'[t] # "free" => lookup[t] # 0
  BY <1>1, StashFact
<1>3. TypeOK'
  BY <1>1, <1>2 DEF IInv, TypeOK, Status, PCs, catalogVars, menuVars,
                    hotkeyVars, AppPCs
<1>4. /\ FixedBanks' /\ HeaderValid' /\ JobOK' /\ LoadedHasToken'
      /\ RunningHasToken' /\ TokensMapped'
  BY <1>1, <1>2
     DEF IInv, FixedBanks, HeaderValid, JobOK, LoadedHasToken, RunningHasToken,
         TokensMapped, catalogVars, menuVars, AppPCs
<1> QED
  BY <1>3, <1>4 DEF IInv

LEMMA SwitchToStep ==
  ASSUME IInv, NEW t \in Tokens, SwitchTo(t)
  PROVE  IInv'
<1>1. /\ pc = "app" /\ tstat[t] = "loaded" /\ Stash
      /\ RunImage(t, image'[lookup[t]])
      /\ UNCHANGED <<hdr, btype, lookup, tapp, catalogVars, recs, clip, saved,
                     hotkeyVars>>
  BY DEF SwitchTo
<1>2. /\ tail' \in [Banks -> Payload \cup {NoPayload}]
      /\ image' \in [Banks -> Images]
      /\ tstat' \in [Tokens -> Status]
      /\ \A u \in Tokens : tstat'[u] # "free" => lookup[u] # 0
  BY <1>1, StashFact
<1>3. t # 0 /\ lookup[t] # 0 /\ lookup[t] \in Banks /\ hdr /\ Sound(btype)
  BY <1>1, AppsFact, BankFacts, IInvFacts
<1>4. image'[lookup[t]] \in Images
  BY <1>2, <1>3
<1>5. /\ cur' = t /\ count' = 0 /\ job' = NoJob /\ held' = {}
      /\ ram' = [i \in Apps |-> BlankEntry]
      /\ running' \in Prog \cup {None}
      /\ pc' \in {"appinit", "return"}
  BY <1>1, <1>4, RunImageFact
<1>6. TypeOK'
  BY <1>1, <1>2, <1>5, BlankEntriesFact, AppsFact
     DEF IInv, TypeOK, Status, Job, PCs, catalogVars, hotkeyVars, AppPCs
<1>7. FixedBanks' /\ HeaderValid' /\ JobOK' /\ RunningHasToken'
  BY <1>1, <1>3, <1>5
     DEF FixedBanks, HeaderValid, JobOK, RunningHasToken, Sound, AppPCs
<1>8. LoadedHasToken' /\ TokensMapped'
  BY <1>1, <1>2, <1>3, <1>5, BlankEntriesFact
     DEF IInv, LoadedHasToken, TokensMapped, catalogVars
<1> QED
  BY <1>6, <1>7, <1>8 DEF IInv

-----------------------------------------------------------------------------
(***************************************************************************)
(* The theorems                                                            *)
(***************************************************************************)
LEMMA LauncherNextStep == ASSUME IInv, LauncherNext PROVE IInv'
<1>1. CASE Boot \/ BootError \/ WarmInit \/ ColdInit \/ ColdInitError
  BY <1>1, BootStep, BootErrorStep, WarmInitStep, ColdInitStep,
     ColdInitErrorStep
<1>2. CASE \E i \in Apps : SelectLoad(i) \/ SelectLaunch(i) \/ Unload(i)
  BY <1>2, SelectLoadStep, UnloadStep
<1>3. CASE \E p \in Manifests : \/ SelectManifest(p)
                               \/ \E i \in Apps : SelectKnownManifest(p, i)
  BY <1>3, SelectManifestStep, SelectLoadStep DEF SelectKnownManifest
<1>4. CASE KeepToken \/ BindToken \/ NoToken \/ DmaLoadFails
  BY <1>4, KeepTokenStep, BindTokenStep, NoTokenStep, DmaLoadFailsStep
<1>5. CASE PreloadFound \/ PreloadNotFound
  <2>1. "launcher" \in Images
    BY DEF Images
  <2>2. pc = "preload" => file[job.idx] \in Images
    BY JobFacts DEF IInv, TypeOK, Images
  <2> QED
    BY <1>5, <2>1, <2>2, PreloadStep
       DEF PreloadFound, PreloadNotFound, Preload
<1>6. CASE LoadResources \/ FinishLoad \/ LoadFailed \/ ManifestFailed
  BY <1>6, LoadResourcesStep, FinishLoadStep, LoadFailedStep,
     ManifestFailedStep
<1>7. CASE PrepareLaunch \/ Start
  BY <1>7, PrepareLaunchStep, StartStep
<1> QED
  BY <1>1, <1>2, <1>3, <1>4, <1>5, <1>6, <1>7 DEF LauncherNext

LEMMA AppNextStep == ASSUME IInv, AppNext PROVE IInv'
<1>1. CASE \/ AppInit \/ ResumeNotes \/ StartNotes \/ TakeNote \/ NoteRefused
           \/ \E b \in held : GiveBack(b)
  BY <1>1, AppInitStep, ResumeNotesStep, StartNotesStep, TakeNoteStep,
     NoteRefusedStep, GiveBackStep
<1>2. CASE NoRoom \/ Quit
  BY <1>2, ResetStep, QuitStep
<1>3. CASE ClipCopy \/ ClipFree(clip) \/ \E b \in clip : ClipFree({b})
  BY <1>3, ClipCopyStep, ClipFreeStep
<1>4. CASE \E s \in Slots : BindHotkey(s)
  BY <1>4, BindHotkeyStep
<1>5. CASE Return \/ \E t \in Tokens : SwitchTo(t)
  BY <1>5, ReturnStep, SwitchToStep
<1> QED
  BY <1>1, <1>2, <1>3, <1>4, <1>5, ResetStep DEF AppNext

\* Every step keeps the inductive invariant, one that changes nothing too.
LEMMA NextIInv == ASSUME IInv, [Next]_vars PROVE IInv'
<1>1. CASE Next
  BY <1>1, LauncherNextStep, AppNextStep DEF Next
<1>2. CASE UNCHANGED vars
  BY <1>2
     DEF vars, IInv, TypeOK, FixedBanks, HeaderValid, JobOK, LoadedHasToken,
         RunningHasToken, TokensMapped, tokenVars, catalogVars, bankVars,
         menuVars, shimVars, appVars, hotkeyVars, AppPCs
<1> QED
  BY <1>1, <1>2

\* The invariant that everything else follows from: no load, unload, launch,
\* stash, restart, clipboard or note allocation of launcher.c, the shim, the
\* REU library and the apps leaves a token in use without a bank, a loaded
\* app without a token, or a fixed bank with another type.
THEOREM InductiveInvariant ==
  ASSUME NotShrunk
  PROVE  Spec => []IInv
<1>1. Init => IInv
  BY InitIInv
<1>2. IInv /\ [Next]_vars => IInv'
  BY NextIInv
<1> QED
  BY <1>1, <1>2, PTL DEF Spec

\* Every table of the ReadyOS bank, the launcher's arrays and the shim's
\* state keep their types: no bank number that is not usable gets into a
\* record, an entry, the clipboard or the token lookup.
THEOREM TypesCorrect ==
  ASSUME NotShrunk
  PROVE  Spec => []TypeOK
<1>1. IInv => TypeOK
  BY DEF IInv
<1> QED
  BY <1>1, InductiveInvariant, PTL

\* The ReadyOS bank, the banks below it and the banks the size probe did not
\* find are never given to anyone, by any of the allocators of launcher.c,
\* reu_mgr_alloc.c and the clipboard, nor made allocatable by a free.
THEOREM FixedBanksNeverGiven ==
  ASSUME NotShrunk
  PROVE  Spec => []FixedBanks
<1>1. IInv => FixedBanks
  BY DEF IInv
<1> QED
  BY <1>1, InductiveInvariant, PTL
=============================================================================
