------------------------------ MODULE Launcher ------------------------------
(***************************************************************************)
(* The launcher (src/apps/launcher/launcher.c, disk flavour): cold and     *)
(* warm start, loading an app into the REU, launching, unloading, and      *)
(* adding an app from a manifest.                                          *)
(*                                                                         *)
(* A load is several steps, because the machine may be reset between any   *)
(* two of them: allocate a token and a bank ("alloc"), put the program     *)
(* into the bank ("preload"), allocate its resources ("resources"), finish *)
(* ("loaded" or "failed").                                                 *)
(***************************************************************************)
EXTENDS ReadyOsBank

\* What follows a step of a load or a launch.
GoTo(label) == pc' = label /\ UNCHANGED job
BackToMenu  == pc' = "menu" /\ job' = NoJob

-----------------------------------------------------------------------------
(***************************************************************************)
(* Hotkeys                                                                 *)
(***************************************************************************)

\* The hotkey bytes become hk; bound and stale record what that means.
SetHotkeys(hk, r) ==
  /\ hotkey' = hk
  /\ bound' = [s \in Slots |->
       IF hk[s] = hotkey[s] THEN bound[s]
       ELSE IF \E i \in Apps : r[i].tok # 0 /\ r[i].tok = hk[s]
       THEN file[CHOOSE i \in Apps : r[i].tok # 0 /\ r[i].tok = hk[s]]
       ELSE None]
  /\ stale' = {s \in stale : hk[s] = hotkey[s]}

\* Mutant: the slots are left alone.
ClearedHotkeysNot(t) == hotkey

\* launcher_clear_hotkey_bank: the slots without token t.
ClearedHotkeys(t) == [s \in Slots |-> IF hotkey[s] = t THEN 0 ELSE hotkey[s]]

\* App i is the first one with a token whose default slot is s.
SeedsSlot(n, r, i, s) ==
  /\ r[i].slot = s /\ r[i].tok # 0
  /\ \A j \in 1 .. n : r[j].slot = s /\ r[j].tok # 0 => i <= j

\* launcher_seed_default_hotkeys: default bindings fill the empty slots of hk.
SeededHotkeys(n, r, hk) ==
  [s \in Slots |->
     IF hk[s] = 0 /\ \E i \in 1 .. n : SeedsSlot(n, r, i, s)
     THEN r[CHOOSE i \in 1 .. n : SeedsSlot(n, r, i, s)].tok
     ELSE hk[s]]

\* launcher_bind_default_hotkey_for_index
DefaultBound(i) ==
  [s \in Slots |-> IF s = ram[i].slot /\ hotkey[s] = 0 THEN ram[i].tok
                   ELSE hotkey[s]]

-----------------------------------------------------------------------------
(***************************************************************************)
(* Start.  catalog_init_defaults, the tables of the ReadyOS bank, then     *)
(* either the published registry (warm) or the catalog on disk (cold).     *)
(***************************************************************************)
DiskApps == [i \in Apps |-> IF i <= Len(DiskCatalog)
                            THEN NewEntry(DiskCatalog[i]) ELSE BlankEntry]

DiskFiles == [i \in Apps |-> IF i <= Len(DiskCatalog)
                             THEN DiskCatalog[i] ELSE None]

\* Cold start with bank types bt and hotkeys hk: resource records and
\* catalog texts are cleared, the catalog is read, nothing has a token, so
\* the mirror frees every token.  The model forgets the images of banks that
\* no token maps to; the code leaves their bytes, which a preload overwrites
\* before the token is loaded again.
ColdCatalog(bt, hk) ==
  /\ count' = Len(DiskCatalog) /\ ram' = DiskApps /\ file' = DiskFiles
  /\ recs' = {}
  /\ btype' = Anchored(bt)
  /\ tstat' = [t \in Tokens |-> "free"] /\ tapp' = [t \in Tokens |-> 0]
  /\ reg' = Published(Len(DiskCatalog), DiskApps)
  /\ saved' = 0
  /\ hotkey' = hk /\ stale' = {s \in Slots : hk[s] # 0} /\ UNCHANGED bound
  /\ pc' = "menu" /\ job' = NoJob
  /\ image' = [b \in Banks |-> None]
  /\ UNCHANGED <<lookup, tail, cur, appVars>>

\* Cold start when apps.cfg cannot be read or is refused: the records and
\* texts are gone, the token tables are not, and the launcher stops.
ColdError(bt) ==
  /\ btype' = bt
  /\ recs' = {} /\ file' = [i \in Apps |-> None]
  /\ count' = 0 /\ ram' = [i \in Apps |-> BlankEntry]
  /\ cur' = 0 /\ saved' = 0 /\ running' = None /\ held' = {}
  /\ pc' = "off" /\ job' = NoJob
  /\ UNCHANGED bankVars

\* reu_control_bank_prepare zeroes all tables of the ReadyOS bank when its
\* header is not valid; a valid bank keeps its hotkeys and its clipboard.
KeptHotkeys == IF hdr THEN hotkey ELSE [s \in Slots |-> 0]
KeptClip    == IF hdr THEN clip ELSE {}

\* Boot from power-on or reset.
Boot ==
  /\ pc = "off"
  /\ hdr' = TRUE /\ clip' = KeptClip
  /\ ColdCatalog(Prepare(hdr, btype), KeptHotkeys)

BootError ==
  /\ pc = "off"
  /\ hdr' = TRUE /\ clip' = KeptClip
  /\ ColdError(Prepare(hdr, btype))
  /\ hotkey' = KeptHotkeys /\ UNCHANGED <<bound, stale>>
  /\ UNCHANGED <<tokenVars, reg>>

\* validate_slot_contract on the registry just restored.
RegistryValid ==
  /\ reg.count >= 1
  /\ \A i \in 1 .. reg.count :
       /\ file[i] # None
       /\ reg.apps[i].tok # 0 =>
            /\ tstat[reg.apps[i].tok] # "free"
            /\ \A j \in (i + 1) .. reg.count :
                 reg.apps[j].tok # reg.apps[i].tok

\* launcher_init after an app returned: the entries come from the registry,
\* are synced with the token tables, mirrored, and seed the empty hotkeys.
WarmInit ==
  /\ pc = "return" /\ RegistryValid
  /\ LET n   == reg.count
         bt  == Prepare(hdr, btype)
         st1 == SyncedStatus(n, reg.apps, tstat)
         r1  == SyncedEntries(n, [i \in Apps |->
                                    [reg.apps[i] EXCEPT !.loaded = FALSE]], st1)
     IN  /\ count' = n /\ ram' = r1
         /\ tstat' = MirroredStatus(n, r1, st1)
         /\ tapp' = MirroredApp(n, r1, st1)
         /\ reg' = Published(n, r1)
         /\ btype' = Anchored(SetType(bt, LoadedBanks(n, r1, st1), "app"))
         /\ SetHotkeys(SeededHotkeys(n, r1, hotkey), r1)
  /\ saved' = 0
  /\ pc' = "menu" /\ job' = NoJob
  /\ UNCHANGED <<hdr, lookup, file, recs, clip, bankVars, cur, appVars>>

\* launcher_init when the restored registry is refused: a cold start within
\* the session.
ColdInit ==
  /\ pc = "return" /\ ~RegistryValid
  /\ ColdCatalog(Prepare(hdr, btype), hotkey)
  /\ UNCHANGED <<hdr, clip>>

ColdInitError ==
  /\ pc = "return" /\ ~RegistryValid
  /\ ColdError(Prepare(hdr, btype))
  /\ UNCHANGED <<hdr, clip, tokenVars, reg, hotkeyVars>>

-----------------------------------------------------------------------------
(***************************************************************************)
(* Choices of the user.  Each syncs with the token tables first.           *)
(***************************************************************************)

\* F3, load_selected_to_reu: load the selected app unless it is loaded.
SelectLoad(i) ==
  /\ pc = "menu" /\ i <= count
  /\ Sync(count, ram, tstat, btype)
  /\ IF ram'[i].loaded THEN BackToMenu
     ELSE pc' = "alloc" /\ job' = [kind |-> "load", idx |-> i]
  /\ UNCHANGED <<hdr, lookup, tapp, catalogVars, recs, clip, bankVars,
                 count, cur, appVars, hotkeyVars>>

\* RETURN, or the hotkey of an app: launch_app.
SelectLaunch(i) ==
  /\ pc = "menu" /\ i <= count
  /\ Sync(count, ram, tstat, btype)
  /\ pc' = IF ram'[i].loaded THEN "launch" ELSE "alloc"
  /\ job' = [kind |-> "launch", idx |-> i]
  /\ UNCHANGED <<hdr, lookup, tapp, catalogVars, recs, clip, bankVars,
                 count, cur, appVars, hotkeyVars>>

\* F5, browse_and_load_manifest, for a program the catalog has already.
SelectKnownManifest(p, i) ==
  /\ p \in Manifests /\ i <= count /\ file[i] = p
  /\ SelectLoad(i)

\* The same for a new program: it gets the next index, unpublished so far.
SelectManifest(p) ==
  /\ pc = "menu" /\ p \in Manifests
  /\ \A i \in 1 .. count : file[i] # p
  /\ count < MaxApps
  /\ LET n == count + 1
     IN  /\ count' = n
         /\ file' = [file EXCEPT ![n] = p]
         /\ Sync(n, [ram EXCEPT ![n] = NewEntry(p)], tstat, btype)
         /\ job' = [kind |-> "manifest", idx |-> n]
  /\ pc' = "alloc"
  /\ UNCHANGED <<hdr, lookup, tapp, reg, recs, clip, bankVars, cur, appVars,
                 hotkeyVars>>

\* The banks whose ownership records name app i.
OwnedBanks(i) ==
  {rec.bank : rec \in {x \in recs : x.app = i /\ x.kind = "alloc"
                                    /\ btype[x.bank] = "alloc"}}

\* Mutant: the ReadyBASIC banks are forgotten.
FreedResourcesOwnedOnly(bt, i) == FreePhysical(bt, OwnedBanks(i))

\* launcher_free_app_resources: types and records after freeing what app i
\* owns, its snapshot bank apart.
FreedResources(bt, i) ==
  FreePhysical(bt, OwnedBanks(i) \cup ({ram[i].core, ram[i].code} \ {0}))

\* Mutant: the records of app i stay.
OtherRecordsAll(i) == recs

OtherRecords(i) == {rec \in recs : rec.app # i}

\* F7, unload_selected_from_reu: hotkeys of the token, the snapshot, the
\* token and the resources go, then the mirror publishes.
Unload(i) ==
  /\ pc = "menu" /\ i <= count
  /\ ram[i].tok # 0 /\ ram[i].loaded
  /\ LET t    == ram[i].tok
         st1  == [tstat EXCEPT ![t] = "free"]
         snap == IF tstat[t] # "free" THEN {lookup[t]} ELSE {}
         r1   == [ram EXCEPT ![i] = [@ EXCEPT !.tok = 0, !.loaded = FALSE,
                                     !.ready = FALSE, !.core = 0, !.code = 0]]
     IN  /\ SetHotkeys(ClearedHotkeys(t), r1)
         /\ btype' = Anchored(FreedResources(FreePhysical(btype, snap), i))
         /\ recs' = OtherRecords(i)
         /\ ram' = r1
         /\ tstat' = MirroredStatus(count, r1, st1)
         /\ tapp' = MirroredApp(count, r1, st1)
         /\ reg' = Published(count, r1)
         /\ saved' = IF saved = t THEN 0 ELSE saved
         /\ image' = [image EXCEPT ![lookup[t]] = None]
  /\ UNCHANGED <<hdr, lookup, file, clip, tail, pc, job, count, cur, appVars>>

-----------------------------------------------------------------------------
(***************************************************************************)
(* load_app_to_reu                                                         *)
(***************************************************************************)

\* Tokens a scan may give to app i: unused by the catalog and not valid.
FreeTokens(i) ==
  {t \in Tokens : /\ tstat[t] = "free"
                  /\ \A j \in 1 .. count : j # i => ram[j].tok # t}

FirstToken(i) == {t \in FreeTokens(i) : \A u \in FreeTokens(i) : t <= u}

\* launcher_alloc_snapshot_bank: an app keeps the token it has, ...
KeepToken ==
  /\ pc = "alloc" /\ ram[job.idx].tok # 0
  /\ GoTo("preload")
  /\ UNCHANGED <<hdr, btype, tokenVars, catalogVars, recs, clip, bankVars,
                 menuVars, shimVars, appVars, hotkeyVars>>

\* ... or gets the first free token and the first free bank, published as
\* valid but not loaded, ...
BindToken ==
  /\ pc = "alloc" /\ ram[job.idx].tok = 0
  /\ \E t \in FirstToken(job.idx), b \in FirstFree(btype) :
       LET r1  == [ram EXCEPT ![job.idx].tok = t]
           st1 == [tstat EXCEPT ![t] = "valid"]
       IN  /\ btype' = Anchored(SetType(btype, {b}, "app"))
           /\ lookup' = [lookup EXCEPT ![t] = b]
           /\ ram' = r1
           /\ tstat' = MirroredStatus(count, r1, st1)
           /\ tapp' = MirroredApp(count, r1, st1)
           /\ reg' = Published(count, r1)
  /\ GoTo("preload")
  /\ UNCHANGED <<hdr, file, recs, clip, bankVars, count, shimVars, appVars,
                 hotkeyVars>>

\* Mutant: the load goes on without a token.
NoTokenIgnored ==
  /\ pc = "alloc" /\ ram[job.idx].tok = 0
  /\ FirstToken(job.idx) = {} \/ FirstFree(btype) = {}
  /\ GoTo("preload")
  /\ UNCHANGED <<hdr, btype, tokenVars, catalogVars, recs, clip, bankVars,
                 menuVars, shimVars, appVars, hotkeyVars>>

\* ... or the load fails.
NoToken ==
  /\ pc = "alloc" /\ ram[job.idx].tok = 0
  /\ FirstToken(job.idx) = {} \/ FirstFree(btype) = {}
  /\ GoTo("failed")
  /\ UNCHANGED <<hdr, btype, tokenVars, catalogVars, recs, clip, bankVars,
                 menuVars, shimVars, appVars, hotkeyVars>>

\* The program is put into its bank, by the shim from disk or over the
\* Ultimate's DMA.  The shim stashes application memory and commits the
\* status whether or not the KERNAL found the file; when it did not, that
\* memory still holds the launcher.
Preload(got) ==
  /\ pc = "preload"
  /\ LET t == ram[job.idx].tok
     IN  /\ image' = [image EXCEPT ![lookup[t]] = got]
         /\ tstat' = [tstat EXCEPT ![t] = "loaded"]
  /\ ram' = [ram EXCEPT ![job.idx].loaded = TRUE,
                        ![job.idx].ready = @ /\ ~ram[job.idx].basic]
  /\ GoTo("resources")
  /\ UNCHANGED <<hdr, btype, lookup, tapp, catalogVars, recs, clip, tail,
                 count, shimVars, appVars, hotkeyVars>>

PreloadFound    == Preload(file[job.idx])
PreloadNotFound == Preload("launcher")

\* A DMA load that fails while the interface stays available gives up; what
\* it streamed so far is no program.
DmaLoadFails ==
  /\ pc = "preload"
  /\ image' = [image EXCEPT ![lookup[ram[job.idx].tok]] = None]
  /\ GoTo("failed")
  /\ UNCHANGED <<hdr, btype, tokenVars, catalogVars, recs, clip, tail,
                 menuVars, shimVars, appVars, hotkeyVars>>

-----------------------------------------------------------------------------
(***************************************************************************)
(* launcher_prepare_app_resources: each operator gives the outcomes, as    *)
(* records of the success, the bank types, the resource records, the app's *)
(* entry and whether the launcher mirrored its entries.                    *)
(***************************************************************************)

\* launcher_validated_resource_bank
Validated(bt, b, type) == b # 0 /\ bt[b] \in {"free", type}

\* launcher_ensure_readybasic_banks: banks that the entry may keep, ...
KeptCore(bt, e) == IF Validated(bt, e.core, "rbcore") THEN {e.core} ELSE {}
KeptCode(bt, e) == IF Validated(bt, e.code, "rbcode")
                   THEN {e.code} \ KeptCore(bt, e) ELSE {}

\* ... and the pairs it ends up with: a kept or a newly found bank each.
BasicBanks(bt, e) ==
  LET cores    == IF KeptCore(bt, e) # {} THEN KeptCore(bt, e)
                  ELSE FirstFree(bt)
      with(c)  == SetType(bt, {c} \ KeptCore(bt, e), "rbcore")
      codes(c) == IF KeptCode(bt, e) # {} THEN KeptCode(bt, e)
                  ELSE FirstFree(with(c))
  IN  {p \in Usable \X Usable : p[1] \in cores /\ p[2] \in codes(p[1])}

MarkBasic(bt, c, d) ==
  SetType(SetType(bt, {c} \ {0}, "rbcore"), {d} \ {0}, "rbcode")

BasicRecords(i, c, d) ==
  {[app |-> i, kind |-> "rbcore", bank |-> c],
   [app |-> i, kind |-> "rbcode", bank |-> d]}

\* launcher_load_readybasic_resources: both banks or none, then a record for
\* each; a full record table fails the load and keeps the banks.
LoadedBasic(bt, i) ==
  LET e == ram[i] IN
  IF BasicBanks(bt, e) = {}
  THEN {[ok |-> FALSE, mirrored |-> FALSE, recs |-> recs,
         types |-> FreePhysical(bt, KeptCore(bt, e) \cup KeptCode(bt, e)),
         entry |-> [e EXCEPT !.core = 0, !.code = 0]]}
  ELSE {LET room == MaxRecs - Cardinality(OtherRecords(i))
            both == room >= 2
        IN  [ok |-> both, mirrored |-> both,
             recs |-> OtherRecords(i) \cup
                        {x \in BasicRecords(i, p[1], p[2]) :
                           both \/ (room = 1 /\ x.kind = "rbcore")},
             types |-> MarkBasic(bt, p[1], p[2]),
             entry |-> [e EXCEPT !.core = p[1], !.code = p[2],
                                 !.ready = both]] : p \in BasicBanks(bt, e)}

Prepared(i) ==
  LET e  == ram[i]
      bt == SetType(btype, LoadedBanks(count, ram, tstat), "app")
  IN  IF ~e.basic
      THEN {[ok |-> TRUE, mirrored |-> FALSE, recs |-> recs,
             types |-> btype, entry |-> e]}
      ELSE IF e.ready
      THEN {[ok |-> TRUE, mirrored |-> FALSE, recs |-> recs,
             types |-> MarkBasic(bt, e.core, e.code), entry |-> e]}
      ELSE LoadedBasic(bt, i)

\* The mirror as the tail of a step that leaves the entries r.
MirrorIf(cond, r) ==
  IF cond
  THEN /\ tstat' = MirroredStatus(count, r, tstat)
       /\ tapp' = MirroredApp(count, r, tstat)
       /\ reg' = Published(count, r)
  ELSE UNCHANGED <<tstat, tapp, reg>>

\* Resources during a load.  On failure the app counts as not loaded, and
\* the mirror makes that its token's status.
LoadResources ==
  /\ pc = "resources"
  /\ \E o \in Prepared(job.idx) :
       LET r1 == [ram EXCEPT ![job.idx] =
                    [o.entry EXCEPT !.loaded = @ /\ o.ok]]
       IN  /\ ram' = r1 /\ recs' = o.recs /\ btype' = Anchored(o.types)
           /\ MirrorIf(o.mirrored \/ ~o.ok, r1)
           /\ GoTo(IF o.ok THEN "loaded" ELSE "failed")
  /\ UNCHANGED <<hdr, lookup, file, clip, bankVars, count, shimVars, appVars,
                 hotkeyVars>>

\* The default hotkey, the mirror, and the caller's sync; a manifest load
\* seeds the hotkeys too.
FinishLoad ==
  /\ pc = "loaded"
  /\ LET st1 == MirroredStatus(count, ram, tstat)
     IN  /\ tapp' = MirroredApp(count, ram, tstat)
         /\ reg' = Published(count, ram)
         /\ Sync(count, ram, st1, Anchored(btype))
  /\ SetHotkeys(IF job.kind = "manifest"
                THEN SeededHotkeys(count, ram, DefaultBound(job.idx))
                ELSE DefaultBound(job.idx), ram)
  /\ IF job.kind = "launch" THEN GoTo("launch") ELSE BackToMenu
  /\ UNCHANGED <<hdr, lookup, file, recs, clip, bankVars, count, cur, appVars>>

\* A failed load of a catalog app leaves its token, if it has one.
LoadFailed ==
  /\ pc = "failed" /\ job.kind # "manifest"
  /\ Sync(count, ram, tstat, btype)
  /\ BackToMenu
  /\ UNCHANGED <<hdr, lookup, tapp, catalogVars, recs, clip, bankVars,
                 count, cur, appVars, hotkeyVars>>

\* rollback_manifest_app: the last app of the catalog is dropped and its
\* resources are freed; its token and the registry are not touched.
ManifestFailed ==
  /\ pc = "failed" /\ job.kind = "manifest"
  /\ LET st1 == SyncedStatus(count, ram, tstat)
         r1  == SyncedEntries(count, ram, st1)
         bt1 == SetType(btype, LoadedBanks(count, r1, st1), "app")
     IN  /\ tstat' = st1
         /\ ram' = [r1 EXCEPT ![job.idx] = BlankEntry]
         /\ btype' = FreedResources(bt1, job.idx)
  /\ saved' = 0
  /\ file' = [file EXCEPT ![job.idx] = None]
  /\ count' = count - 1
  /\ recs' = OtherRecords(job.idx)
  /\ BackToMenu
  /\ UNCHANGED <<hdr, lookup, tapp, reg, clip, bankVars, cur, appVars,
                 hotkeyVars>>

-----------------------------------------------------------------------------
(***************************************************************************)
(* launch_from_reu                                                         *)
(***************************************************************************)

\* Resources again, in case an earlier step lost them.
PrepareLaunch ==
  /\ pc = "launch"
  /\ \E o \in Prepared(job.idx) :
       LET r1 == [ram EXCEPT ![job.idx] = o.entry]
       IN  /\ ram' = r1 /\ recs' = o.recs
           /\ btype' = IF o.mirrored THEN Anchored(o.types) ELSE o.types
           /\ MirrorIf(o.mirrored, r1)
           /\ IF o.ok THEN GoTo("start") ELSE BackToMenu
  /\ UNCHANGED <<hdr, lookup, file, clip, bankVars, count, shimVars, appVars,
                 hotkeyVars>>

\* Mutant: an app that switches leaves its own token current.
RunImageOldToken(t, img) ==
  /\ cur' = IF cur # 0 THEN cur ELSE t
  /\ count' = 0 /\ ram' = [i \in Apps |-> BlankEntry]
  /\ job' = NoJob
  /\ running' = IF img = "launcher" THEN None ELSE img
  /\ held' = {}
  /\ pc' = IF img = "launcher" THEN "return" ELSE "appinit"

\* The token becomes current, the shim fetches its image and runs it; the
\* launcher's memory is gone.  An image of the launcher is a launcher again,
\* which starts as if an app had returned.
RunImage(t, img) ==
  /\ cur' = t
  /\ count' = 0 /\ ram' = [i \in Apps |-> BlankEntry]
  /\ job' = NoJob
  /\ running' = IF img = "launcher" THEN None ELSE img
  /\ held' = {}
  /\ pc' = IF img = "launcher" THEN "return" ELSE "appinit"

Start ==
  /\ pc = "start"
  /\ RunImage(ram[job.idx].tok, image[lookup[ram[job.idx].tok]])
  /\ UNCHANGED <<hdr, btype, tokenVars, catalogVars, recs, clip, bankVars,
                 saved, hotkeyVars>>

LauncherNext ==
  \/ Boot \/ BootError \/ WarmInit \/ ColdInit \/ ColdInitError
  \/ \E i \in Apps : SelectLoad(i) \/ SelectLaunch(i) \/ Unload(i)
  \/ \E p \in Manifests : \/ SelectManifest(p)
                          \/ \E i \in Apps : SelectKnownManifest(p, i)
  \/ KeepToken \/ BindToken \/ NoToken
  \/ PreloadFound \/ PreloadNotFound \/ DmaLoadFails
  \/ LoadResources \/ FinishLoad \/ LoadFailed \/ ManifestFailed
  \/ PrepareLaunch \/ Start
=============================================================================
