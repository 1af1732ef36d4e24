------------------------------ MODULE ReadyOs ------------------------------
(***************************************************************************)
(* ReadyOS as a whole: the launcher, the shim and the applications sharing *)
(* the REU, the machine being reset at any moment, and what must hold of   *)
(* the banks, the tokens, the snapshots and the hotkeys.                   *)
(***************************************************************************)
EXTENDS AppRuntime

\* The bank types a session with an REU of p banks left: the banks of C to
\* the clipboard, those of O to apps.
TypesLeft(p, C, O) ==
  [b \in Banks |->
     IF b <= Skip THEN FixedType(b)
     ELSE IF b >= p THEN "unavail"
     ELSE IF b \in C THEN "clip"
     ELSE IF b \in O THEN "alloc"
     ELSE "free"]

\* What an owner may have left behind any image.
PayloadsLeft(p) ==
  {NoPayload} \cup
  {d \in [tok : Tokens, prog : Owners, held : SUBSET {b \in Dynamic : b < p}] :
     Cardinality(d.held) = NoteBanks[d.prog]}

\* The REU holds anything, and its header says so.  Only tables whose
\* zeroing matters have arbitrary contents; the others are written before
\* they are read.
Unformatted ==
  /\ hdr = FALSE
  /\ btype \in {[b \in Banks |-> "free"], [b \in Banks |-> "alloc"]}
  /\ clip \in {{}, Usable}
  /\ tail = [b \in Banks |-> NoPayload]

\* The REU holds the tables of an earlier session, in which it may have had
\* another size.
Formatted ==
  /\ hdr = TRUE
  /\ \E p \in Earlier : \E C, O \in SUBSET {b \in Dynamic : b < p} :
       /\ C \cap O = {} /\ Cardinality(C) <= MaxClips
       /\ btype = TypesLeft(p, C, O)
       /\ clip = C
       /\ \E d \in PayloadsLeft(p) :
            tail = [b \in Banks |-> IF b \in Usable THEN d ELSE NoPayload]

Init ==
  /\ Unformatted \/ Formatted
  /\ lookup = [t \in Tokens |-> 0]
  /\ tstat = [t \in Tokens |-> "free"]
  /\ tapp = [t \in Tokens |-> 0]
  /\ reg = Published(0, [i \in Apps |-> BlankEntry])
  /\ file = [i \in Apps |-> None]
  /\ recs = {}
  /\ \E t \in {0} \cup Tokens : hotkey = [s \in Slots |-> t]
  /\ image = [b \in Banks |-> None]
  /\ pc = "off" /\ job = NoJob
  /\ count = 0 /\ ram = [i \in Apps |-> BlankEntry]
  /\ cur = 0 /\ saved = 0 /\ running = None /\ held = {}
  /\ bound = [s \in Slots |-> None] /\ stale = {}

Next == LauncherNext \/ AppNext

Spec == Init /\ [][Next]_vars

-----------------------------------------------------------------------------
(***************************************************************************)
(* Banks                                                                   *)
(***************************************************************************)

\* While ReadyOS runs, the ReadyOS bank, the banks below it and the banks
\* the REU does not have keep their types, whatever the tables said that it
\* started from: no allocator hands one out and no free makes one
\* allocatable.  Every other bank can be given to a client.
\* Code: reu_alloc_bank, launcher_alloc_*, the free paths; "Banks beyond the
\* detected physical size are marked REU_UNAVAIL and are never eligible for
\* allocation" (docs/ReadyOS_SHIM_ARCHITECTURE_0.5.md).
FixedBanks == pc # "off" => Fixed(btype)

\* The apps of the catalog: the launcher's entries while it runs, else the
\* registry it published.  An app without a file was rolled back.
Elsewhere == pc \in {"off", "return"} \cup AppPCs
Entries   == IF Elsewhere THEN reg.apps ELSE ram
KnownApps == {i \in 1 .. IF Elsewhere THEN reg.count ELSE count :
                file[i] # None}

\* Who counts on a bank: a valid token on its snapshot bank, a resource
\* record on its bank, an app on its ReadyBASIC banks, the clipboard on its.
SnapshotUses  == {<<"app", t, lookup[t]>> :
                    t \in {u \in Tokens : tstat[u] # "free"}}
RecordUses    == {<<rec.kind, rec.app, rec.bank>> : rec \in recs}
AppUses       == {u \in {<<"rbcore", i, Entries[i].core>> : i \in KnownApps}
                    \cup {<<"rbcode", i, Entries[i].code>> : i \in KnownApps} :
                    u[3] # 0}
ClipboardUses == {<<"clip", 0, b>> : b \in clip}
BankUses      == SnapshotUses \cup RecordUses \cup AppUses \cup ClipboardUses

\* No two users count on the same bank, and the bank has the type of its
\* user, so that no allocation can give it to a third one.  It takes an
\* allocation, a free, a load, an unload or a restart that disagree about
\* one table entry to break it.
BanksOwnedOnce ==
  pc # "off" =>
    /\ \A x, y \in BankUses : x[3] = y[3] => x = y
    /\ \A x \in BankUses : btype[x[3]] = x[1]

\* Banks in use that nobody counts on.
Orphans == {b \in Dynamic : /\ btype[b] \notin {"free", "unavail"}
                            /\ \A x \in BankUses : x[3] # b}

\* Tokens that no app of the launcher's catalog owns any more.
Abandoned == {t \in Tokens : tstat[t] # "free" /\ ~Uses(count, ram, t)}

\* Within a session no step loses a bank: only the snapshot of a manifest
\* app whose load was rolled back is lost, when the mirror frees its token.
\* A session ends with a quit, which loses nothing, or with a reset.
\* Code: unload_selected_from_reu, load_app_to_reu's failure paths, Quit.
Working == /\ pc \notin {"off", "return"}
           /\ pc' = "off" => pc \in AppPCs

NoBankLost ==
  [][Working =>
       Orphans' \ Orphans \subseteq {lookup[t] : t \in Abandoned}]_vars

-----------------------------------------------------------------------------
(***************************************************************************)
(* Snapshots                                                               *)
(***************************************************************************)

\* While an app runs its token is valid and belongs to the app of the
\* catalog whose program is running, so that leaving it writes into its own
\* snapshot bank.  Nothing in the shim checks this: it maps the current
\* token to a bank and writes $B600 bytes there.
RunsAtHome ==
  pc \in AppPCs =>
    /\ cur # 0 /\ tstat[cur] # "free" /\ tapp[cur] # 0
    /\ file[tapp[cur]] = running

\* A loaded token of an app shows, wherever the user may launch it from,
\* that app's program or, when the drive did not deliver, the launcher.
SnapshotImage ==
  pc # "off" =>
    \A t \in Tokens : tstat[t] = "loaded" =>
      /\ tapp[t] # 0
      /\ image[lookup[t]] \in {file[tapp[t]], "launcher"}

\* What a session has loaded stays loaded when an app returns: the warm
\* start rebuilds the launcher's entries from the registry and frees no
\* loaded token.
ReturnKeepsLoaded ==
  [][pc = "return" => \A t \in Tokens : tstat[t] = "loaded" =>
        tstat'[t] = "loaded" /\ tapp'[t] = tapp[t]]_vars

\* The banks a running owner works with are not free: no allocation can give
\* its notes' bank away while it uses them.  An owner trusts a payload that
\* an unload, a reload or a restart may have made obsolete.  It does not hold
\* of ReadyIRC, which looks at no bank's type.
HeldBanksAllocated ==
  pc \in AppPCs => \A b \in held : btype[b] = "alloc"

-----------------------------------------------------------------------------
(***************************************************************************)
(* Hotkeys                                                                 *)
(***************************************************************************)

\* The program a slot's token stands for now.
Target(s) == IF hotkey[s] # 0 /\ tstat[hotkey[s]] # "free"
                /\ tapp[hotkey[s]] # 0
             THEN file[tapp[hotkey[s]]] ELSE None

\* A slot written since the last cold start stands for the app it was bound
\* for: tokens are given again, so an unload must take the slots along.
HotkeyInSession ==
  pc # "off" => \A s \in Slots \ stale :
    hotkey[s] # 0 => Target(s) = bound[s]

-----------------------------------------------------------------------------
(***************************************************************************)
(* What TypeOK and FixedBanks rest on.                                     *)
(***************************************************************************)

\* From the first boot on the ReadyOS bank is valid.
HeaderValid == pc # "off" => hdr

\* A load or a launch works for an app of the catalog, which has a token
\* once it has been allocated.
JobOK ==
  /\ pc \in {"alloc", "preload", "resources", "loaded", "failed", "launch",
            "start"} => job.idx \in 1 .. count
  /\ pc \in {"preload", "resources", "loaded", "launch", "start"} =>
       ram[job.idx].tok # 0

\* An app that counts as loaded has a token; so has an app that runs.
LoadedHasToken == \A i \in Apps : ram[i].loaded => ram[i].tok # 0

RunningHasToken == pc \in AppPCs => cur # 0

\* A token in use has been given a bank: the shim and the launcher write to
\* the bank a token maps to, and bank 0 may be the ReadyOS bank itself.
TokensMapped ==
  /\ \A t \in Tokens : tstat[t] # "free" => lookup[t] # 0
  /\ \A i \in Apps : ram[i].tok # 0 => lookup[ram[i].tok] # 0
  /\ \A i \in Apps : reg.apps[i].tok # 0 => lookup[reg.apps[i].tok] # 0
  /\ cur # 0 => lookup[cur] # 0

\* Inductive: a token keeps every load, launch, stash and restart away from
\* the fixed banks.  Code: launcher_alloc_snapshot_bank, the shim's
\* setup_logical, sync_from_readyos_state.
IInv ==
  /\ TypeOK /\ FixedBanks
  /\ HeaderValid /\ JobOK /\ LoadedHasToken /\ RunningHasToken
  /\ TokensMapped
-----------------------------------------------------------------------------
(***************************************************************************)
(* What the other properties rest on.                                      *)
(***************************************************************************)

\* The programs the catalog may come to hold.
Offered == {DiskCatalog[i] : i \in 1 .. Len(DiskCatalog)} \cup Manifests

Known      == {i \in Apps : file[i] # None}
AtLauncher == pc \notin {"off", "return"} \cup AppPCs
Away       == pc \in {"return"} \cup AppPCs

\* The catalog is the first count indices; the registry has the apps while
\* the launcher is away, and nothing beyond its count.
CatalogInSession ==
  /\ \A i \in Known : file[i] \in Offered
  /\ AtLauncher => Known = 1 .. count
  /\ AtLauncher => \A i \in Apps : i > count => ram[i].tok = 0
  /\ Away => Known \subseteq 1 .. reg.count
  /\ pc # "off" => \A i \in Apps : i > reg.count => reg.apps[i].tok = 0

\* A load works for an app that is not loaded until its program is in its
\* bank, a launch for one that is; a manifest's app is the last one; the
\* token last saved is marked loaded already.
JobInSession ==
  /\ job.kind = "manifest" => /\ AtLauncher /\ pc # "menu"
                              /\ job.idx = count
  /\ pc \in {"alloc", "preload", "failed"} => ~ram[job.idx].loaded
  /\ pc \in {"resources", "loaded", "launch", "start"} => ram[job.idx].loaded
  /\ pc = "resources" /\ ram[job.idx].basic => ~ram[job.idx].ready
  /\ pc = "alloc" /\ job.kind = "manifest" => ram[job.idx].tok = 0
  /\ pc # "off" /\ saved # 0 => pc = "return" /\ tstat[saved] = "loaded"

\* The published registry agrees with the launcher's entries, but for an app
\* that a manifest has just added and for the ReadyBASIC banks of an app
\* whose program was just put into its bank.
RegistryInStep ==
  AtLauncher => \A i \in Known :
    \/ job.kind = "manifest" /\ i = job.idx /\ pc \in {"alloc", "failed"}
    \/ /\ i <= reg.count
       /\ reg.apps[i].tok = ram[i].tok /\ reg.apps[i].basic = ram[i].basic
       /\ reg.apps[i].core = ram[i].core /\ reg.apps[i].code = ram[i].code
       /\ \/ pc = "resources" /\ i = job.idx /\ ram[i].basic
          \/ reg.apps[i].ready = ram[i].ready

\* The token tables and the catalog name each other; only a token whose load
\* was rolled back belongs to no app, and it is not loaded.
TokensInSession ==
  pc # "off" =>
    /\ \A i \in Known : Entries[i].tok # 0 =>
         /\ tstat[Entries[i].tok] # "free" /\ tapp[Entries[i].tok] = i
         /\ AtLauncher => (ram[i].loaded <=> tstat[ram[i].tok] = "loaded")
         /\ tstat[Entries[i].tok] = "loaded" /\ Entries[i].basic =>
              Entries[i].ready \/ (pc = "resources" /\ i = job.idx)
    /\ \A t \in Tokens : tstat[t] = "loaded" =>
         tapp[t] \in Known /\ Entries[tapp[t]].tok = t

\* Each use of a bank has its type, and no two of the same kind share one.
BanksInSession ==
  /\ hdr => \A b \in clip : btype[b] = "clip"
  /\ pc # "off" =>
       /\ \A t \in Tokens : tstat[t] # "free" => btype[lookup[t]] = "app"
       /\ \A t, u \in Tokens :
            tstat[t] # "free" /\ tstat[u] # "free" /\ lookup[t] = lookup[u] =>
              t = u
       /\ \A rec \in recs : btype[rec.bank] = rec.kind
       /\ \A x, y \in recs :
            x.kind = "alloc" /\ y.kind = "alloc" /\ x.bank = y.bank => x = y

\* The ReadyBASIC banks of an app come in pairs and are its own; a record of
\* one is the app's.
BasicInSession ==
  pc # "off" =>
    /\ \A i \in Known :
         /\ (Entries[i].core = 0) = (Entries[i].code = 0)
         /\ Entries[i].core # 0 => btype[Entries[i].core] = "rbcore"
         /\ Entries[i].code # 0 => btype[Entries[i].code] = "rbcode"
    /\ \A i, j \in Known :
         /\ (Entries[i].core # 0 /\ Entries[i].core = Entries[j].core => i = j)
         /\ (Entries[i].code # 0 /\ Entries[i].code = Entries[j].code => i = j)
    /\ \A rec \in recs :
         /\ rec.kind = "rbcore" =>
              rec.app \in Known /\ Entries[rec.app].core = rec.bank
         /\ rec.kind = "rbcode" =>
              rec.app \in Known /\ Entries[rec.app].code = rec.bank

\* Images are where the tokens say; the running app is at home and its own
\* banks are allocated.
ImagesInSession ==
  pc # "off" => \A t \in Tokens : tstat[t] = "loaded" =>
    image[lookup[t]] \in {file[tapp[t]], "launcher"}

AppInSession ==
  pc \in AppPCs =>
    /\ tstat[cur] = "loaded" /\ file[tapp[cur]] = running
    /\ \A b \in held : btype[b] = "alloc"

\* A slot written in the session names an app of the catalog, and never the
\* one whose load may still be rolled back.
HotkeysInSession ==
  pc # "off" => \A s \in Slots \ stale : hotkey[s] # 0 =>
    /\ tstat[hotkey[s]] # "free" /\ tapp[hotkey[s]] \in Known
    /\ Entries[tapp[hotkey[s]]].tok = hotkey[s]
    /\ bound[s] = file[tapp[hotkey[s]]]
    /\ job.kind = "manifest" => tapp[hotkey[s]] # job.idx

\* Inductive, for a catalog without a program of Trusting.
SessionInv ==
  /\ IInv
  /\ CatalogInSession /\ JobInSession /\ RegistryInStep /\ TokensInSession
  /\ BanksInSession /\ BasicInSession
  /\ ImagesInSession /\ AppInSession /\ HotkeysInSession

\* A record of an owned bank names an app that is loaded, and never the one
\* whose load is under way: when an app counts as not loaded any more, by an
\* unload, a failed load or a restart, its records and with them the banks
\* they stand for have been freed.
\* Code: reu_alloc_owned_bank, launcher_free_app_resources,
\* launcher_load_readybasic_resources, which drops an app's records.
OwnersLoaded ==
  pc # "off" => \A rec \in recs : rec.kind = "alloc" =>
    /\ rec.app \in Known /\ Entries[rec.app].tok # 0
    /\ tstat[Entries[rec.app].tok] = "loaded"
    /\ pc = "resources" => rec.app # job.idx
=============================================================================
