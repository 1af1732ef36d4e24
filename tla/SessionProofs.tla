---------------------------- MODULE SessionProofs ----------------------------
(***************************************************************************)
(* Proofs about a session of ReadyOS: every bank has one owner, an app is  *)
(* stashed into its own snapshot bank, a loaded token shows its app's      *)
(* image, the notes banks of a running program cannot be given away, and a *)
(* hotkey starts the app it was bound for; no step loses a bank, and no    *)
(* app's return unloads another; for every catalog, every table size and   *)
(* every choice of the user, the drive and the resets.                     *)
(*                                                                         *)
(* One hypothesis is that the REU has not shrunk (ReadyOsProofs).  The     *)
(* other is that the catalog offers no program of Trusting: a program that *)
(* frees the bank its payload names without looking at its type (ReadyIRC) *)
(* can free a bank of someone else.                                        *)
(***************************************************************************)
EXTENDS ReadyOsProofs

NoTrusting == Trusting \cap Offered = {}

-----------------------------------------------------------------------------
(***************************************************************************)
(* Facts about one state                                                   *)
(***************************************************************************)
LEMMA StateFacts ==
  ASSUME IInv
  PROVE  /\ btype \in [Banks -> BankTypes] /\ hdr \in BOOLEAN
         /\ ram \in [Apps -> Entry] /\ reg.apps \in [Apps -> Entry]
         /\ Entries \in [Apps -> Entry]
         /\ tstat \in [Tokens -> Status] /\ tapp \in [Tokens -> {0} \cup Apps]
         /\ lookup \in [Tokens -> {0} \cup Usable]
         /\ file \in [Apps -> Prog \cup {None}]
         /\ recs \subseteq Record /\ clip \subseteq Usable
         /\ count \in 0 .. MaxApps /\ reg.count \in 0 .. MaxApps
         /\ image \in [Banks -> Images]
         /\ cur \in {0} \cup Tokens /\ saved \in {0} \cup Tokens
         /\ Known \subseteq Apps
BY DEF IInv, TypeOK, Entries, Status, Known

LEMMA SkipFact ==
  /\ \A b \in Usable : b \in Banks /\ b # Skip /\ b # 0
  /\ \A b \in Usable : b > Skip
BY BankFacts, BankAssumption DEF Usable, Dynamic, Banks

\* Writing a bank's type again changes nothing.
LEMMA SameType ==
  ASSUME NEW bt \in [Banks -> BankTypes], NEW S, NEW type,
         \A b \in S : bt[b] = type
  PROVE  SetType(bt, S, type) = bt
BY DEF SetType

LEMMA SameAnchor ==
  ASSUME NEW bt, Sound(bt)
  PROVE  Anchored(bt) = bt
BY BankFacts, BankAssumption DEF Anchored, Sound, Fixed, FixedType

\* The snapshot banks of the loaded apps are marked as such already.
LEMMA LoadedTyped ==
  ASSUME NEW n \in 0 .. MaxApps, NEW r \in [Apps -> Entry], NEW st, NEW bt,
         \A t \in Tokens : st[t] # "free" => bt[lookup[t]] = "app"
  PROVE  \A b \in LoadedBanks(n, r, st) : bt[b] = "app"
<1> TAKE b \in LoadedBanks(n, r, st)
<1>1. PICK i \in 1 .. n : /\ r[i].tok # 0 /\ st[r[i].tok] # "free"
                          /\ b = lookup[r[i].tok]
  BY DEF LoadedBanks
<1>2. r[i] \in Entry
  BY AppsFact
<1> QED
  BY <1>1, <1>2 DEF Entry

LEMMA SameMark ==
  ASSUME NEW bt \in [Banks -> BankTypes], NEW c, NEW d,
         c # 0 => bt[c] = "rbcore", d # 0 => bt[d] = "rbcode"
  PROVE  MarkBasic(bt, c, d) = bt
<1>1. SetType(bt, {c} \ {0}, "rbcore") = bt
  BY SameType
<1>2. SetType(bt, {d} \ {0}, "rbcode") = bt
  BY SameType
<1> QED
  BY <1>1, <1>2 DEF MarkBasic

LEMMA EntriesAt ==
  /\ AtLauncher => Entries = ram
  /\ Away => Entries = reg.apps
BY DEF AtLauncher, Away, Entries, Elsewhere, AppPCs

-----------------------------------------------------------------------------
(***************************************************************************)
(* Within a session the sync finds everything as it is                     *)
(***************************************************************************)
LEMMA SyncSame ==
  ASSUME IInv, saved = 0, NEW n \in 0 .. MaxApps, NEW r \in [Apps -> Entry],
         NEW st \in [Tokens -> Status], NEW bt \in [Banks -> BankTypes],
         \A t \in Tokens : st[t] # "free" => bt[lookup[t]] = "app",
         \A i \in Apps : i <= n /\ r[i].tok # 0 =>
           (r[i].loaded <=> st[r[i].tok] = "loaded")
  PROVE  /\ SyncedStatus(n, r, st) = st
         /\ SyncedEntries(n, r, st) = r
         /\ SetType(bt, LoadedBanks(n, r, st), "app") = bt
<1>1. SyncedStatus(n, r, st) = st
  BY DEF SyncedStatus
<1>2. SyncedEntries(n, r, st) = r
  <2>1. ASSUME NEW i \in Apps, i <= n, r[i].tok # 0
        PROVE  [r[i] EXCEPT !.loaded = (st[r[i].tok] = "loaded")] = r[i]
    <3>1. r[i] \in Entry /\ r[i].loaded \in BOOLEAN
      BY DEF Entry
    <3>2. r[i].loaded = (st[r[i].tok] = "loaded")
      BY <2>1, <3>1, Zenon
    <3> QED
      BY <3>1, <3>2 DEF Entry
  <2> QED
    BY <2>1 DEF SyncedEntries
<1>3. SetType(bt, LoadedBanks(n, r, st), "app") = bt
  <2>1. \A b \in LoadedBanks(n, r, st) : bt[b] = "app"
    BY LoadedTyped
  <2> QED
    BY <2>1, SameType
<1> QED
  BY <1>1, <1>2, <1>3

\* What the sync needs, while the launcher works.
LEMMA LauncherAgrees ==
  ASSUME SessionInv, AtLauncher
  PROVE  /\ IInv /\ saved = 0 /\ Entries = ram /\ pc # "off"
         /\ \A t \in Tokens : tstat[t] # "free" => btype[lookup[t]] = "app"
         /\ \A i \in Apps : i <= count /\ ram[i].tok # 0 =>
              (ram[i].loaded <=> tstat[ram[i].tok] = "loaded")
<1>1. IInv /\ saved = 0 /\ Entries = ram /\ pc # "off"
  BY EntriesAt DEF SessionInv, JobInSession, AtLauncher, AppPCs
<1>2. \A t \in Tokens : tstat[t] # "free" => btype[lookup[t]] = "app"
  BY <1>1 DEF SessionInv, BanksInSession
<1>3. ASSUME NEW i \in Apps, i <= count PROVE i \in Known
  BY <1>1, <1>3, StateFacts DEF SessionInv, CatalogInSession, Apps
<1> QED
  BY <1>1, <1>2, <1>3 DEF SessionInv, TokensInSession

LEMMA SyncQuiet ==
  ASSUME SessionInv, AtLauncher, Sync(count, ram, tstat, btype)
  PROVE  UNCHANGED <<ram, tstat, btype, saved>>
<1>1. /\ SyncedStatus(count, ram, tstat) = tstat
      /\ SyncedEntries(count, ram, tstat) = ram
      /\ SetType(btype, LoadedBanks(count, ram, tstat), "app") = btype
  BY LauncherAgrees, StateFacts, SyncSame
<1> QED
  BY <1>1, LauncherAgrees DEF Sync

\* Only what the launcher is doing changes.
LEMMA QuietStep ==
  ASSUME SessionInv, IInv', AtLauncher, AtLauncher', JobInSession',
         UNCHANGED <<hdr, btype, tokenVars, catalogVars, recs, clip, bankVars,
                     menuVars, shimVars, hotkeyVars>>,
         job'.kind = "manifest" => job' = job,
         job.kind = "manifest" /\ pc \in {"alloc", "failed"} =>
           job' = job /\ pc' \in {"alloc", "failed"},
         pc = "resources" => ram[job.idx].ready \/ ~ram[job.idx].basic
  PROVE  SessionInv'
<1>1. Entries = ram /\ Entries' = ram /\ Known' = Known
  BY EntriesAt DEF AtLauncher, Entries, Elsewhere, Known, catalogVars,
                   menuVars, AppPCs
<1>2. CatalogInSession' /\ RegistryInStep'
  <2>1. CatalogInSession'
    BY <1>1
       DEF SessionInv, CatalogInSession, AtLauncher, Away, catalogVars,
           menuVars, AppPCs
  <2>2. pc = "resources" => ~ram[job.idx].basic
    BY DEF SessionInv, JobInSession
  <2>3. RegistryInStep'
    BY <1>1, <2>2 DEF SessionInv, RegistryInStep, catalogVars, menuVars
  <2> QED
    BY <2>1, <2>3
<1>3. TokensInSession'
  BY <1>1
     DEF SessionInv, TokensInSession, AtLauncher, tokenVars, menuVars, AppPCs
<1>4. BanksInSession' /\ BasicInSession' /\ ImagesInSession'
  BY <1>1
     DEF SessionInv, BanksInSession, BasicInSession, ImagesInSession,
         AtLauncher, tokenVars, catalogVars, bankVars, menuVars, AppPCs
<1>5. AppInSession' /\ HotkeysInSession'
  BY <1>1
     DEF SessionInv, AppInSession, HotkeysInSession, AtLauncher, tokenVars,
         catalogVars, hotkeyVars, AppPCs
<1> QED
  BY <1>2, <1>3, <1>4, <1>5 DEF SessionInv

LEMMA SelectSession ==
  ASSUME SessionInv, IInv', NEW i \in Apps, SelectLoad(i) \/ SelectLaunch(i)
  PROVE  SessionInv'
<1>1. /\ pc = "menu" /\ i <= count /\ Sync(count, ram, tstat, btype)
      /\ UNCHANGED <<hdr, lookup, tapp, catalogVars, recs, clip, bankVars,
                     count, cur, appVars, hotkeyVars>>
  BY DEF SelectLoad, SelectLaunch
<1>2. UNCHANGED <<ram, tstat, btype, saved>>
  BY <1>1, SyncQuiet DEF AtLauncher, AppPCs
<1>3. \/ pc' = "menu" /\ job' = NoJob
      \/ pc' = "alloc" /\ ~ram[i].loaded /\ job'.idx = i
         /\ job'.kind # "manifest"
      \/ pc' = "launch" /\ ram[i].loaded /\ job'.idx = i
         /\ job'.kind # "manifest"
  BY <1>1, <1>2 DEF SelectLoad, SelectLaunch, BackToMenu
<1>4. AtLauncher /\ AtLauncher' /\ job'.kind # "manifest"
  BY <1>1, <1>3 DEF AtLauncher, NoJob, AppPCs
<1>5. JobInSession'
  BY <1>1, <1>2, <1>3, <1>4 DEF SessionInv, JobInSession, AtLauncher, AppPCs
<1> QED
  BY <1>1, <1>2, <1>4, <1>5, QuietStep
     DEF tokenVars, menuVars, shimVars

LEMMA AllocSession ==
  ASSUME SessionInv, IInv', KeepToken \/ NoToken
  PROVE  SessionInv'
<1>1. /\ pc = "alloc" /\ job' = job
      /\ UNCHANGED <<hdr, btype, tokenVars, catalogVars, recs, clip, bankVars,
                     menuVars, shimVars, appVars, hotkeyVars>>
      /\ \/ pc' = "preload" /\ ram[job.idx].tok # 0
         \/ pc' = "failed"
  BY DEF KeepToken, NoToken, GoTo
<1>2. AtLauncher /\ AtLauncher'
  BY <1>1 DEF AtLauncher, AppPCs
<1>3. JobInSession' /\ (job.kind = "manifest" => pc' = "failed")
  BY <1>1, <1>2
     DEF SessionInv, JobInSession, menuVars, shimVars, tokenVars
<1> QED
  BY <1>1, <1>2, <1>3, QuietStep

LEMMA LoadFailedSession ==
  ASSUME SessionInv, IInv', LoadFailed
  PROVE  SessionInv'
<1>1. /\ pc = "failed" /\ pc' = "menu" /\ job' = NoJob /\ job.kind # "manifest"
      /\ Sync(count, ram, tstat, btype)
      /\ UNCHANGED <<hdr, lookup, tapp, catalogVars, recs, clip, bankVars,
                     count, cur, appVars, hotkeyVars>>
  BY DEF LoadFailed, BackToMenu
<1>2. AtLauncher /\ AtLauncher' /\ job'.kind # "manifest"
  BY <1>1 DEF AtLauncher, NoJob, AppPCs
<1>3. UNCHANGED <<ram, tstat, btype, saved>>
  BY <1>1, <1>2, SyncQuiet
<1>4. JobInSession'
  BY <1>1, <1>2, <1>3 DEF SessionInv, JobInSession
<1> QED
  BY <1>1, <1>2, <1>3, <1>4, QuietStep DEF tokenVars, menuVars, shimVars

\* A launch finds the ReadyBASIC banks of a loaded app ready.
LEMMA PreparedQuiet ==
  ASSUME SessionInv, AtLauncher, NEW i \in Known,
         ~ram[i].basic \/ ram[i].ready, NEW o \in Prepared(i)
  PROVE  /\ o.ok = TRUE /\ o.mirrored = FALSE /\ o.recs = recs
         /\ o.entry = ram[i] /\ o.types = btype
<1> DEFINE e  == ram[i]
           bt == SetType(btype, LoadedBanks(count, ram, tstat), "app")
<1>1. IInv /\ pc # "off" /\ i \in Apps /\ Entries = ram
  BY EntriesAt, StateFacts DEF SessionInv, AtLauncher, AppPCs
<1>2. e \in Entry
  BY <1>1, StateFacts
<1>3. bt = btype
  <2>1. \A b \in LoadedBanks(count, ram, tstat) : btype[b] = "app"
    BY <1>1, StateFacts, LoadedTyped DEF SessionInv, BanksInSession
  <2> QED
    BY <1>1, <2>1, StateFacts, SameType
<1>4. MarkBasic(btype, e.core, e.code) = btype
  <2>1. (e.core # 0 => btype[e.core] = "rbcore")
        /\ (e.code # 0 => btype[e.code] = "rbcode")
    BY <1>1 DEF SessionInv, BasicInSession
  <2> QED
    BY <1>1, <2>1, StateFacts, SameMark
<1>5. CASE ~e.basic
  <2>1. o = [ok |-> TRUE, mirrored |-> FALSE, recs |-> recs,
             types |-> btype, entry |-> e]
    BY <1>5 DEF Prepared
  <2> QED
    BY <2>1
<1>6. CASE e.basic /\ e.ready
  <2>1. o = [ok |-> TRUE, mirrored |-> FALSE, recs |-> recs,
             types |-> MarkBasic(bt, e.core, e.code), entry |-> e]
    BY <1>6 DEF Prepared
  <2> QED
    BY <1>3, <1>4, <2>1
<1> QED
  BY <1>2, <1>5, <1>6 DEF Entry

LEMMA SameEntry ==
  ASSUME NEW r \in [Apps -> Entry], NEW i \in Apps
  PROVE  [r EXCEPT ![i] = r[i]] = r
OBVIOUS

LEMMA PrepareLaunchSession ==
  ASSUME SessionInv, IInv', PrepareLaunch
  PROVE  SessionInv'
<1> DEFINE i == job.idx
<1>1. PICK o \in Prepared(i) :
        LET r1 == [ram EXCEPT ![i] = o.entry]
        IN  /\ ram' = r1 /\ recs' = o.recs
            /\ btype' = IF o.mirrored THEN Anchored(o.types) ELSE o.types
            /\ MirrorIf(o.mirrored, r1)
            /\ IF o.ok THEN GoTo("start") ELSE BackToMenu
  BY DEF PrepareLaunch
<1>2. /\ pc = "launch"
      /\ UNCHANGED <<hdr, lookup, file, clip, bankVars, count, shimVars,
                     appVars, hotkeyVars>>
  BY DEF PrepareLaunch
<1>3. IInv /\ i \in Apps /\ i \in Known /\ AtLauncher /\ Entries = ram
      /\ ram[i].tok # 0 /\ ram[i].loaded
  BY <1>2, JobFacts, AppsFact, EntriesAt
     DEF SessionInv, CatalogInSession, JobInSession, AtLauncher, AppPCs
<1>4. ~ram[i].basic \/ ram[i].ready
  BY <1>2, <1>3 DEF SessionInv, TokensInSession, AtLauncher, AppPCs
<1>5. /\ o.ok = TRUE /\ o.mirrored = FALSE /\ o.recs = recs
      /\ o.entry = ram[i] /\ o.types = btype
  BY <1>3, <1>4, PreparedQuiet
<1>6. ram' = ram /\ recs' = recs /\ btype' = btype
      /\ UNCHANGED <<tstat, tapp, reg>> /\ pc' = "start" /\ job' = job
  BY <1>1, <1>3, <1>5, StateFacts, SameEntry DEF MirrorIf, GoTo
<1>7. JobInSession' /\ AtLauncher'
  BY <1>2, <1>3, <1>6 DEF SessionInv, JobInSession, AtLauncher, shimVars,
                          AppPCs
<1> QED
  BY <1>2, <1>3, <1>6, <1>7, QuietStep
     DEF tokenVars, catalogVars, menuVars, shimVars

-----------------------------------------------------------------------------
(***************************************************************************)
(* A program is put into its bank                                          *)
(***************************************************************************)
LEMMA JobToken ==
  ASSUME SessionInv,
         pc \in {"preload", "resources", "loaded", "launch", "start"}
  PROVE  /\ AtLauncher /\ Entries = ram /\ IInv
         /\ job.idx \in Known /\ job.idx \in Apps /\ ram[job.idx] \in Entry
         /\ ram[job.idx].tok \in Tokens /\ ram[job.idx].tok # 0
         /\ tstat[ram[job.idx].tok] # "free"
         /\ tapp[ram[job.idx].tok] = job.idx
         /\ lookup[ram[job.idx].tok] \in Usable
         /\ lookup[ram[job.idx].tok] \in Banks
<1>1. AtLauncher /\ Entries = ram /\ IInv /\ pc # "off"
  BY EntriesAt DEF AtLauncher, SessionInv, AppPCs
<1>2. /\ job.idx \in Apps /\ job.idx \in 1 .. count
      /\ ram[job.idx].tok \in Tokens /\ lookup[ram[job.idx].tok] \in Usable
  BY <1>1, JobFacts
<1>3. job.idx \in Known /\ ram[job.idx].tok # 0
  BY <1>1, <1>2, AppsFact DEF SessionInv, CatalogInSession
<1> QED
  BY <1>1, <1>2, <1>3, StateFacts, SkipFact DEF SessionInv, TokensInSession

\* Writing into the bank of a valid token hurts no other token's image.
LEMMA BankApart ==
  ASSUME SessionInv, pc # "off", NEW t \in Tokens, tstat[t] # "free"
  PROVE  /\ image \in [Banks -> Images] /\ lookup[t] \in Banks
         /\ \A u \in Tokens : u # t /\ tstat[u] # "free" =>
              lookup[u] \in Banks /\ lookup[u] # lookup[t]
<1>1. image \in [Banks -> Images] /\ lookup[t] \in Banks
  BY IInvFacts, StateFacts, SkipFact DEF SessionInv
<1>2. \A u \in Tokens : u # t /\ tstat[u] # "free" => lookup[u] # lookup[t]
  BY DEF SessionInv, BanksInSession
<1>3. \A u \in Tokens : tstat[u] # "free" => lookup[u] \in Banks
  BY IInvFacts, StateFacts, SkipFact DEF SessionInv
<1> QED
  BY <1>1, <1>2, <1>3

LEMMA DmaLoadFailsSession ==
  ASSUME SessionInv, IInv', DmaLoadFails
  PROVE  SessionInv'
<1> DEFINE t == ram[job.idx].tok
<1>1. /\ pc = "preload" /\ pc' = "failed" /\ job' = job
      /\ image' = [image EXCEPT ![lookup[t]] = None]
      /\ UNCHANGED <<hdr, btype, tokenVars, catalogVars, recs, clip, tail,
                     menuVars, shimVars, appVars, hotkeyVars>>
  BY DEF DmaLoadFails, GoTo
<1>2. /\ AtLauncher /\ Entries = ram /\ t \in Tokens /\ t # 0
      /\ tstat[t] # "free" /\ job.idx \in Known /\ job.idx \in Apps
  BY <1>1, JobToken
<1>3. tstat[t] # "loaded"
  BY <1>1, <1>2 DEF SessionInv, JobInSession, TokensInSession, AtLauncher,
                    AppPCs
<1>4. Entries' = ram /\ Known' = Known /\ AtLauncher'
  BY <1>1 DEF AtLauncher, Entries, Elsewhere, Known, catalogVars, menuVars,
              AppPCs
<1>5. CatalogInSession' /\ JobInSession'
  BY <1>1, <1>2, <1>4
     DEF SessionInv, CatalogInSession, JobInSession, AtLauncher, Away,
         catalogVars, menuVars, tokenVars, shimVars, AppPCs
<1>6. RegistryInStep' /\ TokensInSession'
  BY <1>1, <1>2, <1>4
     DEF SessionInv, RegistryInStep, TokensInSession, AtLauncher, catalogVars,
         menuVars, tokenVars, AppPCs
<1>7. BanksInSession' /\ BasicInSession'
  BY <1>1, <1>2, <1>4
     DEF SessionInv, BanksInSession, BasicInSession, AtLauncher, tokenVars,
         menuVars, AppPCs
<1>8. ImagesInSession'
  <2>1. \A u \in Tokens : tstat[u] = "loaded" =>
          lookup[u] \in Banks /\ lookup[u] # lookup[t]
    BY <1>1, <1>2, <1>3, BankApart
  <2>2. image \in [Banks -> Images]
    BY StateFacts DEF SessionInv
  <2> QED
    BY <1>1, <2>1, <2>2
       DEF SessionInv, ImagesInSession, tokenVars, catalogVars
<1>9. AppInSession' /\ HotkeysInSession'
  BY <1>1, <1>2, <1>4
     DEF SessionInv, AppInSession, HotkeysInSession, AtLauncher, tokenVars,
         catalogVars, hotkeyVars, AppPCs
<1> QED
  BY <1>5, <1>6, <1>7, <1>8, <1>9 DEF SessionInv

LEMMA PreloadSession ==
  ASSUME SessionInv, IInv', NEW got \in {file[job.idx], "launcher"},
         Preload(got)
  PROVE  SessionInv'
<1> DEFINE i == job.idx
           t == ram[i].tok
<1>1. /\ pc = "preload" /\ pc' = "resources" /\ job' = job
      /\ image' = [image EXCEPT ![lookup[t]] = got]
      /\ tstat' = [tstat EXCEPT ![t] = "loaded"]
      /\ ram' = [ram EXCEPT ![i].loaded = TRUE,
                            ![i].ready = @ /\ ~ram[i].basic]
      /\ UNCHANGED <<hdr, btype, lookup, tapp, catalogVars, recs, clip, tail,
                     count, shimVars, appVars, hotkeyVars>>
  BY DEF Preload, GoTo
<1>1a. /\ pc = "preload" /\ pc' = "resources" /\ job' = job
       /\ UNCHANGED <<hdr, btype, lookup, tapp, reg, file, recs, clip, saved,
                      count, hotkey, bound, stale>>
  BY <1>1 DEF catalogVars, shimVars, hotkeyVars
<1>2. /\ AtLauncher /\ Entries = ram /\ t \in Tokens /\ t # 0 /\ IInv
      /\ tstat[t] # "free" /\ tapp[t] = i /\ i \in Known /\ i \in Apps
      /\ ram[i] \in Entry
  BY <1>1, JobToken
<1>3. /\ ram'[i].tok = t /\ ram'[i].loaded = TRUE
      /\ ram'[i].ready = (ram[i].ready /\ ~ram[i].basic)
      /\ ram'[i].basic = ram[i].basic /\ ram'[i].core = ram[i].core
      /\ ram'[i].code = ram[i].code
  BY <1>1, <1>2, StateFacts DEF Entry
<1>4. \A j \in Apps : j # i => ram'[j] = ram[j]
  BY <1>1, <1>2, StateFacts
<1>5. Entries' = ram' /\ Known' = Known /\ AtLauncher' /\ pc' # "off"
  BY <1>1 DEF AtLauncher, Entries, Elsewhere, Known, catalogVars, AppPCs
<1>6. tstat'[t] = "loaded" /\ \A u \in Tokens : u # t => tstat'[u] = tstat[u]
  BY <1>1, <1>2, StateFacts
<1>7. \A j \in Known : j \in Apps
  BY DEF Known
<1>8. CatalogInSession'
  BY <1>1, <1>2, <1>3, <1>4, <1>5
     DEF SessionInv, CatalogInSession, AtLauncher, Away, catalogVars, AppPCs
<1>9. JobInSession'
  BY <1>1, <1>2, <1>3, <1>5
     DEF SessionInv, JobInSession, shimVars
<1>10. RegistryInStep'
  <2>1. ~ram[i].basic => ram'[i].ready = ram[i].ready
    BY <1>2, <1>3 DEF Entry
  <2>2. ASSUME NEW j \in Known
        PROVE  /\ j <= reg.count
               /\ reg.apps[j].tok = ram[j].tok
               /\ reg.apps[j].basic = ram[j].basic
               /\ reg.apps[j].core = ram[j].core
               /\ reg.apps[j].code = ram[j].code
               /\ reg.apps[j].ready = ram[j].ready
    BY <1>1, <1>2 DEF SessionInv, RegistryInStep
  <2>3. ASSUME NEW j \in Known
        PROVE  /\ ram'[j].tok = ram[j].tok /\ ram'[j].basic = ram[j].basic
               /\ ram'[j].core = ram[j].core /\ ram'[j].code = ram[j].code
               /\ \/ j = i /\ ram'[j].basic
                  \/ ram'[j].ready = ram[j].ready
    BY <1>3, <1>4, <1>7, <2>1
  <2> QED
    BY <1>1a, <1>5, <2>2, <2>3 DEF RegistryInStep
<1>11. TokensInSession'
  <2>1. ASSUME NEW j \in Known, ram'[j].tok # 0
        PROVE  /\ tstat'[ram'[j].tok] # "free" /\ tapp[ram'[j].tok] = j
               /\ ram'[j].loaded <=> tstat'[ram'[j].tok] = "loaded"
               /\ tstat'[ram'[j].tok] = "loaded" /\ ram'[j].basic =>
                    ram'[j].ready \/ j = i
    <3>1. CASE j = i
      BY <1>2, <1>3, <1>6, <3>1
    <3>2. CASE j # i
      <4>1. ram'[j] = ram[j] /\ ram[j] \in Entry
        BY <1>2, <1>4, <1>7, <3>2, StateFacts
      <4>2. /\ ram[j].tok \in Tokens /\ tapp[ram[j].tok] = j
            /\ tstat[ram[j].tok] # "free"
            /\ ram[j].loaded <=> tstat[ram[j].tok] = "loaded"
            /\ tstat[ram[j].tok] = "loaded" /\ ram[j].basic => ram[j].ready
        BY <1>1, <1>2, <2>1, <4>1
           DEF SessionInv, TokensInSession, AtLauncher, Entry, AppPCs
      <4>3. tstat'[ram[j].tok] = tstat[ram[j].tok]
        BY <1>2, <1>6, <3>2, <4>2
      <4> QED
        BY <4>1, <4>2, <4>3
    <3> QED
      BY <3>1, <3>2
  <2>2. ASSUME NEW u \in Tokens, tstat'[u] = "loaded"
        PROVE  tapp[u] \in Known /\ ram'[tapp[u]].tok = u
    <3>1. CASE u = t
      BY <1>2, <1>3, <3>1
    <3>2. CASE u # t
      <4>1. tapp[u] \in Known /\ ram[tapp[u]].tok = u
        BY <1>2, <1>6, <2>2, <3>2
           DEF SessionInv, TokensInSession, AtLauncher, AppPCs
      <4> QED
        BY <1>3, <1>4, <1>7, <4>1
    <3> QED
      BY <3>1, <3>2
  <2> QED
    BY <1>1a, <1>5, <2>1, <2>2 DEF TokensInSession
<1>12. \A u \in Tokens : tstat'[u] # "free" <=> tstat[u] # "free"
  BY <1>2, <1>6
<1>13. BanksInSession'
  BY <1>1, <1>2, <1>12 DEF SessionInv, BanksInSession, AtLauncher, AppPCs
<1>14. BasicInSession'
  <2>1. \A j \in Known : ram'[j].core = ram[j].core /\ ram'[j].code = ram[j].code
    BY <1>3, <1>4, <1>7
  <2> QED
    BY <1>1a, <1>2, <1>5, <2>1 DEF SessionInv, BasicInSession, AtLauncher,
                                   AppPCs
<1>15. ImagesInSession'
  <2>1. /\ image'[lookup[t]] = got
        /\ \A u \in Tokens : u # t /\ tstat[u] # "free" =>
             image'[lookup[u]] = image[lookup[u]]
    <3>1. image' = [image EXCEPT ![lookup[t]] = got]
      BY <1>1
    <3>2. /\ image \in [Banks -> Images] /\ lookup[t] \in Banks
          /\ \A u \in Tokens : u # t /\ tstat[u] # "free" =>
               lookup[u] \in Banks /\ lookup[u] # lookup[t]
      BY <1>1a, <1>2, BankApart
    <3> QED
      BY <3>1, <3>2
  <2>2. ASSUME NEW u \in Tokens, tstat'[u] = "loaded"
        PROVE  image'[lookup[u]] \in {file[tapp[u]], "launcher"}
    <3>1. CASE u = t
      BY <1>2, <2>1, <3>1
    <3>2. CASE u # t
      <4>1. tstat[u] = "loaded" /\ image'[lookup[u]] = image[lookup[u]]
        BY <1>6, <2>1, <2>2, <3>2
      <4> QED
        BY <1>1a, <4>1 DEF SessionInv, ImagesInSession
    <3> QED
      BY <3>1, <3>2
  <2> QED
    BY <1>1a, <2>2 DEF ImagesInSession
<1>16. AppInSession'
  BY <1>1 DEF AppInSession, AppPCs
<1>17. HotkeysInSession'
  <2>1. \A j \in Known : ram'[j].tok = ram[j].tok
    BY <1>3, <1>4, <1>7
  <2>2. \A s \in Slots : hotkey[s] # 0 => hotkey[s] \in Tokens
    BY <1>2 DEF IInv, TypeOK
  <2> QED
    BY <1>1a, <1>2, <1>5, <1>12, <2>1, <2>2
       DEF SessionInv, HotkeysInSession, AtLauncher, AppPCs
<1> QED
  BY <1>8, <1>9, <1>10, <1>11, <1>13, <1>14, <1>15, <1>16, <1>17
     DEF SessionInv

-----------------------------------------------------------------------------
(***************************************************************************)
(* An app is added to the catalog                                          *)
(***************************************************************************)
LEMMA NewEntryBlank ==
  ASSUME NEW p \in Prog
  PROVE  /\ NewEntry(p) \in Entry /\ NewEntry(p).tok = 0
         /\ NewEntry(p).loaded = FALSE
         /\ NewEntry(p).core = 0 /\ NewEntry(p).code = 0
<1>1. ASSUME NEW s, NEW b, NEW e,
             e = [BlankEntry EXCEPT !.slot = s, !.basic = b]
      PROVE  e.core = 0 /\ e.code = 0
  BY <1>1 DEF BlankEntry
<1>2. NewEntry(p).core = 0 /\ NewEntry(p).code = 0
  BY <1>1, Zenon DEF NewEntry
<1> QED
  BY <1>2, NewEntryFact

LEMMA SelectManifestSession ==
  ASSUME SessionInv, IInv', NEW p \in Manifests, SelectManifest(p)
  PROVE  SessionInv'
<1> DEFINE n == count + 1
           r == [ram EXCEPT ![n] = NewEntry(p)]
<1>1. /\ pc = "menu" /\ pc' = "alloc" /\ count' = n
      /\ file' = [file EXCEPT ![n] = p]
      /\ Sync(n, r, tstat, btype)
      /\ job'.kind = "manifest" /\ job'.idx = n
      /\ UNCHANGED <<hdr, lookup, tapp, reg, recs, clip, image, tail, cur,
                     running, held, hotkey, bound, stale>>
  BY DEF SelectManifest, bankVars, appVars, hotkeyVars
<1>2. /\ IInv /\ saved = 0 /\ Entries = ram /\ AtLauncher /\ pc # "off"
      /\ Known = 1 .. count /\ count \in 0 .. MaxApps
      /\ ram \in [Apps -> Entry] /\ file \in [Apps -> Prog \cup {None}]
  BY <1>1, LauncherAgrees, StateFacts
     DEF SessionInv, CatalogInSession, AtLauncher, AppPCs
<1>3. n \in Apps /\ n \in 0 .. MaxApps /\ n \notin Known /\ p \in Prog
      /\ p # None /\ p \in Offered
  BY <1>2, CatalogAssumption DEF SelectManifest, Apps, Offered
<1>4. /\ r \in [Apps -> Entry] /\ r[n].tok = 0 /\ r[n].loaded = FALSE
      /\ r[n].core = 0 /\ r[n].code = 0
      /\ \A i \in Apps : i # n => r[i] = ram[i]
  BY <1>2, <1>3, NewEntryBlank
<1> HIDE DEF r
<1>5. /\ ram' = r /\ tstat' = tstat /\ btype' = btype /\ saved' = 0
  <2>1. ASSUME NEW i \in Apps, i <= n, r[i].tok # 0
        PROVE  r[i].loaded <=> tstat[r[i].tok] = "loaded"
    <3>1. i # n /\ r[i] = ram[i]
      BY <1>4, <2>1
    <3>2. i <= count
      BY <1>2, <2>1, <3>1 DEF Apps
    <3> QED
      BY <1>2, <2>1, <3>1, <3>2, LauncherAgrees
  <2>2. /\ SyncedStatus(n, r, tstat) = tstat
        /\ SyncedEntries(n, r, tstat) = r
        /\ SetType(btype, LoadedBanks(n, r, tstat), "app") = btype
    BY <1>2, <1>3, <1>4, <2>1, LauncherAgrees, StateFacts, SyncSame
  <2> QED
    BY <1>1, <2>2 DEF Sync
<1>6. Entries' = r /\ AtLauncher' /\ pc' # "off"
  BY <1>1, <1>5 DEF AtLauncher, Entries, Elsewhere, AppPCs
<1>7. /\ file'[n] = p /\ \A i \in Apps : i # n => file'[i] = file[i]
      /\ Known' = Known \cup {n} /\ Known' = 1 .. n
  <2>1. file'[n] = p /\ \A i \in Apps : i # n => file'[i] = file[i]
    BY <1>1, <1>2, <1>3
  <2>2. Known' = Known \cup {n}
    BY <1>3, <2>1 DEF Known
  <2> QED
    BY <1>2, <2>1, <2>2
<1>8. \A i \in Known : i \in Apps /\ i # n /\ r[i] = ram[i] /\ file'[i] = file[i]
  BY <1>3, <1>4, <1>7 DEF Known
<1>9. CatalogInSession'
  <2>1. \A i \in Known' : file'[i] \in Offered
    <3>1. \A i \in Known : file[i] \in Offered
      BY DEF SessionInv, CatalogInSession
    <3> QED
      BY <1>3, <1>7, <1>8, <3>1
  <2>2. ASSUME NEW i \in Apps, i > n PROVE r[i].tok = 0
    BY <1>2, <1>4, <2>2 DEF SessionInv, CatalogInSession, Apps
  <2>3. \A i \in Apps : i > reg.count => reg.apps[i].tok = 0
    BY <1>2 DEF SessionInv, CatalogInSession
  <2> QED
    BY <1>1, <1>5, <1>7, <2>1, <2>2, <2>3 DEF CatalogInSession, Away, AppPCs
<1>10. JobInSession'
  BY <1>1, <1>4, <1>5, <1>6 DEF JobInSession
<1>11. RegistryInStep'
  BY <1>1, <1>2, <1>5, <1>7, <1>8 DEF SessionInv, RegistryInStep
<1>12. TokensInSession'
  BY <1>1, <1>2, <1>4, <1>5, <1>6, <1>7, <1>8
     DEF SessionInv, TokensInSession
<1>13. BanksInSession'
  BY <1>1, <1>2, <1>5 DEF SessionInv, BanksInSession
<1>14. BasicInSession'
  BY <1>1, <1>2, <1>4, <1>5, <1>6, <1>7, <1>8
     DEF SessionInv, BasicInSession
<1>15. ImagesInSession'
  BY <1>1, <1>2, <1>5, <1>8
     DEF SessionInv, ImagesInSession, TokensInSession
<1>16. AppInSession'
  BY <1>1 DEF AppInSession, AppPCs
<1>17. HotkeysInSession'
  BY <1>1, <1>2, <1>5, <1>6, <1>7, <1>8
     DEF SessionInv, HotkeysInSession
<1> QED
  BY <1>9, <1>10, <1>11, <1>12, <1>13, <1>14, <1>15, <1>16, <1>17
     DEF SessionInv

-----------------------------------------------------------------------------
(***************************************************************************)
(* The mirror                                                              *)
(***************************************************************************)

\* The entries name different tokens, all of them valid.
Distinct(n, r, st) ==
  /\ \A i, j \in 1 .. n : r[i].tok # 0 /\ r[i].tok = r[j].tok => i = j
  /\ \A i \in 1 .. n : r[i].tok # 0 => st[r[i].tok] # "free"

LEMMA MirrorExact ==
  ASSUME NEW n \in 0 .. MaxApps, NEW r \in [Apps -> Entry],
         NEW st \in [Tokens -> Status], Distinct(n, r, st)
  PROVE  /\ \A i \in 1 .. n : r[i].tok # 0 =>
              /\ MirroredStatus(n, r, st)[r[i].tok] # "free"
              /\ MirroredApp(n, r, st)[r[i].tok] = i
              /\ MirroredStatus(n, r, st)[r[i].tok] = "loaded" <=> r[i].loaded
         /\ \A t \in Tokens : MirroredStatus(n, r, st)[t] # "free" =>
              /\ st[t] # "free"
              /\ \E i \in 1 .. n : r[i].tok = t
<1>1. ASSUME NEW i \in 1 .. n, r[i].tok # 0
      PROVE  /\ MirroredStatus(n, r, st)[r[i].tok] # "free"
             /\ MirroredApp(n, r, st)[r[i].tok] = i
             /\ MirroredStatus(n, r, st)[r[i].tok] = "loaded" <=> r[i].loaded
  <2>1. i \in Apps /\ r[i] \in Entry /\ r[i].tok \in Tokens
    BY <1>1, AppsFact DEF Entry
  <2>2. st[r[i].tok] # "free" /\ Uses(n, r, r[i].tok)
    BY <1>1 DEF Distinct, Uses
  <2>3. \A j \in 1 .. n : r[j].tok = r[i].tok => j = i
    BY <1>1 DEF Distinct
  <2>4. (CHOOSE j \in 1 .. n : r[j].tok = r[i].tok) = i
    BY <2>3
  <2>5. MirroredApp(n, r, st)[r[i].tok] = i
    BY <2>1, <2>2, <2>4 DEF MirroredApp
  <2>6. (\E j \in 1 .. n : r[j].tok = r[i].tok /\ r[j].loaded) <=> r[i].loaded
    BY <2>3
  <2> QED
    BY <2>1, <2>2, <2>5, <2>6 DEF MirroredStatus
<1>2. ASSUME NEW t \in Tokens, MirroredStatus(n, r, st)[t] # "free"
      PROVE  st[t] # "free" /\ \E i \in 1 .. n : r[i].tok = t
  BY <1>2 DEF MirroredStatus, Uses
<1> QED
  BY <1>1, <1>2

\* What the launcher's own tables say is what the mirror looks at.
LEMMA LauncherDistinct ==
  ASSUME SessionInv, AtLauncher
  PROVE  /\ Distinct(count, ram, tstat)
         /\ Known = 1 .. count /\ Known \subseteq Apps
         /\ \A i \in Known : ram[i].tok # 0 =>
              /\ ram[i].tok \in Tokens
              /\ tstat[ram[i].tok] # "free" /\ tapp[ram[i].tok] = i
              /\ ram[i].loaded <=> tstat[ram[i].tok] = "loaded"
              /\ ram[i].loaded /\ ram[i].basic =>
                   ram[i].ready \/ (pc = "resources" /\ i = job.idx)
<1>1. Known = 1 .. count /\ Known \subseteq Apps
  BY DEF SessionInv, CatalogInSession, Known
<1>2. ASSUME NEW i \in Known, ram[i].tok # 0
      PROVE  /\ ram[i].tok \in Tokens
             /\ tstat[ram[i].tok] # "free" /\ tapp[ram[i].tok] = i
             /\ ram[i].loaded <=> tstat[ram[i].tok] = "loaded"
             /\ ram[i].loaded /\ ram[i].basic =>
                  ram[i].ready \/ (pc = "resources" /\ i = job.idx)
  <2>1. ram[i] \in Entry /\ ram[i].tok \in Tokens
    BY <1>1, <1>2, LauncherAgrees, StateFacts DEF Entry
  <2> QED
    BY <1>2, <2>1, LauncherAgrees DEF SessionInv, TokensInSession
<1>3. Distinct(count, ram, tstat)
  BY <1>1, <1>2 DEF Distinct
<1> QED
  BY <1>1, <1>2, <1>3

\* The tables as the mirror leaves them.
Mirrored(n, r, st) ==
  /\ ram' = r /\ count' = n
  /\ tstat' = MirroredStatus(n, r, st) /\ tapp' = MirroredApp(n, r, st)
  /\ reg' = Published(n, r)

LEMMA MirroredStep ==
  ASSUME NEW n \in 0 .. MaxApps, NEW r \in [Apps -> Entry],
         NEW st \in [Tokens -> Status], Distinct(n, r, st),
         Mirrored(n, r, st), AtLauncher', Known' = 1 .. n,
         \A i \in Known' : file'[i] \in Offered,
         \A i \in Apps : i > n => r[i].tok = 0,
         \A i \in 1 .. n : r[i].tok # 0 /\ r[i].loaded /\ r[i].basic =>
           r[i].ready
  PROVE  /\ CatalogInSession' /\ RegistryInStep' /\ TokensInSession'
         /\ Entries' = r /\ pc' # "off"
         /\ \A i \in 1 .. n : r[i].tok # 0 =>
              tstat'[r[i].tok] # "free" /\ tapp'[r[i].tok] = i
         /\ \A t \in Tokens : tstat'[t] # "free" => st[t] # "free"
         /\ \A t \in Tokens : tstat'[t] = "loaded" =>
              /\ tapp'[t] \in 1 .. n /\ r[tapp'[t]].tok = t
              /\ r[tapp'[t]].loaded
<1>1. /\ Entries' = r /\ ram' = r /\ count' = n /\ pc' # "off"
      /\ reg'.count = n /\ reg'.apps = r
  BY DEF Mirrored, AtLauncher, Entries, Elsewhere, Published, AppPCs
<1>2. ASSUME NEW i \in 1 .. n, r[i].tok # 0
      PROVE  /\ tstat'[r[i].tok] # "free" /\ tapp'[r[i].tok] = i
             /\ tstat'[r[i].tok] = "loaded" <=> r[i].loaded
  BY <1>2, MirrorExact DEF Mirrored
<1>3. ASSUME NEW t \in Tokens, tstat'[t] # "free"
      PROVE  st[t] # "free" /\ \E i \in 1 .. n : r[i].tok = t
  BY <1>3, MirrorExact DEF Mirrored
<1>4. ASSUME NEW t \in Tokens, tstat'[t] = "loaded"
      PROVE  /\ tapp'[t] \in 1 .. n /\ r[tapp'[t]].tok = t
             /\ r[tapp'[t]].loaded
  <2>1. PICK i \in 1 .. n : r[i].tok = t
    BY <1>3, <1>4
  <2>2. r[i].tok # 0
    BY <2>1, AppsFact
  <2> QED
    BY <1>2, <1>4, <2>1, <2>2
<1>5. CatalogInSession'
  BY <1>1 DEF CatalogInSession, AtLauncher, Away, AppPCs
<1>6. RegistryInStep'
  BY <1>1 DEF RegistryInStep
<1>7. TokensInSession'
  BY <1>1, <1>2, <1>4 DEF TokensInSession
<1> QED
  BY <1>1, <1>2, <1>3, <1>4, <1>5, <1>6, <1>7

\* While the launcher works a hotkey's token is an app's, which keeps both.
LEMMA HotkeysKept ==
  ASSUME SessionInv, AtLauncher, AtLauncher',
         UNCHANGED <<hotkey, bound, stale>>,
         job'.kind = "manifest" => job' = job,
         \A i \in Known : ram[i].tok # 0 =>
           /\ i \in Known' /\ file'[i] = file[i] /\ ram'[i].tok = ram[i].tok
           /\ tstat'[ram[i].tok] # "free" /\ tapp'[ram[i].tok] = i
  PROVE  HotkeysInSession'
<1>1. Entries = ram /\ Entries' = ram' /\ pc # "off"
  BY LauncherAgrees DEF Entries, Elsewhere, AtLauncher, AppPCs
<1>2. ASSUME NEW s \in Slots \ stale, hotkey[s] # 0
      PROVE  /\ tstat'[hotkey[s]] # "free" /\ tapp'[hotkey[s]] \in Known'
             /\ ram'[tapp'[hotkey[s]]].tok = hotkey[s]
             /\ bound[s] = file'[tapp'[hotkey[s]]]
             /\ job'.kind = "manifest" => tapp'[hotkey[s]] # job'.idx
  <2>1. /\ tapp[hotkey[s]] \in Known
        /\ ram[tapp[hotkey[s]]].tok = hotkey[s]
        /\ bound[s] = file[tapp[hotkey[s]]]
        /\ job.kind = "manifest" => tapp[hotkey[s]] # job.idx
    BY <1>1, <1>2 DEF SessionInv, HotkeysInSession
  <2> QED
    BY <1>2, <2>1
<1> QED
  BY <1>1, <1>2 DEF HotkeysInSession

LEMMA BindTokenSession ==
  ASSUME SessionInv, IInv', BindToken
  PROVE  SessionInv'
<1> DEFINE i == job.idx
<1>1. PICK t \in FirstToken(i), b \in FirstFree(btype) :
        LET r1  == [ram EXCEPT ![i].tok = t]
            st1 == [tstat EXCEPT ![t] = "valid"]
        IN  /\ btype' = Anchored(SetType(btype, {b}, "app"))
            /\ lookup' = [lookup EXCEPT ![t] = b]
            /\ ram' = r1
            /\ tstat' = MirroredStatus(count, r1, st1)
            /\ tapp' = MirroredApp(count, r1, st1)
            /\ reg' = Published(count, r1)
  BY DEF BindToken
<1> DEFINE r1  == [ram EXCEPT ![i].tok = t]
           st1 == [tstat EXCEPT ![t] = "valid"]
<1>2. /\ pc = "alloc" /\ pc' = "preload" /\ job' = job /\ ram[i].tok = 0
      /\ UNCHANGED <<hdr, file, recs, clip, image, count, saved, hotkey, bound,
                     stale>>
  BY DEF BindToken, GoTo, bankVars, shimVars, hotkeyVars
<1>3. /\ AtLauncher /\ AtLauncher' /\ IInv /\ Entries = ram /\ saved = 0
      /\ pc # "off" /\ pc' # "off" /\ Known = 1 .. count /\ Known' = Known
      /\ count \in 0 .. MaxApps /\ i \in Known /\ i \in Apps /\ Sound(btype)
      /\ Known \subseteq Apps /\ ~ram[i].loaded
  BY <1>2, JobFacts, LauncherAgrees, LauncherDistinct, StateFacts
     DEF AtLauncher, Known, SessionInv, JobInSession, AppPCs
<1>4. /\ ram \in [Apps -> Entry] /\ tstat \in [Tokens -> Status]
      /\ lookup \in [Tokens -> {0} \cup Usable]
      /\ btype \in [Banks -> BankTypes]
  BY <1>3, StateFacts
<1>5. /\ b \in Usable /\ b \in Banks /\ btype[b] = "free"
      /\ t \in Tokens /\ t # 0 /\ tstat[t] = "free"
  BY <1>3, FreeFact, SkipFact, AppsFact
     DEF FirstFree, FreeBanks, FirstToken, FreeTokens
<1>6. /\ r1 \in [Apps -> Entry] /\ r1[i].tok = t
      /\ \A j \in Apps : j # i => r1[j] = ram[j]
      /\ r1[i].loaded = ram[i].loaded /\ r1[i].basic = ram[i].basic
      /\ r1[i].core = ram[i].core /\ r1[i].code = ram[i].code
  BY <1>3, <1>4, <1>5 DEF Entry
<1>7. /\ st1 \in [Tokens -> Status] /\ st1[t] = "valid"
      /\ \A u \in Tokens : u # t => st1[u] = tstat[u]
  BY <1>4, <1>5 DEF Status
<1>8. /\ \A u \in Banks : btype'[u] = IF u = b THEN "app" ELSE btype[u]
      /\ \A u \in Tokens : lookup'[u] = IF u = t THEN b ELSE lookup[u]
  <2>1. Sound(SetType(btype, {b}, "app"))
    BY <1>3, <1>5, SetTypeFact, ClientTypesFact
  <2>2. btype' = SetType(btype, {b}, "app")
    BY <1>1, <2>1, SameAnchor
  <2>3. lookup' = [lookup EXCEPT ![t] = b]
    BY <1>1
  <2> QED
    BY <1>4, <2>2, <2>3 DEF SetType
<1>9. Mirrored(count, r1, st1)
  BY <1>1, <1>2 DEF Mirrored
<1> HIDE DEF r1, st1
<1>10. \A j \in Known : j # i /\ ram[j].tok # 0 =>
         ram[j].tok \in Tokens /\ ram[j].tok # t /\ tstat[ram[j].tok] # "free"
  BY <1>3, <1>5, LauncherDistinct
<1>11. Distinct(count, r1, st1)
  <2>1. \A j \in Known : j # i /\ r1[j].tok # 0 =>
          /\ r1[j].tok = ram[j].tok /\ r1[j].tok # t
          /\ st1[r1[j].tok] # "free"
    BY <1>3, <1>6, <1>7, <1>10
  <2>2. \A j, k \in Known : ram[j].tok # 0 /\ ram[j].tok = ram[k].tok => j = k
    BY <1>3, LauncherDistinct DEF Distinct
  <2>3. st1[r1[i].tok] # "free"
    BY <1>6, <1>7
  <2> QED
    BY <1>3, <1>6, <2>1, <2>2, <2>3 DEF Distinct
<1>12. /\ CatalogInSession' /\ RegistryInStep' /\ TokensInSession'
       /\ Entries' = r1
       /\ \A j \in 1 .. count : r1[j].tok # 0 =>
            tstat'[r1[j].tok] # "free" /\ tapp'[r1[j].tok] = j
       /\ \A u \in Tokens : tstat'[u] # "free" => st1[u] # "free"
       /\ \A u \in Tokens : tstat'[u] = "loaded" =>
            /\ tapp'[u] \in 1 .. count /\ r1[tapp'[u]].tok = u
            /\ r1[tapp'[u]].loaded
  <2>1. \A j \in Known' : file'[j] \in Offered
    BY <1>2, <1>3 DEF SessionInv, CatalogInSession
  <2>2. \A j \in Apps : j > count => r1[j].tok = 0
    BY <1>3, <1>6 DEF SessionInv, CatalogInSession
  <2>3. \A j \in 1 .. count : r1[j].tok # 0 /\ r1[j].loaded /\ r1[j].basic =>
          r1[j].ready
    BY <1>2, <1>3, <1>6, LauncherDistinct
  <2> QED
    BY <1>3, <1>6, <1>7, <1>9, <1>11, <2>1, <2>2, <2>3, MirroredStep
<1>13. JobInSession'
  BY <1>2, <1>3, <1>6, <1>9 DEF SessionInv, JobInSession, Mirrored
<1>14. BanksInSession'
  <2>1. \A u \in Tokens : tstat'[u] # "free" =>
          u = t \/ (tstat[u] # "free" /\ lookup'[u] = lookup[u]
                    /\ lookup[u] \in Banks /\ btype[lookup[u]] = "app")
    BY <1>3, <1>7, <1>8, <1>12, BankApart DEF SessionInv, BanksInSession
  <2>2. \A x \in recs : x.bank \in Banks /\ btype[x.bank] = x.kind
                        /\ x.kind # "free"
    BY <1>3, StateFacts, SkipFact DEF SessionInv, BanksInSession, Record, Kinds
  <2>3. hdr => \A x \in clip : x \in Banks /\ btype[x] = "clip"
    BY <1>3, StateFacts, SkipFact DEF SessionInv, BanksInSession
  <2>4. \A x \in Banks : btype[x] # "free" => btype'[x] = btype[x]
    BY <1>5, <1>8
  <2>5. lookup'[t] = b /\ btype'[b] = "app"
    BY <1>5, <1>8
  <2>6. \A u, v \in Tokens : tstat'[u] # "free" /\ tstat'[v] # "free"
                             /\ lookup'[u] = lookup'[v] => u = v
    BY <1>3, <1>5, <2>1, <2>5 DEF SessionInv, BanksInSession
  <2> QED
    BY <1>2, <1>3, <2>1, <2>2, <2>3, <2>4, <2>5, <2>6
       DEF SessionInv, BanksInSession
<1>15. BasicInSession'
  <2>1. \A j \in Known : r1[j].core = ram[j].core /\ r1[j].code = ram[j].code
    BY <1>3, <1>6
  <2>2. \A j \in Known : ram[j].core \in {0} \cup Banks
                         /\ ram[j].code \in {0} \cup Banks
    BY <1>3, <1>4, SkipFact DEF Entry
  <2>3. \A x \in Banks : btype[x] # "free" => btype'[x] = btype[x]
    BY <1>5, <1>8
  <2> QED
    BY <1>2, <1>3, <1>12, <2>1, <2>2, <2>3 DEF SessionInv, BasicInSession
<1>16. ImagesInSession'
  <2>1. ASSUME NEW u \in Tokens, tstat'[u] = "loaded"
        PROVE  image[lookup'[u]] \in {file[tapp'[u]], "launcher"}
    <3>1. PICK j \in Known : tapp'[u] = j /\ r1[j].tok = u /\ r1[j].loaded
      BY <1>3, <1>12, <2>1
    <3>2. j # i /\ ram[j].tok = u /\ ram[j].loaded /\ u # 0 /\ u # t
      BY <1>3, <1>6, <1>10, <3>1, AppsFact
    <3>3. tstat[u] = "loaded" /\ tapp[u] = j
      BY <1>3, <3>2, LauncherDistinct
    <3>4. image[lookup[u]] \in {file[j], "launcher"}
      BY <1>3, <3>3 DEF SessionInv, ImagesInSession
    <3> QED
      BY <1>8, <3>1, <3>2, <3>4
  <2> QED
    BY <1>2, <2>1 DEF ImagesInSession
<1>17. AppInSession'
  BY <1>2 DEF AppInSession, AppPCs
<1>18. HotkeysInSession'
  <2>1. \A j \in Known : ram[j].tok # 0 => r1[j].tok = ram[j].tok
    BY <1>2, <1>3, <1>6
  <2>2. ram' = r1
    BY <1>9 DEF Mirrored
  <2> QED
    BY <1>2, <1>3, <1>12, <2>1, <2>2, HotkeysKept
<1> QED
  BY <1>12, <1>13, <1>14, <1>15, <1>16, <1>17, <1>18 DEF SessionInv

-----------------------------------------------------------------------------
(***************************************************************************)
(* The resources of an app                                                 *)
(***************************************************************************)

\* A mirror that finds the tokens as they were.
LEMMA MirroredKeeps ==
  ASSUME SessionInv, AtLauncher, AtLauncher', NEW r \in [Apps -> Entry],
         \A j \in Apps : /\ r[j].tok = ram[j].tok
                         /\ r[j].loaded => ram[j].loaded,
         \A j \in 1 .. count : r[j].tok # 0 /\ r[j].loaded /\ r[j].basic =>
           r[j].ready,
         Mirrored(count, r, tstat), UNCHANGED <<file, lookup, image>>
  PROVE  /\ CatalogInSession' /\ RegistryInStep' /\ TokensInSession'
         /\ ImagesInSession' /\ Entries' = r /\ Known' = Known
         /\ \A j \in Known : ram[j].tok # 0 =>
              tstat'[ram[j].tok] # "free" /\ tapp'[ram[j].tok] = j
         /\ \A t \in Tokens : tstat'[t] # "free" => tstat[t] # "free"
<1>1. /\ IInv /\ Entries = ram /\ pc # "off" /\ Known = 1 .. count
      /\ Known \subseteq Apps /\ Known' = Known /\ count \in 0 .. MaxApps
      /\ tstat \in [Tokens -> Status]
  BY LauncherAgrees, LauncherDistinct, StateFacts DEF Known
<1>2. Distinct(count, r, tstat)
  BY <1>1, LauncherDistinct DEF Distinct
<1>3. \A j \in Known' : file'[j] \in Offered
  BY <1>1 DEF SessionInv, CatalogInSession
<1>4. \A j \in Apps : j > count => r[j].tok = 0
  BY DEF SessionInv, CatalogInSession
<1>5. /\ CatalogInSession' /\ RegistryInStep' /\ TokensInSession'
      /\ Entries' = r
      /\ \A j \in 1 .. count : r[j].tok # 0 =>
           tstat'[r[j].tok] # "free" /\ tapp'[r[j].tok] = j
      /\ \A u \in Tokens : tstat'[u] # "free" => tstat[u] # "free"
      /\ \A u \in Tokens : tstat'[u] = "loaded" =>
           /\ tapp'[u] \in 1 .. count /\ r[tapp'[u]].tok = u
           /\ r[tapp'[u]].loaded
  BY <1>1, <1>2, <1>3, <1>4, MirroredStep
<1>6. ASSUME NEW u \in Tokens, tstat'[u] = "loaded"
      PROVE  image[lookup[u]] \in {file[tapp'[u]], "launcher"}
  <2>1. PICK j \in Known : tapp'[u] = j /\ ram[j].tok = u /\ ram[j].loaded
    BY <1>1, <1>5, <1>6
  <2>2. tstat[u] = "loaded" /\ tapp[u] = j
    BY <2>1, AppsFact, LauncherDistinct
  <2> QED
    BY <1>1, <2>1, <2>2 DEF SessionInv, ImagesInSession
<1>7. ImagesInSession'
  BY <1>6 DEF ImagesInSession
<1> QED
  BY <1>1, <1>5, <1>7

\* The banks of the ReadyBASIC resource set: those the app has, or two that
\* were free.
LEMMA BasicPair ==
  ASSUME SessionInv, AtLauncher, NEW i \in Known
  PROVE  /\ BasicBanks(btype, ram[i]) = {} =>
              ram[i].core = 0 /\ ram[i].code = 0
         /\ \A p \in BasicBanks(btype, ram[i]) :
              /\ p[1] \in Usable /\ p[2] \in Usable /\ p[1] # p[2]
              /\ \/ btype[p[1]] = "free" /\ ram[i].core = 0
                 \/ btype[p[1]] = "rbcore" /\ ram[i].core = p[1]
              /\ \/ btype[p[2]] = "free" /\ ram[i].code = 0
                 \/ btype[p[2]] = "rbcode" /\ ram[i].code = p[2]
<1> DEFINE e == ram[i]
           with(c) == SetType(btype, {c} \ KeptCore(btype, e), "rbcore")
<1>1. /\ IInv /\ Entries = ram /\ pc # "off" /\ i \in Apps /\ e \in Entry
      /\ btype \in [Banks -> BankTypes]
  BY LauncherAgrees, StateFacts DEF Known
<1>2. /\ (e.core = 0) = (e.code = 0)
      /\ e.core # 0 => btype[e.core] = "rbcore"
      /\ e.code # 0 => btype[e.code] = "rbcode"
      /\ e.core \in {0} \cup Usable /\ e.code \in {0} \cup Usable
  BY <1>1 DEF SessionInv, BasicInSession, Entry
<1>3. CASE e.core # 0
  <2>1. e.code # 0 /\ e.core \in Usable /\ e.code \in Usable /\ e.core # e.code
    BY <1>2, <1>3
  <2>2. KeptCore(btype, e) = {e.core}
    BY <1>2, <1>3 DEF KeptCore, Validated
  <2>3. KeptCode(btype, e) = {e.code}
    BY <1>2, <2>1, <2>2 DEF KeptCode, Validated
  <2>4. BasicBanks(btype, e) =
          {p \in Usable \X Usable : p[1] \in {e.core} /\ p[2] \in {e.code}}
    BY <2>2, <2>3 DEF BasicBanks
  <2>5. <<e.core, e.code>> \in BasicBanks(btype, e)
    BY <2>1, <2>4
  <2> QED
    BY <1>2, <1>3, <2>1, <2>4, <2>5
<1>4. CASE e.core = 0
  <2>1. e.code = 0
    BY <1>2, <1>4
  <2>2. KeptCore(btype, e) = {} /\ KeptCode(btype, e) = {}
    BY <1>4, <2>1 DEF KeptCore, KeptCode, Validated
  <2>3. ASSUME NEW p \in BasicBanks(btype, e)
        PROVE  /\ p[1] \in Usable /\ p[2] \in Usable /\ p[1] # p[2]
               /\ btype[p[1]] = "free" /\ btype[p[2]] = "free"
    <3>1. /\ p[1] \in Usable /\ p[2] \in Usable
          /\ p[1] \in FirstFree(btype) /\ p[2] \in FirstFree(with(p[1]))
      BY <2>2 DEF BasicBanks
    <3>2. with(p[1]) = SetType(btype, {p[1]}, "rbcore")
      BY <2>2
    <3>3. btype[p[1]] = "free"
      BY <3>1 DEF FirstFree, FreeBanks
    <3>4. with(p[1])[p[2]] = "free"
      BY <3>1 DEF FirstFree, FreeBanks
    <3>5. p[2] # p[1] /\ btype[p[2]] = "free"
      BY <1>1, <3>1, <3>2, <3>4, SkipFact DEF SetType
    <3> QED
      BY <3>1, <3>3, <3>5
  <2> QED
    BY <1>4, <2>1, <2>3
<1> QED
  BY <1>3, <1>4

\* An app gets the banks c and d and records of them; no one else has them.
LEMMA BasicGiven ==
  ASSUME SessionInv, AtLauncher, pc' # "off", NEW i \in Known,
         NEW c \in Usable, NEW d \in Usable, c # d,
         \/ btype[c] = "free" /\ ram[i].core = 0
         \/ btype[c] = "rbcore" /\ ram[i].core = c,
         \/ btype[d] = "free" /\ ram[i].code = 0
         \/ btype[d] = "rbcode" /\ ram[i].code = d,
         \A b \in Banks : btype'[b] = IF b = c THEN "rbcore"
                                      ELSE IF b = d THEN "rbcode" ELSE btype[b],
         Known' = Known,
         Entries'[i].core = c, Entries'[i].code = d,
         \A j \in Known : j # i => /\ Entries'[j].core = ram[j].core
                                   /\ Entries'[j].code = ram[j].code,
         \A x \in recs' : \/ x \in recs /\ x.app # i
                          \/ x.app = i /\ x.kind = "rbcore" /\ x.bank = c
                          \/ x.app = i /\ x.kind = "rbcode" /\ x.bank = d,
         UNCHANGED <<hdr, lookup, clip>>,
         \A t \in Tokens : tstat'[t] # "free" => tstat[t] # "free"
  PROVE  BanksInSession' /\ BasicInSession'
<1>1. /\ IInv /\ Entries = ram /\ pc # "off" /\ Known \subseteq Apps
      /\ c \in Banks /\ d \in Banks /\ c # 0 /\ d # 0
  BY LauncherAgrees, SkipFact DEF Known
<1>2. /\ \A t \in Tokens : tstat[t] # "free" =>
           lookup[t] \in Banks /\ btype[lookup[t]] = "app"
      /\ \A x \in recs : x.bank \in Banks /\ btype[x.bank] = x.kind
                         /\ x.kind \in Kinds
      /\ hdr => \A b \in clip : b \in Banks /\ btype[b] = "clip"
      /\ \A j \in Known : /\ ram[j].core \in {0} \cup Banks
                          /\ ram[j].code \in {0} \cup Banks
  <2>1. /\ \A t \in Tokens : tstat[t] # "free" =>
             lookup[t] \in Banks /\ btype[lookup[t]] = "app"
    BY <1>1, BankApart DEF SessionInv, BanksInSession
  <2>2. \A x \in recs : x.bank \in Banks /\ btype[x.bank] = x.kind
                        /\ x.kind \in Kinds
    BY <1>1, StateFacts, SkipFact DEF SessionInv, BanksInSession, Record
  <2>3. hdr => \A b \in clip : b \in Banks /\ btype[b] = "clip"
    BY <1>1, StateFacts, SkipFact DEF SessionInv, BanksInSession
  <2>4. \A j \in Known : /\ ram[j].core \in {0} \cup Banks
                         /\ ram[j].code \in {0} \cup Banks
    BY <1>1, StateFacts, SkipFact DEF Entry
  <2> QED
    BY <2>1, <2>2, <2>3, <2>4
<1>3. /\ btype'[c] = "rbcore" /\ btype'[d] = "rbcode"
      /\ \A b \in Banks : btype[b] \in {"app", "clip", "alloc", "rbcore",
                                        "rbcode"} => btype'[b] = btype[b]
  BY <1>1
<1>4. BanksInSession'
  <2>1. \A t \in Tokens : tstat'[t] # "free" => btype'[lookup[t]] = "app"
    BY <1>2, <1>3
  <2>2. \A t, u \in Tokens : tstat'[t] # "free" /\ tstat'[u] # "free"
                             /\ lookup[t] = lookup[u] => t = u
    BY <1>1 DEF SessionInv, BanksInSession
  <2>3. \A x \in recs' : btype'[x.bank] = x.kind
    BY <1>2, <1>3 DEF Kinds
  <2>4. \A x, y \in recs' : x.kind = "alloc" /\ y.kind = "alloc"
                            /\ x.bank = y.bank => x = y
    BY <1>1 DEF SessionInv, BanksInSession
  <2>5. hdr => \A b \in clip : btype'[b] = "clip"
    BY <1>2, <1>3
  <2> QED
    BY <2>1, <2>2, <2>3, <2>4, <2>5 DEF BanksInSession
<1>5. BasicInSession'
  <2>1. ASSUME NEW j \in Known
        PROVE  /\ (Entries'[j].core = 0) = (Entries'[j].code = 0)
               /\ Entries'[j].core # 0 => btype'[Entries'[j].core] = "rbcore"
               /\ Entries'[j].code # 0 => btype'[Entries'[j].code] = "rbcode"
    <3>1. CASE j = i
      BY <1>1, <1>3, <3>1
    <3>2. CASE j # i
      <4>1. /\ (ram[j].core = 0) = (ram[j].code = 0)
            /\ ram[j].core # 0 => btype[ram[j].core] = "rbcore"
            /\ ram[j].code # 0 => btype[ram[j].code] = "rbcode"
        BY <1>1 DEF SessionInv, BasicInSession
      <4> QED
        BY <1>2, <1>3, <3>2, <4>1
    <3> QED
      BY <3>1, <3>2
  <2>2. /\ \A j, k \in Known : ram[j].core # 0 /\ ram[j].core = ram[k].core => j = k
        /\ \A j, k \in Known : ram[j].code # 0 /\ ram[j].code = ram[k].code => j = k
        /\ \A j \in Known : ram[j].core # 0 => btype[ram[j].core] = "rbcore"
        /\ \A j \in Known : ram[j].code # 0 => btype[ram[j].code] = "rbcode"
    BY <1>1 DEF SessionInv, BasicInSession
  <2>3. \A j \in Known : j # i => ram[j].core # c /\ ram[j].code # d
    BY <1>1, <2>2
  <2>4. ASSUME NEW j \in Known, NEW k \in Known
        PROVE  /\ Entries'[j].core # 0 /\ Entries'[j].core = Entries'[k].core =>
                    j = k
               /\ Entries'[j].code # 0 /\ Entries'[j].code = Entries'[k].code =>
                    j = k
    BY <2>2, <2>3
  <2>5. ASSUME NEW x \in recs'
        PROVE  /\ x.kind = "rbcore" =>
                    x.app \in Known /\ Entries'[x.app].core = x.bank
               /\ x.kind = "rbcode" =>
                    x.app \in Known /\ Entries'[x.app].code = x.bank
    <3>1. CASE x \in recs /\ x.app # i
      BY <1>1, <3>1 DEF SessionInv, BasicInSession
    <3>2. CASE x.app = i /\ x.kind = "rbcore" /\ x.bank = c
      BY <3>2
    <3>3. CASE x.app = i /\ x.kind = "rbcode" /\ x.bank = d
      BY <3>3
    <3> QED
      BY <3>1, <3>2, <3>3
  <2> QED
    BY <2>1, <2>4, <2>5 DEF BasicInSession
<1> QED
  BY <1>4, <1>5

\* What a load of app i may end up with: no pair of banks and nothing changed,
\* or a pair that the app has already or that was free.
LEMMA BasicOutcome ==
  ASSUME SessionInv, AtLauncher, NEW i \in Known, NEW o \in LoadedBasic(btype, i)
  PROVE  \E c \in {0} \cup Usable, d \in {0} \cup Usable :
           /\ o.ok \in BOOLEAN /\ (o.mirrored \/ ~o.ok) = TRUE
           /\ o.entry \in Entry
           /\ o.entry.tok = ram[i].tok /\ o.entry.loaded = ram[i].loaded
           /\ o.entry.basic = ram[i].basic /\ (o.ok => o.entry.ready)
           /\ o.entry.core = c /\ o.entry.code = d
           /\ \/ /\ c = ram[i].core /\ d = ram[i].code /\ o.recs = recs
                 /\ o.types = btype
              \/ /\ c \in Usable /\ d \in Usable /\ c # d
                 /\ \/ btype[c] = "free" /\ ram[i].core = 0
                    \/ btype[c] = "rbcore" /\ ram[i].core = c
                 /\ \/ btype[d] = "free" /\ ram[i].code = 0
                    \/ btype[d] = "rbcode" /\ ram[i].code = d
                 /\ o.types = MarkBasic(btype, c, d)
                 /\ OtherRecords(i) \subseteq o.recs
                 /\ o.recs \subseteq OtherRecords(i) \cup BasicRecords(i, c, d)
<1> DEFINE e == ram[i]
<1>1. i \in Apps /\ e \in Entry /\ btype \in [Banks -> BankTypes]
  BY LauncherAgrees, StateFacts DEF Known
<1>2. CASE BasicBanks(btype, e) = {}
  <2>1. e.core = 0 /\ e.code = 0
    BY <1>2, BasicPair
  <2>2. KeptCore(btype, e) = {} /\ KeptCode(btype, e) = {}
    BY <2>1 DEF KeptCore, KeptCode, Validated
  <2>3. FreePhysical(btype, KeptCore(btype, e) \cup KeptCode(btype, e)) = btype
    BY <1>1, <2>2, StateFacts DEF FreePhysical
  <2>4. [e EXCEPT !.core = 0, !.code = 0] = e
    BY <1>1, <2>1 DEF Entry
  <2>5. o = [ok |-> FALSE, mirrored |-> FALSE, recs |-> recs,
             types |-> btype, entry |-> e]
    BY <1>2, <2>3, <2>4 DEF LoadedBasic
  <2>6. e.core \in {0} \cup Usable /\ e.code \in {0} \cup Usable
        /\ e.ready \in BOOLEAN
    BY <1>1 DEF Entry
  <2> QED
    BY <1>1, <2>5, <2>6
<1>3. CASE BasicBanks(btype, e) # {}
  <2> DEFINE room == MaxRecs - Cardinality(OtherRecords(i))
             both == room >= 2
  <2>1. PICK p \in BasicBanks(btype, e) :
      o = [ok |-> both, mirrored |-> both,
         recs |-> OtherRecords(i) \cup
                    {x \in BasicRecords(i, p[1], p[2]) :
                       both \/ (room = 1 /\ x.kind = "rbcore")},
         types |-> MarkBasic(btype, p[1], p[2]),
         entry |-> [e EXCEPT !.core = p[1], !.code = p[2],
                             !.ready = both]]
    BY <1>3 DEF LoadedBasic
  <2>2. both \in BOOLEAN
    OBVIOUS
  <2> HIDE DEF room, both
  <2>3. /\ p[1] \in Usable /\ p[2] \in Usable /\ p[1] # p[2]
        /\ \/ btype[p[1]] = "free" /\ e.core = 0
           \/ btype[p[1]] = "rbcore" /\ e.core = p[1]
        /\ \/ btype[p[2]] = "free" /\ e.code = 0
           \/ btype[p[2]] = "rbcode" /\ e.code = p[2]
    BY <1>1, BasicPair
  <2>4. ASSUME NEW f, f = [e EXCEPT !.core = p[1], !.code = p[2],
                                    !.ready = both]
        PROVE  /\ f \in Entry /\ f.tok = e.tok /\ f.loaded = e.loaded
               /\ f.basic = e.basic /\ f.ready = both
               /\ f.core = p[1] /\ f.code = p[2]
    BY <1>1, <2>2, <2>3, <2>4 DEF Entry
  <2>5. /\ o.entry \in Entry /\ o.entry.tok = e.tok
        /\ o.entry.loaded = e.loaded /\ o.entry.basic = e.basic
        /\ o.entry.ready = both
        /\ o.entry.core = p[1] /\ o.entry.code = p[2]
    BY <2>1, <2>4
  <2>6. /\ o.ok = both /\ o.mirrored = both
        /\ o.types = MarkBasic(btype, p[1], p[2])
        /\ OtherRecords(i) \subseteq o.recs
        /\ o.recs \subseteq
             OtherRecords(i) \cup BasicRecords(i, p[1], p[2])
    BY <2>1
  <2> QED
    BY <2>2, <2>3, <2>5, <2>6
<1> QED
  BY <1>2, <1>3

LEMMA LoadResourcesSession ==
  ASSUME SessionInv, IInv', LoadResources
  PROVE  SessionInv'
<1> DEFINE i == job.idx
           e == ram[i]
<1>1. PICK o \in Prepared(i) :
        LET r1 == [ram EXCEPT ![i] = [o.entry EXCEPT !.loaded = @ /\ o.ok]]
        IN  /\ ram' = r1 /\ recs' = o.recs /\ btype' = Anchored(o.types)
            /\ MirrorIf(o.mirrored \/ ~o.ok, r1)
            /\ GoTo(IF o.ok THEN "loaded" ELSE "failed")
  BY DEF LoadResources
<1> DEFINE r1 == [ram EXCEPT ![i] = [o.entry EXCEPT !.loaded = @ /\ o.ok]]
<1>2. /\ pc = "resources"
      /\ UNCHANGED <<hdr, lookup, file, clip, image, tail, count, cur, saved,
                     running, held, hotkey, bound, stale>>
  BY DEF LoadResources, bankVars, shimVars, appVars, hotkeyVars
<1>3. /\ ram' = r1 /\ recs' = o.recs /\ btype' = Anchored(o.types)
      /\ MirrorIf(o.mirrored \/ ~o.ok, r1)
      /\ pc' = (IF o.ok THEN "loaded" ELSE "failed") /\ job' = job
  BY <1>1 DEF GoTo
<1>4. /\ AtLauncher /\ AtLauncher' /\ pc # "off" /\ pc' # "off"
      /\ IInv /\ Entries = ram /\ i \in Known /\ i \in Apps
      /\ Known \subseteq Apps /\ Known = 1 .. count
      /\ e \in Entry /\ e.loaded /\ e.tok # 0 /\ saved = 0
      /\ (e.basic => ~e.ready) /\ Sound(btype)
      /\ ram \in [Apps -> Entry] /\ recs \subseteq Record
  BY <1>2, <1>3, JobToken, LauncherAgrees, LauncherDistinct, IInvFacts,
     StateFacts
     DEF AtLauncher, SessionInv, JobInSession, AppPCs
<1>5. CASE ~e.basic
  <2>1. /\ o.ok = TRUE /\ o.mirrored = FALSE /\ o.recs = recs
        /\ o.entry = ram[i] /\ o.types = btype
    BY <1>4, <1>5, PreparedQuiet
  <2>2. [o.entry EXCEPT !.loaded = @ /\ o.ok] = ram[i]
    BY <1>4, <2>1 DEF Entry
  <2>3. r1 = ram
    BY <1>4, <2>2, SameEntry
  <2>4. /\ ram' = ram /\ recs' = recs /\ btype' = btype /\ pc' = "loaded"
        /\ UNCHANGED <<tstat, tapp, reg>>
    BY <1>3, <1>4, <2>1, <2>3, SameAnchor DEF MirrorIf
  <2>5. JobInSession'
    BY <1>2, <1>3, <1>4, <1>5, <2>4 DEF SessionInv, JobInSession
  <2> QED
    BY <1>2, <1>3, <1>4, <1>5, <2>4, <2>5, QuietStep
       DEF tokenVars, catalogVars, bankVars, menuVars, shimVars, hotkeyVars
<1>6. CASE e.basic
  <2>1. IInv /\ o \in LoadedBasic(SetType(btype, LoadedBanks(count, ram, tstat),
                                          "app"), i)
    BY <1>4, <1>6 DEF Prepared
  <2>2. SetType(btype, LoadedBanks(count, ram, tstat), "app") = btype
    BY <1>4, LauncherAgrees, StateFacts, SyncSame
  <2>3. o \in LoadedBasic(btype, i)
    BY <2>1, <2>2
  <2>4. PICK c \in {0} \cup Usable, d \in {0} \cup Usable :
          /\ o.ok \in BOOLEAN /\ (o.mirrored \/ ~o.ok) = TRUE
          /\ o.entry \in Entry
          /\ o.entry.tok = e.tok /\ o.entry.loaded = e.loaded
          /\ o.entry.basic = e.basic /\ (o.ok => o.entry.ready)
          /\ o.entry.core = c /\ o.entry.code = d
          /\ \/ /\ c = e.core /\ d = e.code /\ o.recs = recs
                /\ o.types = btype
             \/ /\ c \in Usable /\ d \in Usable /\ c # d
                /\ \/ btype[c] = "free" /\ e.core = 0
                   \/ btype[c] = "rbcore" /\ e.core = c
                /\ \/ btype[d] = "free" /\ e.code = 0
                   \/ btype[d] = "rbcode" /\ e.code = d
                /\ o.types = MarkBasic(btype, c, d)
                /\ OtherRecords(i) \subseteq o.recs
                /\ o.recs \subseteq OtherRecords(i) \cup BasicRecords(i, c, d)
    BY <1>4, <2>3, BasicOutcome
  <2> DEFINE f == [o.entry EXCEPT !.loaded = @ /\ o.ok]
  <2>5. /\ f \in Entry /\ f.tok = e.tok /\ f.basic = e.basic
        /\ f.core = c /\ f.code = d /\ (f.loaded <=> o.ok)
        /\ (f.loaded => f.ready)
    BY <1>4, <2>4 DEF Entry
  <2> HIDE DEF f
  <2>6. /\ r1 \in [Apps -> Entry] /\ r1[i] = f
        /\ \A j \in Apps : j # i => r1[j] = ram[j]
    BY <1>4, <2>5 DEF f
  <2> HIDE DEF r1
  <2>7. Mirrored(count, r1, tstat)
    BY <1>2, <1>3, <2>4 DEF MirrorIf, Mirrored
  <2>8. /\ CatalogInSession' /\ RegistryInStep' /\ TokensInSession'
        /\ ImagesInSession' /\ Entries' = r1 /\ Known' = Known
        /\ \A j \in Known : ram[j].tok # 0 =>
             tstat'[ram[j].tok] # "free" /\ tapp'[ram[j].tok] = j
        /\ \A t \in Tokens : tstat'[t] # "free" => tstat[t] # "free"
    <3>1. \A j \in Apps : /\ r1[j].tok = ram[j].tok
                          /\ r1[j].loaded => ram[j].loaded
      BY <1>4, <2>5, <2>6
    <3>2. \A j \in 1 .. count : r1[j].tok # 0 /\ r1[j].loaded /\ r1[j].basic =>
            r1[j].ready
      BY <1>4, <2>5, <2>6, LauncherDistinct
    <3> QED
      BY <1>2, <1>4, <2>6, <2>7, <3>1, <3>2, MirroredKeeps
  <2>9. JobInSession'
    BY <1>2, <1>3, <1>4, <2>5, <2>6 DEF SessionInv, JobInSession
  <2>10. BanksInSession' /\ BasicInSession'
    <3>1. CASE /\ c = e.core /\ d = e.code /\ o.recs = recs
               /\ o.types = btype
      <4>1. btype' = btype /\ recs' = recs
        BY <1>3, <1>4, <3>1, SameAnchor
      <4>2. \A j \in Known : r1[j].core = ram[j].core /\ r1[j].code = ram[j].code
        BY <1>4, <2>5, <2>6, <3>1
      <4>3. BanksInSession'
        BY <1>2, <1>4, <2>8, <4>1 DEF SessionInv, BanksInSession
      <4>4. BasicInSession'
        BY <1>4, <2>8, <4>1, <4>2 DEF SessionInv, BasicInSession
      <4> QED
        BY <4>3, <4>4
    <3>2. CASE /\ c \in Usable /\ d \in Usable /\ c # d
               /\ \/ btype[c] = "free" /\ e.core = 0
                  \/ btype[c] = "rbcore" /\ e.core = c
               /\ \/ btype[d] = "free" /\ e.code = 0
                  \/ btype[d] = "rbcode" /\ e.code = d
               /\ o.types = MarkBasic(btype, c, d)
               /\ o.recs \subseteq OtherRecords(i) \cup BasicRecords(i, c, d)
      <4>1. btype' = MarkBasic(btype, c, d)
        BY <1>3, <1>4, <3>2, MarkBasicFact, SameAnchor
      <4>2. \A b \in Banks : btype'[b] = IF b = c THEN "rbcore"
                                         ELSE IF b = d THEN "rbcode" ELSE btype[b]
        BY <3>2, <4>1, SkipFact DEF MarkBasic, SetType
      <4>3. \A j \in Known : j # i => /\ r1[j].core = ram[j].core
                                      /\ r1[j].code = ram[j].code
        BY <1>4, <2>6
      <4>4. \A x \in recs' : \/ x \in recs /\ x.app # i
                             \/ x.app = i /\ x.kind = "rbcore" /\ x.bank = c
                             \/ x.app = i /\ x.kind = "rbcode" /\ x.bank = d
        BY <1>3, <3>2 DEF OtherRecords, BasicRecords
      <4>5. r1[i].core = c /\ r1[i].code = d
        BY <2>5, <2>6
      <4> QED
        BY <1>2, <1>4, <2>8, <3>2, <4>2, <4>3, <4>4, <4>5, BasicGiven
    <3> QED
      BY <2>4, <3>1, <3>2
  <2>11. AppInSession'
    BY <1>3 DEF AppInSession, AppPCs
  <2>12. HotkeysInSession'
    <3>1. \A j \in Known : ram[j].tok # 0 => r1[j].tok = ram[j].tok
      BY <1>4, <2>5, <2>6
    <3>2. ram' = r1
      BY <2>7 DEF Mirrored
    <3> QED
      BY <1>2, <1>3, <1>4, <2>8, <3>1, <3>2, HotkeysKept
  <2> QED
    BY <2>8, <2>9, <2>10, <2>11, <2>12 DEF SessionInv
<1> QED
  BY <1>4, <1>5, <1>6 DEF Entry

-----------------------------------------------------------------------------
(***************************************************************************)
(* The end of a load, and the hotkeys                                      *)
(***************************************************************************)

\* Hotkeys hk that keep the tokens of apps and name only apps of r.
LEMMA SetHotkeysSession ==
  ASSUME NEW n \in 0 .. MaxApps, NEW r \in [Apps -> Entry],
         NEW hk, SetHotkeys(hk, r),
         \A i, j \in 1 .. n : r[i].tok # 0 /\ r[i].tok = r[j].tok => i = j,
         \A i \in Apps : i > n => r[i].tok = 0,
         \A i \in 1 .. n : r[i].tok # 0 =>
           tstat'[r[i].tok] # "free" /\ tapp'[r[i].tok] = i,
         Known' = 1 .. n, Entries' = r, file' = file,
         job'.kind # "manifest",
         \A s \in Slots \ stale : hk[s] = hotkey[s] /\ hotkey[s] # 0 =>
           \E i \in 1 .. n : r[i].tok = hotkey[s] /\ bound[s] = file[i],
         \A s \in Slots : hk[s] # hotkey[s] /\ hk[s] # 0 =>
           \E i \in 1 .. n : r[i].tok = hk[s]
  PROVE  HotkeysInSession'
<1>1. /\ hotkey' = hk
      /\ bound' = [s \in Slots |->
           IF hk[s] = hotkey[s] THEN bound[s]
           ELSE IF \E i \in Apps : r[i].tok # 0 /\ r[i].tok = hk[s]
           THEN file[CHOOSE i \in Apps : r[i].tok # 0 /\ r[i].tok = hk[s]]
           ELSE None]
      /\ stale' = {s \in stale : hk[s] = hotkey[s]}
  BY DEF SetHotkeys
<1>2. 1 .. n \subseteq Apps /\ \A i \in Apps : i > n \/ i \in 1 .. n
  BY AppsFact DEF Apps
<1>3. ASSUME NEW s \in Slots \ stale', hk[s] # 0
      PROVE  \E i \in 1 .. n : r[i].tok = hk[s] /\ bound'[s] = file[i]
  <2>1. CASE hk[s] = hotkey[s]
    <3>1. s \in Slots \ stale
      BY <1>1, <1>3, <2>1
    <3>2. bound'[s] = bound[s]
      BY <1>1, <1>3, <2>1
    <3> QED
      BY <1>3, <2>1, <3>1, <3>2
  <2>2. CASE hk[s] # hotkey[s]
    <3>1. PICK i \in 1 .. n : r[i].tok = hk[s]
      BY <1>3, <2>2
    <3>2. i \in Apps /\ r[i].tok # 0
      BY <1>2, <1>3, <3>1
    <3>3. \A j \in Apps : r[j].tok # 0 /\ r[j].tok = hk[s] => j = i
      BY <1>2, <3>1, <3>2
    <3>4. (CHOOSE j \in Apps : r[j].tok # 0 /\ r[j].tok = hk[s]) = i
      BY <3>1, <3>2, <3>3
    <3>5. bound'[s] = file[i]
      BY <1>1, <2>2, <3>1, <3>2, <3>4
    <3> QED
      BY <3>1, <3>5
  <2> QED
    BY <2>1, <2>2
<1>4. ASSUME NEW s \in Slots \ stale', hk[s] # 0
      PROVE  /\ tstat'[hk[s]] # "free" /\ tapp'[hk[s]] \in Known'
             /\ r[tapp'[hk[s]]].tok = hk[s]
             /\ bound'[s] = file'[tapp'[hk[s]]]
  BY <1>3, <1>4
<1> QED
  BY <1>1, <1>4 DEF HotkeysInSession

\* What the launcher's hotkeys may become: a free slot gets an app's token.
Extends(hk, n, r) ==
  \A s \in Slots : \/ hk[s] = hotkey[s]
                   \/ /\ hotkey[s] = 0
                      /\ \E i \in 1 .. n : r[i].tok = hk[s]

LEMMA DefaultExtends ==
  ASSUME NEW n, NEW i \in 1 .. n
  PROVE  Extends(DefaultBound(i), n, ram)
BY DEF Extends, DefaultBound

LEMMA SeededExtends ==
  ASSUME NEW n, NEW r, NEW hk, Extends(hk, n, r)
  PROVE  Extends(SeededHotkeys(n, r, hk), n, r)
<1> SUFFICES ASSUME NEW s \in Slots
             PROVE  \/ SeededHotkeys(n, r, hk)[s] = hotkey[s]
                    \/ /\ hotkey[s] = 0
                       /\ \E i \in 1 .. n : r[i].tok = SeededHotkeys(n, r, hk)[s]
  BY DEF Extends
<1>1. CASE hk[s] = 0 /\ \E i \in 1 .. n : SeedsSlot(n, r, i, s)
  <2> DEFINE c == CHOOSE i \in 1 .. n : SeedsSlot(n, r, i, s)
  <2>1. c \in 1 .. n
    BY <1>1
  <2>2. SeededHotkeys(n, r, hk)[s] = r[c].tok
    BY <1>1 DEF SeededHotkeys
  <2>3. hk[s] = hotkey[s] \/ hotkey[s] = 0
    BY DEF Extends
  <2> HIDE DEF c
  <2> QED
    BY <1>1, <2>1, <2>2, <2>3
<1>2. CASE ~(hk[s] = 0 /\ \E i \in 1 .. n : SeedsSlot(n, r, i, s))
  <2>1. SeededHotkeys(n, r, hk)[s] = hk[s]
    BY <1>2 DEF SeededHotkeys
  <2> QED
    BY <2>1 DEF Extends
<1> QED
  BY <1>1, <1>2

\* What the end of a load writes into the entries and the bank types is
\* there already.
LEMMA FinishQuiet ==
  ASSUME SessionInv, FinishLoad
  PROVE  /\ ram' = ram /\ tstat' = MirroredStatus(count, ram, tstat)
         /\ btype' = btype /\ saved' = 0
<1> DEFINE st1 == MirroredStatus(count, ram, tstat)
<1>1. pc = "loaded" /\ Sync(count, ram, st1, Anchored(btype))
  BY DEF FinishLoad
<1>2. /\ AtLauncher /\ IInv /\ saved = 0 /\ Sound(btype)
      /\ count \in 0 .. MaxApps /\ ram \in [Apps -> Entry]
      /\ tstat \in [Tokens -> Status] /\ btype \in [Banks -> BankTypes]
  BY <1>1, JobToken, LauncherAgrees, IInvFacts, StateFacts DEF AtLauncher,
                                                               AppPCs
<1>3. Distinct(count, ram, tstat)
  BY <1>2, LauncherDistinct
<1>4. st1 \in [Tokens -> Status] /\ \A t \in Tokens : st1[t] # "free" => tstat[t] # "free"
  BY <1>2, MirrorFact DEF IsEntries, IsStatus
<1>5. \A j \in Apps : j <= count /\ ram[j].tok # 0 =>
        (ram[j].loaded <=> st1[ram[j].tok] = "loaded")
  <2>1. \A j \in 1 .. count : ram[j].tok # 0 =>
          (st1[ram[j].tok] = "loaded" <=> ram[j].loaded)
    BY <1>2, <1>3, MirrorExact
  <2> QED
    BY <1>2, <2>1 DEF Apps
<1>6. ram' = ram /\ tstat' = st1 /\ btype' = btype /\ saved' = 0
  <2>1. Anchored(btype) = btype
    BY <1>2, SameAnchor
  <2>2. \A t \in Tokens : st1[t] # "free" => btype[lookup[t]] = "app"
    BY <1>2, <1>4, LauncherAgrees
  <2> HIDE DEF st1
  <2>3. /\ SyncedStatus(count, ram, st1) = st1
        /\ SyncedEntries(count, ram, st1) = ram
        /\ SetType(btype, LoadedBanks(count, ram, st1), "app") = btype
    BY <1>2, <1>4, <1>5, <2>2, SyncSame
  <2> QED
    BY <1>1, <2>1, <2>3 DEF Sync
<1> QED
  BY <1>6

LEMMA FinishLoadSession ==
  ASSUME SessionInv, IInv', FinishLoad
  PROVE  SessionInv'
<1> DEFINE i == job.idx
           st1 == MirroredStatus(count, ram, tstat)
           hk == IF job.kind = "manifest"
                 THEN SeededHotkeys(count, ram, DefaultBound(i))
                 ELSE DefaultBound(i)
<1>1. /\ pc = "loaded"
      /\ tapp' = MirroredApp(count, ram, tstat)
      /\ reg' = Published(count, ram)
      /\ Sync(count, ram, st1, Anchored(btype))
      /\ SetHotkeys(hk, ram)
      /\ \/ pc' = "launch" /\ job' = job /\ job.kind = "launch"
         \/ pc' = "menu" /\ job' = NoJob
      /\ UNCHANGED <<hdr, lookup, file, recs, clip, image, count>>
  BY DEF FinishLoad, GoTo, BackToMenu, bankVars
<1>2. /\ AtLauncher /\ AtLauncher' /\ pc # "off" /\ pc' # "off"
      /\ IInv /\ Entries = ram /\ i \in Known /\ Known = 1 .. count
      /\ ram[i].tok # 0 /\ ram[i].loaded /\ saved = 0 /\ Sound(btype)
      /\ Known \subseteq Apps /\ count \in 0 .. MaxApps
      /\ ram \in [Apps -> Entry] /\ tstat \in [Tokens -> Status]
      /\ btype \in [Banks -> BankTypes]
  BY <1>1, JobToken, LauncherAgrees, LauncherDistinct, IInvFacts, StateFacts
     DEF AtLauncher, SessionInv, JobInSession, AppPCs
<1>3. Distinct(count, ram, tstat)
  BY <1>2, LauncherDistinct
<1>6. ram' = ram /\ tstat' = st1 /\ btype' = btype /\ saved' = 0
  BY FinishQuiet
<1> HIDE DEF hk
<1>7. Mirrored(count, ram, tstat)
  BY <1>1, <1>6 DEF Mirrored
<1>8. /\ CatalogInSession' /\ RegistryInStep' /\ TokensInSession'
      /\ ImagesInSession' /\ Entries' = ram /\ Known' = Known
      /\ \A j \in Known : ram[j].tok # 0 =>
           tstat'[ram[j].tok] # "free" /\ tapp'[ram[j].tok] = j
      /\ \A t \in Tokens : tstat'[t] # "free" => tstat[t] # "free"
  <2>1. \A j \in 1 .. count : ram[j].tok # 0 /\ ram[j].loaded /\ ram[j].basic =>
          ram[j].ready
    BY <1>1, <1>2, LauncherDistinct
  <2> QED
    BY <1>1, <1>2, <1>7, <2>1, MirroredKeeps
<1>9. JobInSession'
  BY <1>1, <1>2, <1>6 DEF SessionInv, JobInSession, NoJob
<1>10. BanksInSession'
  BY <1>1, <1>2, <1>6, <1>8 DEF SessionInv, BanksInSession
<1>11. BasicInSession'
  BY <1>1, <1>2, <1>6, <1>8 DEF SessionInv, BasicInSession
<1>12. AppInSession'
  BY <1>1 DEF AppInSession, AppPCs
<1>13. HotkeysInSession'
  <2>1. Extends(hk, count, ram)
    BY <1>2, DefaultExtends, SeededExtends DEF hk
  <2>2. \A s \in Slots \ stale : hk[s] = hotkey[s] /\ hotkey[s] # 0 =>
          \E j \in 1 .. count : ram[j].tok = hotkey[s] /\ bound[s] = file[j]
    BY <1>2 DEF SessionInv, HotkeysInSession
  <2>3. \A s \in Slots : hk[s] # hotkey[s] /\ hk[s] # 0 =>
          \E j \in 1 .. count : ram[j].tok = hk[s]
    BY <2>1 DEF Extends
  <2>4. \A j \in Apps : j > count => ram[j].tok = 0
    BY <1>2 DEF SessionInv, CatalogInSession
  <2>5. \A j, k \in 1 .. count : ram[j].tok # 0 /\ ram[j].tok = ram[k].tok => j = k
    BY <1>3 DEF Distinct
  <2>6. job'.kind # "manifest"
    BY <1>1 DEF NoJob
  <2> QED
    BY <1>1, <1>2, <1>8, <2>2, <2>3, <2>4, <2>5, <2>6, SetHotkeysSession
<1> QED
  BY <1>8, <1>9, <1>10, <1>11, <1>12, <1>13 DEF SessionInv

-----------------------------------------------------------------------------
(***************************************************************************)
(* The launcher is left and returned to                                    *)
(***************************************************************************)

\* Nothing but the machine's own state and the images change; the registry
\* now speaks for the launcher.
LEMMA LeaveSession ==
  ASSUME SessionInv, IInv', pc # "off", pc # "resources", Away',
         \A i \in Known :
           /\ i <= reg.count
           /\ reg.apps[i].tok = Entries[i].tok
           /\ reg.apps[i].basic = Entries[i].basic
           /\ reg.apps[i].core = Entries[i].core
           /\ reg.apps[i].code = Entries[i].code
           /\ reg.apps[i].ready = Entries[i].ready,
         UNCHANGED <<hdr, btype, lookup, tstat, tapp, reg, file, recs, clip,
                     hotkey, bound, stale>>,
         job'.kind # "manifest",
         saved' # 0 => pc' = "return" /\ tstat[saved'] = "loaded",
         \A t \in Tokens : tstat[t] = "loaded" =>
           image'[lookup[t]] \in {file[tapp[t]], "launcher"},
         pc' \in AppPCs =>
           /\ tstat[cur'] = "loaded" /\ file[tapp[cur']] = running'
           /\ held' = {}
  PROVE  SessionInv'
<1>1. /\ Entries' = reg.apps /\ Known' = Known /\ pc' # "off"
      /\ ~AtLauncher' /\ Known \subseteq Apps /\ IInv
  BY DEF Away, AtLauncher, Entries, Elsewhere, Known, SessionInv, AppPCs
<1>2. CatalogInSession'
  <2>1. Known \subseteq 1 .. reg.count
    BY <1>1 DEF Apps
  <2> QED
    BY <1>1, <2>1 DEF SessionInv, CatalogInSession
<1>3. JobInSession' /\ RegistryInStep' /\ AppInSession'
  BY <1>1 DEF Away, JobInSession, RegistryInStep, AppInSession, AppPCs
<1>4. TokensInSession'
  BY <1>1 DEF SessionInv, TokensInSession
<1>5. BanksInSession' /\ ImagesInSession'
  BY <1>1 DEF SessionInv, BanksInSession, ImagesInSession
<1>6. BasicInSession'
  BY <1>1 DEF SessionInv, BasicInSession
<1>7. HotkeysInSession'
  BY <1>1 DEF SessionInv, HotkeysInSession
<1> QED
  BY <1>2, <1>3, <1>4, <1>5, <1>6, <1>7 DEF SessionInv

LEMMA StartSession ==
  ASSUME SessionInv, IInv', Start
  PROVE  SessionInv'
<1> DEFINE t == ram[job.idx].tok
<1>1. /\ pc = "start" /\ RunImage(t, image[lookup[t]])
      /\ UNCHANGED <<hdr, btype, lookup, tstat, tapp, reg, file, recs, clip,
                     image, saved, hotkey, bound, stale>>
  BY DEF Start, tokenVars, catalogVars, bankVars, hotkeyVars
<1>2. /\ AtLauncher /\ Entries = ram /\ t \in Tokens /\ t # 0 /\ saved = 0
      /\ tstat[t] = "loaded" /\ job.idx \in Known /\ tapp[t] = job.idx
  BY <1>1, JobToken, LauncherAgrees, LauncherDistinct
     DEF SessionInv, JobInSession
<1>3. image[lookup[t]] \in {file[tapp[t]], "launcher"}
  BY <1>1, <1>2 DEF SessionInv, ImagesInSession
<1> HIDE DEF t
<1>4. /\ cur' = t /\ job' = NoJob /\ held' = {}
      /\ \/ pc' = "return"
         \/ pc' = "appinit" /\ running' = file[tapp[t]]
  BY <1>1, <1>3 DEF RunImage
<1>5. \A i \in Known :
        /\ i <= reg.count
        /\ reg.apps[i].tok = ram[i].tok /\ reg.apps[i].basic = ram[i].basic
        /\ reg.apps[i].core = ram[i].core /\ reg.apps[i].code = ram[i].code
        /\ reg.apps[i].ready = ram[i].ready
  BY <1>1, <1>2 DEF SessionInv, RegistryInStep
<1>6. \A u \in Tokens : tstat[u] = "loaded" =>
        image'[lookup[u]] \in {file[tapp[u]], "launcher"}
  BY <1>1 DEF SessionInv, ImagesInSession
<1>7. job'.kind # "manifest" /\ Away' /\ saved' = 0
  BY <1>1, <1>2, <1>4 DEF NoJob, Away, AppPCs
<1> QED
  BY <1>1, <1>2, <1>4, <1>5, <1>6, <1>7, LeaveSession DEF AppPCs

\* A stash finds the app at home.
LEMMA StashQuiet ==
  ASSUME SessionInv, pc = "app", Stash, lookup' = lookup
  PROVE  /\ tstat' = tstat /\ cur \in Tokens /\ tstat[cur] = "loaded"
         /\ \A t \in Tokens : tstat[t] = "loaded" =>
              image'[lookup[t]] \in {file[tapp[t]], "launcher"}
<1>1. /\ tstat[cur] = "loaded" /\ file[tapp[cur]] = running /\ IInv
      /\ cur \in Tokens /\ tstat \in [Tokens -> Status] /\ pc # "off"
  BY HomeFact, StateFacts DEF SessionInv, AppInSession, AppPCs
<1>2. tstat' = tstat
  BY <1>1 DEF Stash
<1>3. image' = [image EXCEPT ![lookup[cur]] = running]
  BY DEF Stash, Home
<1>4. /\ image \in [Banks -> Images] /\ lookup[cur] \in Banks
      /\ \A u \in Tokens : u # cur /\ tstat[u] # "free" =>
           lookup[u] \in Banks /\ lookup[u] # lookup[cur]
  BY <1>1, BankApart
<1>5. /\ image'[lookup[cur]] = running
      /\ \A u \in Tokens : u # cur /\ tstat[u] = "loaded" =>
           image'[lookup[u]] = image[lookup[u]]
  BY <1>3, <1>4
<1>6. \A t \in Tokens : tstat[t] = "loaded" =>
        image[lookup[t]] \in {file[tapp[t]], "launcher"}
  BY <1>1 DEF SessionInv, ImagesInSession
<1> QED
  BY <1>1, <1>2, <1>5, <1>6

\* What LeaveSession asks for, while an app runs.
LEMMA AppAway ==
  ASSUME SessionInv, pc \in AppPCs
  PROVE  /\ IInv /\ Entries = reg.apps /\ saved = 0 /\ pc # "off"
         /\ job.kind # "manifest" /\ \A i \in Known : i <= reg.count
         /\ cur \in Tokens /\ cur # 0 /\ tstat[cur] = "loaded"
         /\ file[tapp[cur]] = running /\ tapp[cur] \in Known
         /\ \A b \in held : btype[b] = "alloc"
<1>1. Away /\ ~AtLauncher /\ Entries = reg.apps /\ IInv /\ pc # "off"
  BY EntriesAt DEF Away, AtLauncher, SessionInv, AppPCs
<1>2. saved = 0 /\ job.kind # "manifest"
  BY <1>1 DEF SessionInv, JobInSession, AppPCs
<1>3. cur \in Tokens /\ cur # 0
  BY <1>1, HomeFact, AppsFact
<1>4. /\ tstat[cur] = "loaded" /\ file[tapp[cur]] = running
      /\ \A b \in held : btype[b] = "alloc"
  BY DEF SessionInv, AppInSession, AppPCs
<1>5. tapp[cur] \in Known
  BY <1>1, <1>3, <1>4 DEF SessionInv, TokensInSession
<1>6. \A i \in Known : i <= reg.count
  BY <1>1, StateFacts DEF SessionInv, CatalogInSession
<1> QED
  BY <1>1, <1>2, <1>3, <1>4, <1>5, <1>6

LEMMA ReturnSession ==
  ASSUME SessionInv, IInv', Return
  PROVE  SessionInv'
<1>1. /\ pc = "app" /\ Stash /\ pc' = "return" /\ job' = job
      /\ saved' = cur
      /\ UNCHANGED <<hdr, btype, lookup, tapp, reg, file, recs, clip, hotkey,
                     bound, stale>>
  BY DEF Return, GoTo, catalogVars, hotkeyVars
<1>2. /\ tstat' = tstat /\ tstat[cur] = "loaded"
      /\ \A t \in Tokens : tstat[t] = "loaded" =>
           image'[lookup[t]] \in {file[tapp[t]], "launcher"}
  BY <1>1, StashQuiet
<1>3. Entries = reg.apps /\ job'.kind # "manifest" /\ Away'
      /\ \A i \in Known : i <= reg.count
  BY <1>1, AppAway DEF Away, AppPCs
<1> QED
  BY <1>1, <1>2, <1>3, LeaveSession DEF AppPCs

LEMMA SwitchToSession ==
  ASSUME SessionInv, IInv', NEW t \in Tokens, SwitchTo(t)
  PROVE  SessionInv'
<1>1. /\ pc = "app" /\ tstat[t] = "loaded" /\ Stash
      /\ RunImage(t, image'[lookup[t]]) /\ saved' = saved
      /\ UNCHANGED <<hdr, btype, lookup, tapp, reg, file, recs, clip, hotkey,
                     bound, stale>>
  BY DEF SwitchTo, catalogVars, hotkeyVars
<1>2. /\ tstat' = tstat
      /\ \A u \in Tokens : tstat[u] = "loaded" =>
           image'[lookup[u]] \in {file[tapp[u]], "launcher"}
  BY <1>1, StashQuiet
<1>3. /\ cur' = t /\ job' = NoJob /\ held' = {}
      /\ \/ pc' = "return"
         \/ pc' = "appinit" /\ running' = file[tapp[t]]
  BY <1>1, <1>2 DEF RunImage
<1>4. Entries = reg.apps /\ job'.kind # "manifest" /\ Away' /\ saved' = 0
      /\ \A i \in Known : i <= reg.count
  BY <1>1, <1>3, AppAway DEF Away, NoJob, AppPCs
<1> QED
  BY <1>1, <1>2, <1>3, <1>4, LeaveSession DEF AppPCs

-----------------------------------------------------------------------------
(***************************************************************************)
(* Starts                                                                  *)
(***************************************************************************)
LEMMA OffSession ==
  ASSUME IInv', pc' = "off", job' = NoJob,
         \A i \in Known' : file'[i] \in Offered,
         hdr' => \A b \in clip' : btype'[b] = "clip"
  PROVE  SessionInv'
<1>1. CatalogInSession' /\ JobInSession' /\ RegistryInStep' /\ TokensInSession'
  BY DEF CatalogInSession, JobInSession, RegistryInStep, TokensInSession,
         AtLauncher, Away, NoJob, AppPCs
<1>2. BanksInSession' /\ BasicInSession' /\ ImagesInSession'
  BY DEF BanksInSession, BasicInSession, ImagesInSession
<1>3. AppInSession' /\ HotkeysInSession'
  BY DEF AppInSession, HotkeysInSession, AppPCs
<1> QED
  BY <1>1, <1>2, <1>3 DEF SessionInv

LEMMA ResetSession ==
  ASSUME SessionInv, IInv', Reset \/ NoRoom
  PROVE  SessionInv'
<1>1. /\ pc' = "off" /\ job' = NoJob /\ UNCHANGED <<hdr, btype, file, clip>>
  BY DEF Reset, NoRoom, PowerDown, catalogVars
<1>2. Known' = Known
  BY <1>1 DEF Known
<1> QED
  BY <1>1, <1>2, OffSession
     DEF SessionInv, CatalogInSession, BanksInSession

\* A cold start keeps the clipboard of a valid header, with its banks' types.
LEMMA KeptClipTypes ==
  ASSUME SessionInv
  PROVE  /\ \A b \in KeptClip : Prepare(hdr, btype)[b] = "clip"
         /\ hdr => \A b \in clip : Prepare(hdr, btype)[b] = "clip"
<1>1. IInv /\ clip \subseteq Usable
  BY StateFacts DEF SessionInv
<1>2. ASSUME hdr, NEW b \in clip PROVE Prepare(hdr, btype)[b] = "clip"
  <2>1. btype[b] = "clip"
    BY <1>2 DEF SessionInv, BanksInSession
  <2>2. b \in Banks /\ ~(b <= Skip) /\ ~(b >= Phys)
    BY <1>1, BankFacts, BankAssumption DEF Banks, Usable, Dynamic
  <2> QED
    BY <1>2, <2>1, <2>2 DEF Prepare, FixedTypes
<1> QED
  BY <1>2 DEF KeptClip

LEMMA ColdErrorSession ==
  ASSUME SessionInv, IInv', ColdError(Prepare(hdr, btype)),
         clip' = KeptClip \/ (hdr /\ clip' = clip)
  PROVE  SessionInv'
<1>1. /\ pc' = "off" /\ job' = NoJob /\ file' = [i \in Apps |-> None]
      /\ btype' = Prepare(hdr, btype)
  BY DEF ColdError
<1>2. Known' = {}
  BY <1>1 DEF Known
<1> QED
  BY <1>1, <1>2, KeptClipTypes, OffSession

LEMMA ColdCatalogSession ==
  ASSUME SessionInv, IInv', NEW hk, ColdCatalog(Prepare(hdr, btype), hk),
         clip' = KeptClip \/ (hdr /\ clip' = clip)
  PROVE  SessionInv'
<1>1. /\ count' = Len(DiskCatalog) /\ ram' = DiskApps /\ file' = DiskFiles
      /\ recs' = {} /\ btype' = Anchored(Prepare(hdr, btype))
      /\ tstat' = [t \in Tokens |-> "free"]
      /\ reg' = Published(Len(DiskCatalog), DiskApps)
      /\ saved' = 0 /\ hotkey' = hk /\ stale' = {s \in Slots : hk[s] # 0}
      /\ pc' = "menu" /\ job' = NoJob
  BY DEF ColdCatalog
<1>2. /\ AtLauncher' /\ ~Away' /\ Entries' = DiskApps /\ pc' # "off"
      /\ reg'.count = Len(DiskCatalog) /\ reg'.apps = DiskApps
      /\ job'.kind = "none"
  BY <1>1 DEF AtLauncher, Away, Entries, Elsewhere, Published, NoJob, AppPCs
<1>3. \A i \in 1 .. Len(DiskCatalog) :
        /\ i \in Apps /\ DiskCatalog[i] \in Offered
        /\ DiskCatalog[i] \in Prog /\ DiskCatalog[i] # None
  BY CatalogAssumption DEF Apps, Offered
<1>4. /\ Known' = 1 .. Len(DiskCatalog)
      /\ \A i \in Known' : file'[i] \in Offered
  <2>1. \A i \in Apps : file'[i] = IF i <= Len(DiskCatalog)
                                   THEN DiskCatalog[i] ELSE None
    BY <1>1 DEF DiskFiles
  <2>2. Len(DiskCatalog) \in Nat /\ \A i \in Apps : i \in Nat /\ i >= 1
    BY CatalogAssumption DEF Apps
  <2>3. Known' = {i \in Apps : file'[i] # None}
    BY DEF Known
  <2> QED
    BY <1>3, <2>1, <2>2, <2>3
<1>5. \A i \in Apps : /\ DiskApps[i].tok = 0 /\ DiskApps[i].loaded = FALSE
                      /\ DiskApps[i].core = 0 /\ DiskApps[i].code = 0
  <2> SUFFICES ASSUME NEW i \in Apps
               PROVE  /\ DiskApps[i].tok = 0 /\ DiskApps[i].loaded = FALSE
                      /\ DiskApps[i].core = 0 /\ DiskApps[i].code = 0
    OBVIOUS
  <2>1. CASE i <= Len(DiskCatalog)
    <3>1. DiskApps[i] = NewEntry(DiskCatalog[i]) /\ i \in 1 .. Len(DiskCatalog)
      BY <2>1, CatalogAssumption DEF DiskApps, Apps
    <3> QED
      BY <1>3, <3>1, NewEntryBlank
  <2>2. CASE ~(i <= Len(DiskCatalog))
    <3>1. DiskApps[i] = BlankEntry
      BY <2>2 DEF DiskApps
    <3> QED
      BY <3>1 DEF BlankEntry
  <2> QED
    BY <2>1, <2>2
<1>6. \A i \in Known' : i \in Apps
  BY DEF Known
<1>7. CatalogInSession' /\ JobInSession' /\ RegistryInStep'
  <2>1. CatalogInSession'
    BY <1>1, <1>2, <1>4, <1>5 DEF CatalogInSession
  <2>2. JobInSession'
    BY <1>1, <1>2 DEF JobInSession
  <2>3. RegistryInStep'
    BY <1>1, <1>2, <1>4 DEF RegistryInStep
  <2> QED
    BY <2>1, <2>2, <2>3
<1>8. TokensInSession' /\ ImagesInSession'
  BY <1>1, <1>2, <1>5, <1>6 DEF TokensInSession, ImagesInSession
<1>9. BanksInSession'
  <2>1. Sound(Prepare(hdr, btype))
    BY StateFacts, PrepareFact DEF SessionInv
  <2>2. btype' = Prepare(hdr, btype)
    BY <1>1, <2>1, SameAnchor
  <2>3. \A b \in clip' : btype'[b] = "clip"
    BY <2>2, KeptClipTypes
  <2> QED
    BY <1>1, <2>3 DEF BanksInSession
<1>10. BasicInSession'
  BY <1>1, <1>2, <1>5, <1>6 DEF BasicInSession
<1>11. AppInSession'
  BY <1>1 DEF AppInSession, AppPCs
<1>12. HotkeysInSession'
  BY <1>1 DEF HotkeysInSession
<1> QED
  BY <1>7, <1>8, <1>9, <1>10, <1>11, <1>12 DEF SessionInv

LEMMA ColdSession ==
  ASSUME SessionInv, IInv', Boot \/ BootError \/ ColdInit \/ ColdInitError
  PROVE  SessionInv'
<1>1. pc = "return" => hdr
  BY DEF SessionInv, IInv, HeaderValid
<1> QED
  BY <1>1, ColdCatalogSession, ColdErrorSession
     DEF Boot, BootError, ColdInit, ColdInitError

-----------------------------------------------------------------------------
(***************************************************************************)
(* What an app does                                                        *)
(***************************************************************************)

\* The type of a bank in use is its user's.
LEMMA UsesTyped ==
  ASSUME SessionInv, pc # "off"
  PROVE  /\ \A t \in Tokens : tstat[t] # "free" =>
              lookup[t] \in Banks /\ btype[lookup[t]] = "app"
         /\ \A x \in recs : /\ x.bank \in Banks /\ btype[x.bank] = x.kind
                            /\ x.kind \in Kinds
         /\ \A b \in clip : b \in Banks /\ btype[b] = "clip"
         /\ \A j \in Known :
              /\ Entries[j].core \in {0} \cup Banks
              /\ Entries[j].code \in {0} \cup Banks
              /\ Entries[j].core # 0 => btype[Entries[j].core] = "rbcore"
              /\ Entries[j].code # 0 => btype[Entries[j].code] = "rbcode"
<1>1. IInv /\ hdr
  BY DEF SessionInv, IInv, HeaderValid
<1>2. \A t \in Tokens : tstat[t] # "free" =>
        lookup[t] \in Banks /\ btype[lookup[t]] = "app"
  BY BankApart DEF SessionInv, BanksInSession
<1>3. \A x \in recs : /\ x.bank \in Banks /\ btype[x.bank] = x.kind
                      /\ x.kind \in Kinds
  BY <1>1, StateFacts, SkipFact DEF SessionInv, BanksInSession, Record
<1>4. \A b \in clip : b \in Banks /\ btype[b] = "clip"
  BY <1>1, StateFacts, SkipFact DEF SessionInv, BanksInSession
<1>5. \A j \in Known : /\ Entries[j].core \in {0} \cup Banks
                       /\ Entries[j].code \in {0} \cup Banks
  BY <1>1, StateFacts, SkipFact DEF Known, Entry
<1>6. \A j \in Known :
        /\ Entries[j].core # 0 => btype[Entries[j].core] = "rbcore"
        /\ Entries[j].code # 0 => btype[Entries[j].code] = "rbcode"
  BY DEF SessionInv, BasicInSession
<1> QED
  BY <1>2, <1>3, <1>4, <1>5, <1>6

\* A running app changes the types of banks, the records, the clipboard, its
\* own banks and the hotkeys.
LEMMA AppStepSession ==
  ASSUME SessionInv, IInv', pc \in AppPCs, pc' \in AppPCs,
         UNCHANGED <<hdr, lookup, tstat, tapp, reg, file, image, cur, saved,
                     running, job>>,
         BanksInSession', BasicInSession',
         \A b \in held' : btype'[b] = "alloc",
         HotkeysInSession' \/ UNCHANGED <<hotkey, bound, stale>>
  PROVE  SessionInv'
<1>1. /\ Entries = reg.apps /\ saved = 0 /\ job.kind # "manifest"
      /\ tstat[cur] = "loaded" /\ file[tapp[cur]] = running
  BY AppAway
<1>2. Entries' = reg.apps /\ Known' = Known
  BY DEF Entries, Elsewhere, Known, AppPCs
<1>3. CatalogInSession' /\ JobInSession' /\ RegistryInStep'
  BY <1>1, <1>2
     DEF SessionInv, CatalogInSession, JobInSession, RegistryInStep,
         AtLauncher, Away, AppPCs
<1>4. TokensInSession'
  BY <1>1, <1>2 DEF SessionInv, TokensInSession, AtLauncher, AppPCs
<1>5. ImagesInSession' /\ AppInSession'
  BY <1>1 DEF SessionInv, ImagesInSession, AppInSession, AppPCs
<1>6. HotkeysInSession'
  <2>1. CASE UNCHANGED <<hotkey, bound, stale>>
    BY <1>1, <1>2, <2>1 DEF SessionInv, HotkeysInSession, AppPCs
  <2> QED
    BY <2>1
<1> QED
  BY <1>3, <1>4, <1>5, <1>6 DEF SessionInv

\* New types, records and clipboard, when the banks in use keep theirs.
LEMMA TypesSession ==
  ASSUME SessionInv, pc \in AppPCs, pc' \in AppPCs,
         UNCHANGED <<lookup, tstat, tapp, reg, file>>,
         \A b \in Banks : btype[b] \in {"app", "rbcore", "rbcode"} =>
           btype'[b] = btype[b],
         \A b \in clip' : btype'[b] = "clip",
         \A x \in recs' : btype'[x.bank] = x.kind,
         \A x, y \in recs' : x.kind = "alloc" /\ y.kind = "alloc"
                             /\ x.bank = y.bank => x = y,
         \A x \in recs' : x \in recs \/ x.kind = "alloc"
  PROVE  BanksInSession' /\ BasicInSession'
<1>1. pc # "off" /\ Entries = reg.apps
  BY AppAway
<1>2. Entries' = reg.apps /\ Known' = Known
  BY DEF Entries, Elsewhere, Known, AppPCs
<1>3. BanksInSession'
  <2>1. \A t \in Tokens : tstat[t] # "free" => btype'[lookup[t]] = "app"
    BY <1>1, UsesTyped
  <2>2. \A t, u \in Tokens : tstat[t] # "free" /\ tstat[u] # "free"
                             /\ lookup[t] = lookup[u] => t = u
    BY <1>1 DEF SessionInv, BanksInSession
  <2> QED
    BY <2>1, <2>2 DEF BanksInSession
<1>4. BasicInSession'
  <2>1. \A j \in Known :
          /\ (reg.apps[j].core = 0) = (reg.apps[j].code = 0)
          /\ reg.apps[j].core # 0 => btype'[reg.apps[j].core] = "rbcore"
          /\ reg.apps[j].code # 0 => btype'[reg.apps[j].code] = "rbcode"
    <3>1. \A j \in Known : (reg.apps[j].core = 0) = (reg.apps[j].code = 0)
      BY <1>1 DEF SessionInv, BasicInSession
    <3>2. \A j \in Known :
            /\ reg.apps[j].core # 0 => btype'[reg.apps[j].core] = "rbcore"
            /\ reg.apps[j].code # 0 => btype'[reg.apps[j].code] = "rbcode"
      BY <1>1, UsesTyped
    <3> QED
      BY <3>1, <3>2
  <2> QED
    BY <1>1, <1>2, <2>1 DEF SessionInv, BasicInSession
<1> QED
  BY <1>3, <1>4

\* An app starts without banks, or with those of its payload, as long as the
\* types of these are looked at.
LEMMA AppInitSession ==
  ASSUME NoTrusting, SessionInv, IInv',
         AppInit \/ ResumeNotes \/ StartNotes \/ NoteRefused
  PROVE  SessionInv'
<1>1. /\ pc \in AppPCs /\ pc' \in AppPCs /\ job' = job
      /\ UNCHANGED <<hdr, btype, lookup, tstat, tapp, reg, file, recs, clip,
                     image, cur, saved, running, hotkey, bound, stale>>
      /\ \/ held' = held \/ held' = {}
         \/ held' = tail[Home].held /\ Accepted
  BY DEF AppInit, ResumeNotes, StartNotes, NoteRefused, GoTo, AppPCs,
         tokenVars, catalogVars, bankVars, shimVars, appVars, hotkeyVars
<1>2. running \notin Trusting
  <2>1. running \in Offered
    BY <1>1, AppAway DEF SessionInv, CatalogInSession
  <2> QED
    BY <2>1 DEF NoTrusting
<1>3. \A b \in held' : btype[b] = "alloc"
  BY <1>1, <1>2, AppAway DEF Accepted, ValidNotes
<1>4. BanksInSession' /\ BasicInSession'
  <2>1. pc # "off"
    BY <1>1 DEF AppPCs
  <2>2. \A x, y \in recs : x.kind = "alloc" /\ y.kind = "alloc"
                           /\ x.bank = y.bank => x = y
    BY <2>1 DEF SessionInv, BanksInSession
  <2> QED
    BY <1>1, <2>1, <2>2, UsesTyped, TypesSession
<1> QED
  BY <1>1, <1>3, <1>4, AppStepSession

LEMMA TakeNoteSession ==
  ASSUME SessionInv, IInv', TakeNote
  PROVE  SessionInv'
<1>0. IInv
  BY DEF SessionInv
<1>1. PICK b \in Usable :
        /\ b \in FreeBanks(btype) /\ tapp[cur] \in Apps
        /\ held' = held \cup {b}
        /\ btype' = SetType(btype, {b}, "alloc")
        /\ recs' = recs \cup
                     {[app |-> tapp[cur], kind |-> "alloc", bank |-> b]}
  BY <1>0, TakenFact
<1>2. /\ pc \in AppPCs /\ pc # "off" /\ pc' \in AppPCs /\ job' = job
      /\ UNCHANGED <<hdr, lookup, tstat, tapp, reg, file, clip, image, cur,
                     saved, running, hotkey, bound, stale>>
  BY DEF TakeNote, GoTo, AppPCs, tokenVars, catalogVars, bankVars, shimVars,
         hotkeyVars
<1>3. b \in Banks /\ btype[b] = "free"
  BY <1>1 DEF FreeBanks, Dynamic
<1>4. /\ btype'[b] = "alloc"
      /\ \A c \in Banks : btype[c] # "free" => btype'[c] = btype[c]
  BY <1>1, <1>3 DEF SetType
<1>5. \A c \in held' : btype'[c] = "alloc"
  <2>1. \A c \in held : c \in Banks /\ btype[c] = "alloc"
    BY <1>0, <1>2, AppAway, BankFacts DEF IInv, TypeOK
  <2> QED
    BY <1>1, <1>4, <2>1
<1>6. BanksInSession' /\ BasicInSession'
  <2> DEFINE new == [app |-> tapp[cur], kind |-> "alloc", bank |-> b]
  <2>0. new.kind = "alloc" /\ new.bank = b
    OBVIOUS
  <2>1. \A x \in recs' : x \in recs \/ x = new
    BY <1>1
  <2> HIDE DEF new
  <2>2. \A x \in recs : /\ x.bank \in Banks /\ btype[x.bank] = x.kind
                        /\ x.kind # "free"
    BY <1>2, UsesTyped DEF Kinds
  <2>3. \A x \in recs' : btype'[x.bank] = x.kind
    BY <1>4, <2>0, <2>1, <2>2
  <2>4. \A x, y \in recs : x.kind = "alloc" /\ y.kind = "alloc"
                           /\ x.bank = y.bank => x = y
    BY <1>2 DEF SessionInv, BanksInSession
  <2>5. \A x \in recs : x.bank # b
    BY <1>3, <2>2
  <2>6. ASSUME NEW x \in recs', NEW y \in recs', x.kind = "alloc",
               y.kind = "alloc", x.bank = y.bank
        PROVE  x = y
    BY <2>0, <2>1, <2>4, <2>5, <2>6
  <2>7. \A c \in clip : btype'[c] = "clip"
    BY <1>4, <1>2, UsesTyped
  <2>8. \A x \in recs' : x \in recs \/ x.kind = "alloc"
    BY <2>0, <2>1
  <2>9. \A c \in Banks : btype[c] \in {"app", "rbcore", "rbcode"} =>
           btype'[c] = btype[c]
    BY <1>4
  <2> QED
    BY <1>2, <2>3, <2>6, <2>7, <2>8, <2>9, TypesSession
<1> QED
  BY <1>2, <1>5, <1>6, AppStepSession

LEMMA GiveBackSession ==
  ASSUME SessionInv, IInv', NEW b \in held, GiveBack(b)
  PROVE  SessionInv'
<1>1. /\ pc \in AppPCs /\ pc # "off" /\ pc' \in AppPCs /\ job' = job
      /\ recs' = RecordsWithout({b}) /\ btype' = FreeBank(btype, {b})
      /\ held' = held \ {b}
      /\ UNCHANGED <<hdr, lookup, tstat, tapp, reg, file, clip, image, cur,
                     saved, running, hotkey, bound, stale>>
  BY DEF GiveBack, GoTo, AppPCs, tokenVars, catalogVars, bankVars, shimVars,
         hotkeyVars
<1>2. /\ \A c \in held : c \in Banks /\ btype[c] = "alloc"
      /\ \A x \in recs : x.bank \in Banks /\ btype[x.bank] = x.kind
      /\ \A c \in clip : c \in Banks /\ btype[c] = "clip"
  BY <1>1, AppAway, UsesTyped, BankFacts DEF IInv, TypeOK
<1>3. \A c \in Banks : c # b => btype'[c] = btype[c]
  BY <1>1 DEF FreeBank
<1>4. recs' = {x \in recs : ~(x.kind = "alloc" /\ x.bank = b)}
  BY <1>1 DEF RecordsWithout
<1>5. BanksInSession' /\ BasicInSession'
  <2>1. \A x \in recs' : btype'[x.bank] = x.kind
    BY <1>2, <1>3, <1>4
  <2>2. \A x, y \in recs' : x.kind = "alloc" /\ y.kind = "alloc"
                            /\ x.bank = y.bank => x = y
    BY <1>1, <1>4 DEF SessionInv, BanksInSession
  <2>3. \A c \in clip' : btype'[c] = "clip"
    BY <1>1, <1>2, <1>3
  <2>4. \A c \in Banks : btype[c] \in {"app", "rbcore", "rbcode"} =>
          btype'[c] = btype[c]
    BY <1>2, <1>3
  <2> QED
    BY <1>1, <1>4, <2>1, <2>2, <2>3, <2>4, TypesSession
<1>6. \A c \in held' : btype'[c] = "alloc"
  BY <1>1, <1>2, <1>3
<1> QED
  BY <1>1, <1>5, <1>6, AppStepSession

LEMMA ClipSession ==
  ASSUME SessionInv, IInv', ClipCopy \/ \E S : ClipFree(S)
  PROVE  SessionInv'
<1>1. /\ pc = "app" /\ pc' = "app"
      /\ UNCHANGED <<hdr, lookup, tstat, tapp, reg, file, recs, image, cur,
                     saved, running, held, job, hotkey, bound, stale>>
  BY DEF ClipCopy, ClipFree, tokenVars, catalogVars, bankVars, shimVars,
         appVars, hotkeyVars
<1>2. /\ IInv /\ pc # "off" /\ btype \in [Banks -> BankTypes]
      /\ \A b \in held : b \in Banks /\ btype[b] = "alloc"
  BY <1>1, AppAway, StateFacts, BankFacts DEF IInv, TypeOK, AppPCs
<1>3. /\ \A b \in Banks : btype[b] \notin {"free", "clip"} =>
           btype'[b] = btype[b]
      /\ \A b \in clip' : btype'[b] = "clip"
  <2>1. CASE ClipCopy
    <3>1. PICK b \in FirstFree(btype) :
            btype' = SetType(btype, {b}, "clip") /\ clip' = clip \cup {b}
      BY <2>1 DEF ClipCopy
    <3>2. b \in Banks /\ btype[b] = "free"
      BY DEF FirstFree, FreeBanks, Dynamic
    <3> QED
      BY <1>2, <3>1, <3>2, UsesTyped DEF SetType
  <2>2. ASSUME NEW S, ClipFree(S)
        PROVE  /\ \A b \in Banks : btype[b] \notin {"free", "clip"} =>
                    btype'[b] = btype[b]
               /\ \A b \in clip' : btype'[b] = "clip"
    <3>1. S \subseteq clip /\ btype' = FreeBank(btype, S) /\ clip' = clip \ S
      BY <2>2 DEF ClipFree
    <3>2. \A b \in clip : b \in Banks /\ btype[b] = "clip"
      BY <1>2, UsesTyped
    <3> QED
      BY <3>1, <3>2 DEF FreeBank
  <2> QED
    BY <2>1, <2>2
<1>4. BanksInSession' /\ BasicInSession'
  <2>1. \A x, y \in recs : x.kind = "alloc" /\ y.kind = "alloc"
                           /\ x.bank = y.bank => x = y
    BY <1>2 DEF SessionInv, BanksInSession
  <2>2. \A x \in recs : btype'[x.bank] = x.kind
    BY <1>2, <1>3, UsesTyped DEF Kinds
  <2> QED
    BY <1>1, <1>3, <2>1, <2>2, TypesSession DEF AppPCs
<1>5. \A b \in held' : btype'[b] = "alloc"
  BY <1>1, <1>2, <1>3
<1> QED
  BY <1>1, <1>4, <1>5, AppStepSession DEF AppPCs

LEMMA BindHotkeySession ==
  ASSUME SessionInv, IInv', NEW s \in Slots, BindHotkey(s)
  PROVE  SessionInv'
<1>1. /\ pc = "app" /\ pc' = "app"
      /\ hotkey' = [hotkey EXCEPT ![s] = cur]
      /\ bound' = [bound EXCEPT ![s] = running]
      /\ stale' = stale \ {s}
      /\ UNCHANGED <<hdr, btype, lookup, tstat, tapp, reg, file, recs, clip,
                     image, cur, saved, running, held, job>>
  BY DEF BindHotkey, tokenVars, catalogVars, bankVars, shimVars, appVars
<1>1a. /\ pc = "app" /\ pc' = "app"
       /\ UNCHANGED <<hdr, btype, lookup, tstat, tapp, reg, file, recs, clip,
                      image, cur, saved, running, held, job>>
  BY <1>1
<1>2. /\ IInv /\ pc # "off" /\ Entries = reg.apps /\ job.kind # "manifest"
      /\ cur \in Tokens /\ tstat[cur] = "loaded" /\ tapp[cur] \in Known
      /\ file[tapp[cur]] = running
      /\ \A b \in held : btype[b] = "alloc"
  BY <1>1a, AppAway DEF AppPCs
<1>3. reg.apps[tapp[cur]].tok = cur
  BY <1>2 DEF SessionInv, TokensInSession
<1>4. Entries' = reg.apps /\ Known' = Known
  BY <1>1a DEF Entries, Elsewhere, Known, AppPCs
<1>5. BanksInSession' /\ BasicInSession'
  BY <1>1a, <1>2, <1>4 DEF SessionInv, BanksInSession, BasicInSession
<1>6. \A z \in Slots : /\ hotkey'[z] = IF z = s THEN cur ELSE hotkey[z]
                       /\ bound'[z] = IF z = s THEN running ELSE bound[z]
  BY <1>1, <1>2 DEF IInv, TypeOK
<1>7. ASSUME NEW z \in Slots \ stale', hotkey'[z] # 0
      PROVE  /\ tstat[hotkey'[z]] # "free" /\ tapp[hotkey'[z]] \in Known
             /\ reg.apps[tapp[hotkey'[z]]].tok = hotkey'[z]
             /\ bound'[z] = file[tapp[hotkey'[z]]]
  <2>1. CASE z = s
    BY <1>2, <1>3, <1>6, <2>1
  <2>2. CASE z # s
    <3>1. z \in Slots \ stale
      BY <1>1, <1>7, <2>2
    <3>2. hotkey'[z] = hotkey[z] /\ bound'[z] = bound[z]
      BY <1>6, <2>2
    <3> QED
      BY <1>2, <1>7, <3>1, <3>2 DEF SessionInv, HotkeysInSession
  <2> QED
    BY <2>1, <2>2
<1>8. HotkeysInSession'
  BY <1>1a, <1>2, <1>4, <1>7 DEF HotkeysInSession
<1> QED
  BY <1>1a, <1>2, <1>5, <1>8, AppStepSession DEF AppPCs

\* Quitting frees banks that are the app's.
LEMMA QuitSession ==
  ASSUME SessionInv, IInv', Quit
  PROVE  SessionInv'
<1>1. /\ pc \in AppPCs /\ pc # "off" /\ pc' = "off" /\ job' = NoJob
      /\ btype' = FreeBank(btype, held) /\ UNCHANGED <<hdr, file, clip>>
  BY DEF Quit, PowerDown, AppPCs, catalogVars
<1>2. \A b \in clip : btype'[b] = "clip"
  <2>1. \A b \in clip : b \in Banks /\ btype[b] = "clip"
    BY <1>1, UsesTyped
  <2>2. \A b \in held : btype[b] = "alloc"
    BY <1>1, AppAway
  <2> QED
    BY <1>1, <2>1, <2>2 DEF FreeBank
<1>3. \A i \in Known' : file'[i] \in Offered
  BY <1>1 DEF SessionInv, CatalogInSession, Known
<1> QED
  BY <1>1, <1>2, <1>3, OffSession

-----------------------------------------------------------------------------
(***************************************************************************)
(* An app loses its resources                                              *)
(***************************************************************************)

\* Of the banks in use only those of app i and those of snap become free.
LEMMA FreedTypes ==
  ASSUME SessionInv, AtLauncher, NEW i \in Known,
         NEW snap, \A b \in snap : btype[b] = "app",
         btype' = FreedResources(FreePhysical(btype, snap), i)
  PROVE  /\ \A b \in Banks : b \notin snap /\ btype[b] \in {"app", "clip"} =>
              btype'[b] = btype[b]
         /\ \A x \in OtherRecords(i) :
              /\ btype'[x.bank] = x.kind
              /\ x.kind = "rbcore" =>
                   x.app \in Known /\ ram[x.app].core = x.bank
              /\ x.kind = "rbcode" =>
                   x.app \in Known /\ ram[x.app].code = x.bank
         /\ \A j \in Known : j # i =>
              /\ ram[j].core # 0 => btype'[ram[j].core] = "rbcore"
              /\ ram[j].code # 0 => btype'[ram[j].code] = "rbcode"
<1> DEFINE own == OwnedBanks(i) \cup ({ram[i].core, ram[i].code} \ {0})
<1>1. pc # "off" /\ Entries = ram /\ IInv
  BY LauncherAgrees
<1>2. \A b \in Banks : b \notin snap /\ b \notin own => btype'[b] = btype[b]
  BY DEF FreedResources, FreePhysical
<1>3. \A b \in own : \/ btype[b] = "alloc" /\ b \in OwnedBanks(i)
                     \/ btype[b] = "rbcore" /\ b # 0 /\ b = ram[i].core
                     \/ btype[b] = "rbcode" /\ b # 0 /\ b = ram[i].code
  <2>1. \A b \in OwnedBanks(i) : btype[b] = "alloc"
    BY DEF OwnedBanks
  <2>2. /\ ram[i].core # 0 => btype[ram[i].core] = "rbcore"
        /\ ram[i].code # 0 => btype[ram[i].code] = "rbcode"
    BY <1>1, UsesTyped
  <2> QED
    BY <2>1, <2>2
<1> HIDE DEF own
<1>4. \A b \in Banks : b \notin snap /\ btype[b] \in {"app", "clip"} =>
        btype'[b] = btype[b]
  BY <1>2, <1>3
<1>5. ASSUME NEW x \in OtherRecords(i)
      PROVE  /\ btype'[x.bank] = x.kind
             /\ x.kind = "rbcore" =>
                  x.app \in Known /\ ram[x.app].core = x.bank
             /\ x.kind = "rbcode" =>
                  x.app \in Known /\ ram[x.app].code = x.bank
  <2>1. /\ x \in recs /\ x.app # i /\ x.bank \in Banks
        /\ btype[x.bank] = x.kind /\ x.kind \in {"alloc", "rbcore", "rbcode"}
    BY <1>1, UsesTyped DEF OtherRecords, Kinds
  <2>2. /\ x.kind = "rbcore" => x.app \in Known /\ ram[x.app].core = x.bank
        /\ x.kind = "rbcode" => x.app \in Known /\ ram[x.app].code = x.bank
    BY <1>1, <2>1 DEF SessionInv, BasicInSession
  <2>3. x.bank \notin OwnedBanks(i)
    BY <1>1, <2>1 DEF SessionInv, BanksInSession, OwnedBanks
  <2>4. /\ x.kind = "rbcore" => x.bank # ram[i].core \/ x.bank = 0
        /\ x.kind = "rbcode" => x.bank # ram[i].code \/ x.bank = 0
    BY <1>1, <2>1, <2>2 DEF SessionInv, BasicInSession
  <2>5. x.bank \notin own
    BY <1>3, <2>1, <2>3, <2>4
  <2>6. x.bank \notin snap
    BY <2>1
  <2> QED
    BY <1>2, <2>1, <2>2, <2>5, <2>6
<1>6. ASSUME NEW j \in Known, j # i
      PROVE  /\ ram[j].core # 0 => btype'[ram[j].core] = "rbcore"
             /\ ram[j].code # 0 => btype'[ram[j].code] = "rbcode"
  <2>1. /\ ram[j].core \in {0} \cup Banks /\ ram[j].code \in {0} \cup Banks
        /\ ram[j].core # 0 => btype[ram[j].core] = "rbcore"
        /\ ram[j].code # 0 => btype[ram[j].code] = "rbcode"
    BY <1>1, UsesTyped
  <2>2. /\ ram[j].core # 0 => ram[j].core # ram[i].core
        /\ ram[j].code # 0 => ram[j].code # ram[i].code
    BY <1>1, <1>6 DEF SessionInv, BasicInSession
  <2> QED
    BY <1>2, <1>3, <2>1, <2>2
<1> QED
  BY <1>4, <1>5, <1>6

\* The banks of an app and of the tokens of snap are given up.
LEMMA FreedSession ==
  ASSUME SessionInv, AtLauncher, pc' # "off", NEW i \in Known,
         NEW snap, \A b \in snap : btype[b] = "app",
         btype' = FreedResources(FreePhysical(btype, snap), i),
         recs' = OtherRecords(i), UNCHANGED <<hdr, lookup, clip>>,
         Known' \subseteq Known, \A j \in Known : j # i => j \in Known',
         \A j \in Known' : j # i => /\ Entries'[j].core = ram[j].core
                                    /\ Entries'[j].code = ram[j].code,
         i \in Known' => Entries'[i].core = 0 /\ Entries'[i].code = 0,
         \A t \in Tokens : tstat'[t] # "free" =>
           tstat[t] # "free" /\ lookup[t] \notin snap
  PROVE  BanksInSession' /\ BasicInSession'
<1>1. pc # "off" /\ Entries = ram /\ IInv
  BY LauncherAgrees
<1>2. /\ \A b \in Banks : b \notin snap /\ btype[b] \in {"app", "clip"} =>
           btype'[b] = btype[b]
      /\ \A x \in recs' :
           /\ btype'[x.bank] = x.kind
           /\ x.kind = "rbcore" => x.app \in Known /\ ram[x.app].core = x.bank
           /\ x.kind = "rbcode" => x.app \in Known /\ ram[x.app].code = x.bank
      /\ \A j \in Known : j # i =>
           /\ ram[j].core # 0 => btype'[ram[j].core] = "rbcore"
           /\ ram[j].code # 0 => btype'[ram[j].code] = "rbcode"
  BY FreedTypes
<1>3. BanksInSession'
  <2>1. \A t \in Tokens : tstat'[t] # "free" => btype'[lookup[t]] = "app"
    BY <1>1, <1>2, UsesTyped
  <2>2. \A t, u \in Tokens : tstat'[t] # "free" /\ tstat'[u] # "free"
                             /\ lookup[t] = lookup[u] => t = u
    BY <1>1 DEF SessionInv, BanksInSession
  <2>3. \A x, y \in recs' : x.kind = "alloc" /\ y.kind = "alloc"
                            /\ x.bank = y.bank => x = y
    BY <1>1 DEF SessionInv, BanksInSession, OtherRecords
  <2>4. \A b \in clip : btype'[b] = "clip"
    BY <1>1, <1>2, UsesTyped
  <2> QED
    BY <1>2, <2>1, <2>2, <2>3, <2>4 DEF BanksInSession
<1>4. BasicInSession'
  <2>1. ASSUME NEW j \in Known'
        PROVE  /\ (Entries'[j].core = 0) = (Entries'[j].code = 0)
               /\ Entries'[j].core # 0 => btype'[Entries'[j].core] = "rbcore"
               /\ Entries'[j].code # 0 => btype'[Entries'[j].code] = "rbcode"
    <3>1. CASE j = i
      BY <3>1
    <3>2. CASE j # i
      <4>1. (ram[j].core = 0) = (ram[j].code = 0)
        BY <1>1 DEF SessionInv, BasicInSession
      <4> QED
        BY <1>2, <3>2, <4>1
    <3> QED
      BY <3>1, <3>2
  <2>2. \A j, k \in Known :
          /\ (ram[j].core # 0 /\ ram[j].core = ram[k].core => j = k)
          /\ (ram[j].code # 0 /\ ram[j].code = ram[k].code => j = k)
    BY <1>1 DEF SessionInv, BasicInSession
  <2>3. \A j, k \in Known' :
          /\ (Entries'[j].core # 0 /\ Entries'[j].core = Entries'[k].core =>
                j = k)
          /\ (Entries'[j].code # 0 /\ Entries'[j].code = Entries'[k].code =>
                j = k)
    BY <2>2
  <2>4. ASSUME NEW x \in recs'
        PROVE  /\ x.kind = "rbcore" =>
                    x.app \in Known' /\ Entries'[x.app].core = x.bank
               /\ x.kind = "rbcode" =>
                    x.app \in Known' /\ Entries'[x.app].code = x.bank
    <3>1. x.app # i
      BY DEF OtherRecords
    <3> QED
      BY <1>2, <3>1
  <2> QED
    BY <2>1, <2>3, <2>4 DEF BasicInSession
<1> QED
  BY <1>3, <1>4

LEMMA ManifestFailedSession ==
  ASSUME SessionInv, IInv', ManifestFailed
  PROVE  SessionInv'
<1> DEFINE i == job.idx
<1>1. /\ pc = "failed" /\ pc' = "menu" /\ job.kind = "manifest"
      /\ job' = NoJob /\ saved' = 0 /\ count' = count - 1
      /\ file' = [file EXCEPT ![i] = None] /\ recs' = OtherRecords(i)
      /\ LET st1 == SyncedStatus(count, ram, tstat)
             r1  == SyncedEntries(count, ram, st1)
             bt1 == SetType(btype, LoadedBanks(count, r1, st1), "app")
         IN  /\ tstat' = st1
             /\ ram' = [r1 EXCEPT ![i] = BlankEntry]
             /\ btype' = FreedResources(bt1, i)
      /\ UNCHANGED <<hdr, lookup, tapp, reg, clip, image, cur, hotkey, bound,
                     stale>>
  BY DEF ManifestFailed, BackToMenu, bankVars, hotkeyVars
<1>1a. /\ pc = "failed" /\ pc' = "menu" /\ job' = NoJob /\ saved' = 0
       /\ count' = count - 1 /\ recs' = OtherRecords(i)
       /\ UNCHANGED <<hdr, lookup, tapp, reg, clip, image, hotkey, bound, stale>>
  BY <1>1
<1>2. /\ AtLauncher /\ AtLauncher' /\ pc # "off" /\ pc' # "off" /\ IInv
      /\ Entries = ram /\ saved = 0 /\ Known = 1 .. count
      /\ Known \subseteq Apps /\ i = count /\ i \in Known /\ i \in Apps
      /\ count \in 0 .. MaxApps /\ ~ram[i].loaded
      /\ ram \in [Apps -> Entry] /\ btype \in [Banks -> BankTypes]
      /\ file \in [Apps -> Prog \cup {None}] /\ tstat \in [Tokens -> Status]
      /\ job.kind = "manifest" /\ job'.kind = "none"
  BY <1>1, JobFacts, LauncherAgrees, LauncherDistinct, StateFacts
     DEF AtLauncher, SessionInv, JobInSession, NoJob, AppPCs
<1>3. /\ SyncedStatus(count, ram, tstat) = tstat
      /\ SyncedEntries(count, ram, tstat) = ram
      /\ SetType(btype, LoadedBanks(count, ram, tstat), "app") = btype
  BY <1>2, LauncherAgrees, SyncSame
<1>4. /\ tstat' = tstat /\ ram' = [ram EXCEPT ![i] = BlankEntry]
      /\ btype' = FreedResources(btype, i)
  BY <1>1, <1>3
<1>5. /\ ram'[i] = BlankEntry /\ ram'[i].tok = 0
      /\ ram'[i].core = 0 /\ ram'[i].code = 0
      /\ \A j \in Apps : j # i => ram'[j] = ram[j] /\ file'[j] = file[j]
      /\ file'[i] = None
  BY <1>1, <1>2, <1>4 DEF BlankEntry
<1>6. /\ Entries' = ram' /\ Known' = Known \ {i} /\ Known' = 1 .. count'
      /\ i \notin Known'
  <2>1. Entries' = ram'
    BY <1>1a DEF Entries, Elsewhere, AppPCs
  <2>2. Known' = {j \in Apps : file'[j] # None}
    BY DEF Known
  <2>3. Known' = Known \ {i}
    BY <1>2, <1>5, <2>2 DEF Known
  <2> QED
    BY <1>1a, <1>2, <2>1, <2>3
<1>7. \A j \in Known' : /\ j \in Known /\ j # i /\ j \in Apps
                        /\ ram'[j] = ram[j] /\ file'[j] = file[j]
  BY <1>2, <1>5, <1>6
<1>8. CatalogInSession'
  <2>1. \A j \in Known' : file'[j] \in Offered
    BY <1>7 DEF SessionInv, CatalogInSession
  <2>2. ASSUME NEW j \in Apps, j > count' PROVE ram'[j].tok = 0
    <3>1. j = i \/ j > count
      BY <1>1a, <1>2, <2>2 DEF Apps
    <3> QED
      BY <1>2, <1>5, <3>1 DEF SessionInv, CatalogInSession
  <2>3. \A j \in Apps : j > reg.count => reg.apps[j].tok = 0
    BY <1>2 DEF SessionInv, CatalogInSession
  <2> QED
    BY <1>1a, <1>6, <2>1, <2>2, <2>3 DEF CatalogInSession, Away, AppPCs
<1>9. JobInSession'
  BY <1>1a, <1>2 DEF JobInSession
<1>10. RegistryInStep'
  BY <1>1a, <1>2, <1>7 DEF SessionInv, RegistryInStep
<1>11. TokensInSession'
  <2>1. ASSUME NEW u \in Tokens, tstat[u] = "loaded"
        PROVE  tapp[u] \in Known' /\ ram'[tapp[u]].tok = u
    <3>1. tapp[u] \in Known /\ ram[tapp[u]].tok = u
      BY <1>2, <2>1 DEF SessionInv, TokensInSession
    <3>2. tapp[u] # i
      BY <1>2, <2>1, <3>1, AppsFact, LauncherDistinct
    <3> QED
      BY <1>2, <1>5, <1>6, <3>1, <3>2
  <2>2. ASSUME NEW j \in Known', ram'[j].tok # 0
        PROVE  /\ tstat[ram'[j].tok] # "free" /\ tapp[ram'[j].tok] = j
               /\ ram'[j].loaded <=> tstat[ram'[j].tok] = "loaded"
               /\ tstat[ram'[j].tok] = "loaded" /\ ram'[j].basic =>
                    ram'[j].ready
    BY <1>1a, <1>2, <1>7, <2>2 DEF SessionInv, TokensInSession
  <2> QED
    BY <1>1a, <1>4, <1>6, <2>1, <2>2 DEF TokensInSession
<1>12. BanksInSession' /\ BasicInSession'
  <2>1. FreePhysical(btype, {}) = btype
    BY <1>2 DEF FreePhysical
  <2>2. btype' = FreedResources(FreePhysical(btype, {}), i)
    BY <1>4, <2>1
  <2> QED
    BY <1>1a, <1>2, <1>4, <1>6, <1>7, <2>2, FreedSession
<1>13. ImagesInSession'
  <2>1. \A u \in Tokens : tstat[u] = "loaded" => tapp[u] \in Known'
    BY <1>1a, <1>4, <1>11 DEF TokensInSession
  <2>2. \A u \in Tokens : tstat[u] = "loaded" =>
          image[lookup[u]] \in {file[tapp[u]], "launcher"}
    BY <1>2 DEF SessionInv, ImagesInSession
  <2> QED
    BY <1>1a, <1>4, <1>7, <2>1, <2>2 DEF ImagesInSession
<1>14. AppInSession'
  BY <1>1a DEF AppInSession, AppPCs
<1>15. HotkeysInSession'
  <2>1. ASSUME NEW s \in Slots \ stale, hotkey[s] # 0
        PROVE  /\ tstat[hotkey[s]] # "free" /\ tapp[hotkey[s]] \in Known'
               /\ ram'[tapp[hotkey[s]]].tok = hotkey[s]
               /\ bound[s] = file'[tapp[hotkey[s]]]
    <3>1. /\ tstat[hotkey[s]] # "free" /\ tapp[hotkey[s]] \in Known
          /\ ram[tapp[hotkey[s]]].tok = hotkey[s]
          /\ bound[s] = file[tapp[hotkey[s]]]
          /\ tapp[hotkey[s]] # i
      BY <1>2, <2>1 DEF SessionInv, HotkeysInSession
    <3>2. tapp[hotkey[s]] \in Known'
      BY <1>6, <3>1
    <3> QED
      BY <1>7, <3>1, <3>2
  <2> QED
    BY <1>1a, <1>2, <1>4, <1>6, <2>1 DEF HotkeysInSession
<1> QED
  BY <1>8, <1>9, <1>10, <1>11, <1>12, <1>13, <1>14, <1>15 DEF SessionInv

\* The slots of an unloaded app are cleared, the others keep their apps.
LEMMA UnloadSession ==
  ASSUME SessionInv, IInv', NEW i \in Apps, Unload(i)
  PROVE  SessionInv'
<1> DEFINE t   == ram[i].tok
           st1 == [tstat EXCEPT ![t] = "free"]
           r1  == [ram EXCEPT ![i] = [@ EXCEPT !.tok = 0, !.loaded = FALSE,
                                      !.ready = FALSE, !.core = 0, !.code = 0]]
           hk  == ClearedHotkeys(t)
<1>1. /\ pc = "menu" /\ i <= count /\ t # 0 /\ ram[i].loaded
      /\ SetHotkeys(hk, r1)
      /\ btype' = Anchored(FreedResources(
           FreePhysical(btype, IF tstat[t] # "free" THEN {lookup[t]} ELSE {}),
           i))
      /\ recs' = OtherRecords(i) /\ ram' = r1
      /\ tstat' = MirroredStatus(count, r1, st1)
      /\ tapp' = MirroredApp(count, r1, st1)
      /\ reg' = Published(count, r1)
      /\ saved' = (IF saved = t THEN 0 ELSE saved)
      /\ image' = [image EXCEPT ![lookup[t]] = None]
      /\ UNCHANGED <<hdr, lookup, file, clip, pc, job, count>>
  BY DEF Unload
<1>2. /\ AtLauncher /\ AtLauncher' /\ pc # "off" /\ pc' # "off" /\ IInv
      /\ Entries = ram /\ saved = 0 /\ Known = 1 .. count /\ Known' = Known
      /\ Known \subseteq Apps /\ i \in Known /\ count \in 0 .. MaxApps
      /\ ram \in [Apps -> Entry] /\ tstat \in [Tokens -> Status]
      /\ btype \in [Banks -> BankTypes] /\ Sound(btype) /\ ram[i] \in Entry
      /\ job.kind # "manifest" /\ job' = job /\ pc' = "menu"
  BY <1>1, LauncherAgrees, LauncherDistinct, StateFacts, IInvFacts
     DEF AtLauncher, Known, SessionInv, JobInSession, Apps, AppPCs
<1>3. t \in Tokens /\ tstat[t] = "loaded"
  BY <1>1, <1>2, LauncherDistinct
<1>4. /\ r1 \in [Apps -> Entry]
      /\ r1[i].tok = 0 /\ r1[i].core = 0 /\ r1[i].code = 0
      /\ \A j \in Apps : j # i => r1[j] = ram[j]
  BY <1>2, AppsFact DEF Entry
<1>5. /\ st1 \in [Tokens -> Status] /\ st1[t] = "free"
      /\ \A u \in Tokens : u # t => st1[u] = tstat[u]
  BY <1>2, <1>3 DEF Status
<1>6. /\ Mirrored(count, r1, st1) /\ recs' = OtherRecords(i) /\ saved' = 0
      /\ SetHotkeys(hk, r1)
      /\ UNCHANGED <<hdr, lookup, file, clip, count>>
  BY <1>1, <1>2 DEF Mirrored
<1>7. \A s \in Slots : hk[s] = IF hotkey[s] = t THEN 0 ELSE hotkey[s]
  BY DEF ClearedHotkeys
<1>8. image' = [image EXCEPT ![lookup[t]] = None]
  BY <1>1
<1>9. btype' = FreedResources(FreePhysical(btype, {lookup[t]}), i)
  <2>1. lookup[t] \in Usable
    BY <1>2, <1>3, IInvFacts, StateFacts
  <2>2. Sound(FreePhysical(btype, {lookup[t]}))
    BY <1>2, <2>1, FreePhysicalFact
  <2>3. Sound(FreedResources(FreePhysical(btype, {lookup[t]}), i))
    BY <1>2, <2>2, FreedFact
  <2> QED
    BY <1>1, <1>3, <2>3, SameAnchor
<1> HIDE DEF t, st1, r1, hk
<1>10. \A j \in Known : j # i /\ ram[j].tok # 0 => ram[j].tok # t
  BY <1>2, LauncherDistinct DEF Distinct, t
<1>11. Distinct(count, r1, st1)
  <2>1. \A j \in Known : r1[j].tok # 0 =>
          /\ j # i /\ r1[j].tok = ram[j].tok /\ r1[j].tok \in Tokens
          /\ st1[r1[j].tok] # "free"
    BY <1>2, <1>4, <1>5, <1>10, LauncherDistinct
  <2>2. \A j, k \in Known : ram[j].tok # 0 /\ ram[j].tok = ram[k].tok => j = k
    BY <1>2, LauncherDistinct DEF Distinct
  <2>3. \A j, k \in Known : r1[j].tok # 0 /\ r1[j].tok = r1[k].tok => j = k
    BY <2>1, <2>2
  <2> QED
    BY <1>2, <2>1, <2>3 DEF Distinct
<1>12. /\ CatalogInSession' /\ RegistryInStep' /\ TokensInSession'
       /\ Entries' = r1
       /\ \A j \in 1 .. count : r1[j].tok # 0 =>
            tstat'[r1[j].tok] # "free" /\ tapp'[r1[j].tok] = j
       /\ \A u \in Tokens : tstat'[u] # "free" => st1[u] # "free"
       /\ \A u \in Tokens : tstat'[u] = "loaded" =>
            /\ tapp'[u] \in 1 .. count /\ r1[tapp'[u]].tok = u
            /\ r1[tapp'[u]].loaded
  <2>1. \A j \in Known' : file'[j] \in Offered
    BY <1>2, <1>6 DEF SessionInv, CatalogInSession
  <2>2. \A j \in Apps : j > count => r1[j].tok = 0
    BY <1>2, <1>4 DEF SessionInv, CatalogInSession
  <2>3. \A j \in 1 .. count : r1[j].tok # 0 /\ r1[j].loaded /\ r1[j].basic =>
          r1[j].ready
    BY <1>1, <1>2, <1>4, LauncherDistinct
  <2> QED
    BY <1>2, <1>4, <1>5, <1>6, <1>11, <2>1, <2>2, <2>3, MirroredStep
<1>13. JobInSession'
  BY <1>2, <1>6 DEF JobInSession
<1>14. BanksInSession' /\ BasicInSession'
  <2>1. btype[lookup[t]] = "app"
    BY <1>2, <1>3, UsesTyped
  <2>2. \A u \in Tokens : tstat'[u] # "free" =>
          tstat[u] # "free" /\ lookup[u] # lookup[t]
    BY <1>2, <1>3, <1>5, <1>12, BankApart
  <2>3. \A j \in Known : j # i => /\ r1[j].core = ram[j].core
                                  /\ r1[j].code = ram[j].code
    BY <1>2, <1>4
  <2> QED
    BY <1>2, <1>4, <1>6, <1>9, <1>12, <2>1, <2>2, <2>3, FreedSession
<1>15. ImagesInSession'
  <2>1. /\ image \in [Banks -> Images] /\ lookup[t] \in Banks
        /\ \A u \in Tokens : u # t /\ tstat[u] # "free" =>
             lookup[u] \in Banks /\ lookup[u] # lookup[t]
    BY <1>2, <1>3, BankApart
  <2>2. \A u \in Tokens : u # t /\ tstat[u] # "free" =>
          image'[lookup[u]] = image[lookup[u]]
    BY <1>8, <2>1
  <2>3. ASSUME NEW u \in Tokens, tstat'[u] = "loaded"
        PROVE  image'[lookup[u]] \in {file[tapp'[u]], "launcher"}
    <3>1. PICK j \in Known : tapp'[u] = j /\ r1[j].tok = u /\ r1[j].loaded
      BY <1>2, <1>12, <2>3
    <3>2. u # 0
      BY AppsFact
    <3>3. j # i /\ ram[j].tok = u /\ ram[j].loaded
      BY <1>2, <1>4, <3>1, <3>2
    <3>4. u # t /\ tstat[u] = "loaded" /\ tapp[u] = j
      BY <1>2, <1>10, <3>2, <3>3, LauncherDistinct
    <3>5. image[lookup[u]] \in {file[j], "launcher"}
      BY <1>2, <3>4 DEF SessionInv, ImagesInSession
    <3> QED
      BY <2>2, <3>1, <3>4, <3>5
  <2> QED
    BY <1>6, <2>3 DEF ImagesInSession
<1>16. AppInSession'
  BY <1>2 DEF AppInSession, AppPCs
<1>17. HotkeysInSession'
  <2>1. ASSUME NEW s \in Slots \ stale, hk[s] = hotkey[s], hotkey[s] # 0
        PROVE  \E j \in 1 .. count :
                 r1[j].tok = hotkey[s] /\ bound[s] = file[j]
    <3>1. /\ tapp[hotkey[s]] \in Known
          /\ ram[tapp[hotkey[s]]].tok = hotkey[s]
          /\ bound[s] = file[tapp[hotkey[s]]]
      BY <1>2, <2>1 DEF SessionInv, HotkeysInSession
    <3>2. hotkey[s] # t
      BY <1>7, <2>1
    <3>3. tapp[hotkey[s]] # i
      BY <3>1, <3>2 DEF t
    <3>4. r1[tapp[hotkey[s]]].tok = hotkey[s]
      BY <1>2, <1>4, <3>1, <3>3
    <3> QED
      BY <1>2, <3>1, <3>4
  <2>2. \A s \in Slots : hk[s] # hotkey[s] /\ hk[s] # 0 =>
          \E j \in 1 .. count : r1[j].tok = hk[s]
    BY <1>7
  <2>3. \A j, k \in 1 .. count : r1[j].tok # 0 /\ r1[j].tok = r1[k].tok => j = k
    BY <1>11 DEF Distinct
  <2>4. \A j \in Apps : j > count => r1[j].tok = 0
    BY <1>2, <1>4 DEF SessionInv, CatalogInSession
  <2> QED
    BY <1>2, <1>4, <1>6, <1>12, <2>1, <2>2, <2>3, <2>4, SetHotkeysSession
<1> QED
  BY <1>12, <1>13, <1>14, <1>15, <1>16, <1>17 DEF SessionInv

-----------------------------------------------------------------------------
(***************************************************************************)
(* An app returns to the launcher                                          *)
(***************************************************************************)

\* The entries a warm start finds in the registry.
WarmEntries ==
  SyncedEntries(reg.count,
                [i \in Apps |-> [reg.apps[i] EXCEPT !.loaded = FALSE]], tstat)

LEMMA WarmFacts ==
  ASSUME SessionInv, WarmInit
  PROVE  /\ Known = 1 .. reg.count /\ SyncedStatus(reg.count, reg.apps, tstat) = tstat
         /\ \A i \in Known : reg.apps[i].tok # 0 =>
              /\ reg.apps[i].tok \in Tokens
              /\ tstat[reg.apps[i].tok] # "free" /\ tapp[reg.apps[i].tok] = i
              /\ tstat[reg.apps[i].tok] = "loaded" /\ reg.apps[i].basic =>
                   reg.apps[i].ready
         /\ WarmEntries \in [Apps -> Entry]
         /\ \A i \in Apps :
              /\ WarmEntries[i].tok = reg.apps[i].tok
              /\ WarmEntries[i].basic = reg.apps[i].basic
              /\ WarmEntries[i].ready = reg.apps[i].ready
              /\ WarmEntries[i].core = reg.apps[i].core
              /\ WarmEntries[i].code = reg.apps[i].code
              /\ WarmEntries[i].loaded => i <= reg.count /\ WarmEntries[i].tok # 0
              /\ i <= reg.count /\ WarmEntries[i].tok # 0 =>
                   (WarmEntries[i].loaded <=> tstat[WarmEntries[i].tok] = "loaded")
         /\ Mirrored(reg.count, WarmEntries, tstat)
         /\ Distinct(reg.count, WarmEntries, tstat)
<1> DEFINE n   == reg.count
           r0  == [i \in Apps |-> [reg.apps[i] EXCEPT !.loaded = FALSE]]
           st1 == SyncedStatus(n, reg.apps, tstat)
           r1  == SyncedEntries(n, r0, st1)
<1>1. /\ pc = "return" /\ RegistryValid
      /\ count' = n /\ ram' = r1
      /\ tstat' = MirroredStatus(n, r1, st1)
      /\ tapp' = MirroredApp(n, r1, st1)
      /\ reg' = Published(n, r1)
  BY DEF WarmInit
<1>2. /\ IInv /\ pc # "off" /\ Entries = reg.apps /\ Away
      /\ ~AtLauncher /\ n \in 0 .. MaxApps /\ reg.apps \in [Apps -> Entry]
      /\ tstat \in [Tokens -> Status] /\ Known \subseteq Apps
  BY <1>1, EntriesAt, StateFacts DEF SessionInv, Away, AtLauncher, Known,
                                     AppPCs
<1>3. Known = 1 .. n
  <2>1. Known \subseteq 1 .. n
    BY <1>2 DEF SessionInv, CatalogInSession
  <2>2. \A i \in 1 .. n : i \in Apps /\ file[i] # None
    BY <1>1, <1>2, AppsFact DEF RegistryValid
  <2> QED
    BY <2>1, <2>2 DEF Known
<1>4. st1 = tstat
  <2>1. saved # 0 => tstat[saved] = "loaded"
    BY <1>2 DEF SessionInv, JobInSession
  <2>2. saved # 0 => [tstat EXCEPT ![saved] = "loaded"] = tstat
    BY <1>2, <2>1
  <2> QED
    BY <2>2 DEF SyncedStatus
<1>5. \A i \in Known : reg.apps[i].tok # 0 =>
        /\ reg.apps[i].tok \in Tokens
        /\ tstat[reg.apps[i].tok] # "free" /\ tapp[reg.apps[i].tok] = i
        /\ tstat[reg.apps[i].tok] = "loaded" /\ reg.apps[i].basic =>
             reg.apps[i].ready
  <2>1. \A i \in Known : reg.apps[i] \in Entry
    BY <1>2
  <2> QED
    BY <1>1, <1>2, <2>1 DEF SessionInv, TokensInSession, Entry
<1>6. /\ r1 \in [Apps -> Entry]
      /\ \A i \in Apps : /\ r1[i].tok = reg.apps[i].tok
                         /\ r1[i].basic = reg.apps[i].basic
                         /\ r1[i].ready = reg.apps[i].ready
                         /\ r1[i].core = reg.apps[i].core
                         /\ r1[i].code = reg.apps[i].code
                         /\ r1[i].loaded => i <= n /\ r1[i].tok # 0
                         /\ i <= n /\ r1[i].tok # 0 =>
                              (r1[i].loaded <=> tstat[r1[i].tok] = "loaded")
  <2>1. /\ r0 \in [Apps -> Entry]
        /\ \A i \in Apps : r0[i].tok = reg.apps[i].tok
                           /\ r0[i].basic = reg.apps[i].basic
                           /\ r0[i].ready = reg.apps[i].ready
                           /\ r0[i].core = reg.apps[i].core
                           /\ r0[i].code = reg.apps[i].code
                           /\ r0[i].loaded = FALSE
    BY <1>2 DEF Entry
  <2> HIDE DEF r0
  <2>2. \A i \in Apps :
          r1[i] = IF i <= n /\ r0[i].tok # 0
                  THEN [r0[i] EXCEPT !.loaded = (tstat[r0[i].tok] = "loaded")]
                  ELSE r0[i]
    BY <1>4 DEF SyncedEntries
  <2>3. ASSUME NEW i \in Apps
        PROVE  /\ r1[i] \in Entry /\ r1[i].tok = r0[i].tok
               /\ r1[i].basic = r0[i].basic /\ r1[i].ready = r0[i].ready
               /\ r1[i].core = r0[i].core /\ r1[i].code = r0[i].code
               /\ r1[i].loaded => i <= n /\ r1[i].tok # 0
               /\ i <= n /\ r1[i].tok # 0 =>
                    (r1[i].loaded <=> tstat[r1[i].tok] = "loaded")
    <3>1. r0[i] \in Entry /\ r0[i].loaded = FALSE
      BY <2>1
    <3> QED
      BY <2>2, <3>1 DEF Entry
  <2>4. r1 = [i \in Apps |-> r1[i]]
    BY DEF SyncedEntries
  <2> HIDE DEF r1
  <2> QED
    BY <2>1, <2>3, <2>4
<1>7. WarmEntries = r1
  BY <1>4 DEF WarmEntries
<1>8. Mirrored(n, r1, tstat)
  BY <1>1, <1>4 DEF Mirrored
<1> HIDE DEF r1, n
<1>9. Distinct(n, r1, tstat)
  BY <1>2, <1>3, <1>5, <1>6 DEF Distinct
<1> QED
  BY <1>3, <1>4, <1>5, <1>6, <1>7, <1>8, <1>9 DEF n

\* The launcher starts with the registry it published.
LEMMA WarmInitSession ==
  ASSUME SessionInv, IInv', WarmInit
  PROVE  SessionInv'
<1> DEFINE n   == reg.count
           bt  == Prepare(hdr, btype)
           r1  == WarmEntries
           hk  == SeededHotkeys(n, r1, hotkey)
<1>1. /\ pc = "return" /\ pc' = "menu" /\ job' = NoJob /\ saved' = 0
      /\ RegistryValid
      /\ btype' = Anchored(SetType(bt, LoadedBanks(n, r1, tstat), "app"))
      /\ SetHotkeys(hk, r1)
      /\ UNCHANGED <<hdr, lookup, file, recs, clip, image>>
  BY WarmFacts DEF WarmInit, WarmEntries, bankVars
<1>2. /\ IInv /\ pc # "off" /\ Entries = reg.apps /\ hdr /\ Away
      /\ ~AtLauncher /\ AtLauncher' /\ pc' # "off" /\ job'.kind = "none"
      /\ n \in 0 .. MaxApps /\ reg.apps \in [Apps -> Entry]
      /\ tstat \in [Tokens -> Status] /\ Sound(btype)
      /\ btype \in [Banks -> BankTypes] /\ Sound(bt)
      /\ Known \subseteq Apps /\ Known' = Known
  BY <1>1, EntriesAt, StateFacts, IInvFacts, PrepareFact
     DEF SessionInv, Away, AtLauncher, Known, NoJob, AppPCs
<1>3. Known = 1 .. n
  BY WarmFacts
<1>5. \A i \in Known : reg.apps[i].tok # 0 =>
        /\ reg.apps[i].tok \in Tokens
        /\ tstat[reg.apps[i].tok] # "free" /\ tapp[reg.apps[i].tok] = i
        /\ tstat[reg.apps[i].tok] = "loaded" /\ reg.apps[i].basic =>
             reg.apps[i].ready
  BY WarmFacts
<1>6. /\ r1 \in [Apps -> Entry]
      /\ \A i \in Apps : /\ r1[i].tok = reg.apps[i].tok
                         /\ r1[i].basic = reg.apps[i].basic
                         /\ r1[i].ready = reg.apps[i].ready
                         /\ r1[i].core = reg.apps[i].core
                         /\ r1[i].code = reg.apps[i].code
                         /\ r1[i].loaded =>
                              /\ r1[i].tok # 0
                              /\ tstat[r1[i].tok] = "loaded"
  BY WarmFacts
<1>7. SetHotkeys(hk, r1)
  BY <1>1
<1>8. Mirrored(n, r1, tstat)
  BY WarmFacts
<1>9. /\ pc' = "menu" /\ job' = NoJob /\ saved' = 0
      /\ btype' = Anchored(SetType(bt, LoadedBanks(n, r1, tstat), "app"))
      /\ UNCHANGED <<hdr, lookup, file, recs, clip, image>>
  BY <1>1
<1> HIDE DEF r1, bt, n, hk
<1>10. Distinct(n, r1, tstat)
  BY WarmFacts DEF n, r1
<1>11. /\ CatalogInSession' /\ RegistryInStep' /\ TokensInSession'
       /\ Entries' = r1
       /\ \A j \in 1 .. n : r1[j].tok # 0 =>
            tstat'[r1[j].tok] # "free" /\ tapp'[r1[j].tok] = j
       /\ \A u \in Tokens : tstat'[u] # "free" => tstat[u] # "free"
       /\ \A u \in Tokens : tstat'[u] = "loaded" =>
            /\ tapp'[u] \in 1 .. n /\ r1[tapp'[u]].tok = u
            /\ r1[tapp'[u]].loaded
  <2>1. \A j \in Known' : file'[j] \in Offered
    BY <1>2, <1>9 DEF SessionInv, CatalogInSession
  <2>2. \A j \in Apps : j > n => r1[j].tok = 0
    BY <1>2, <1>6 DEF SessionInv, CatalogInSession, n
  <2>3. \A j \in 1 .. n : r1[j].tok # 0 /\ r1[j].loaded /\ r1[j].basic =>
          r1[j].ready
    BY <1>2, <1>3, <1>5, <1>6
  <2> QED
    BY <1>2, <1>3, <1>6, <1>8, <1>10, <2>1, <2>2, <2>3, MirroredStep
<1>12. \A b \in Banks : btype[b] \in ClientTypes => bt[b] = btype[b]
  BY <1>2, BankAssumption
     DEF Sound, Fixed, FixedType, Prepare, bt, ClientTypes, FixedTypes, Banks
<1>13. \A b \in Banks : btype[b] \in ClientTypes => btype'[b] = btype[b]
  <2>1. \A t \in Tokens : tstat[t] # "free" => bt[lookup[t]] = "app"
    BY <1>2, <1>12, UsesTyped DEF ClientTypes
  <2>2. SetType(bt, LoadedBanks(n, r1, tstat), "app") = bt
    <3>1. \A b \in LoadedBanks(n, r1, tstat) : bt[b] = "app"
      BY <1>2, <1>6, <2>1, LoadedTyped
    <3>2. bt \in [Banks -> BankTypes]
      BY <1>2 DEF Sound
    <3> QED
      BY <3>1, <3>2, SameType
  <2>3. btype' = bt
    BY <1>2, <1>9, <2>2, SameAnchor
  <2> QED
    BY <1>12, <2>3
<1>14. JobInSession'
  BY <1>2, <1>9 DEF JobInSession
<1>15. BanksInSession'
  <2>1. \A t \in Tokens : tstat'[t] # "free" => btype'[lookup[t]] = "app"
    BY <1>2, <1>11, <1>13, UsesTyped DEF ClientTypes
  <2>2. \A t, u \in Tokens : tstat[t] # "free" /\ tstat[u] # "free"
                             /\ lookup[t] = lookup[u] => t = u
    BY <1>2 DEF SessionInv, BanksInSession
  <2>3. \A x \in recs : btype'[x.bank] = x.kind
    BY <1>2, <1>13, UsesTyped DEF ClientTypes, Kinds
  <2>4. \A x, y \in recs : x.kind = "alloc" /\ y.kind = "alloc"
                           /\ x.bank = y.bank => x = y
    BY <1>2 DEF SessionInv, BanksInSession
  <2>5. \A b \in clip : btype'[b] = "clip"
    BY <1>2, <1>13, UsesTyped DEF ClientTypes
  <2> QED
    BY <1>9, <1>11, <2>1, <2>2, <2>3, <2>4, <2>5 DEF BanksInSession
<1>16. BasicInSession'
  <2>1. \A j \in Known : /\ r1[j].core = reg.apps[j].core
                         /\ r1[j].code = reg.apps[j].code
    BY <1>2, <1>6
  <2>2. \A j \in Known :
          /\ reg.apps[j].core # 0 => btype'[reg.apps[j].core] = "rbcore"
          /\ reg.apps[j].code # 0 => btype'[reg.apps[j].code] = "rbcode"
    BY <1>2, <1>13, UsesTyped DEF ClientTypes
  <2> QED
    BY <1>2, <1>9, <1>11, <2>1, <2>2 DEF SessionInv, BasicInSession
<1>17. ImagesInSession'
  <2>1. ASSUME NEW u \in Tokens, tstat'[u] = "loaded"
        PROVE  image[lookup[u]] \in {file[tapp'[u]], "launcher"}
    <3>1. PICK j \in Known : tapp'[u] = j /\ r1[j].tok = u /\ r1[j].loaded
      BY <1>3, <1>11, <2>1
    <3>2. tstat[u] = "loaded" /\ reg.apps[j].tok = u /\ u # 0
      BY <1>2, <1>6, <3>1, AppsFact
    <3>3. tapp[u] = j
      BY <1>5, <3>2
    <3> QED
      BY <1>2, <3>1, <3>2, <3>3 DEF SessionInv, ImagesInSession
  <2> QED
    BY <1>9, <2>1 DEF ImagesInSession
<1>18. AppInSession'
  BY <1>9 DEF AppInSession, AppPCs
<1>19. HotkeysInSession'
  <2>1. Extends(hk, n, r1)
    BY SeededExtends DEF hk, Extends
  <2>2. ASSUME NEW s \in Slots \ stale, hotkey[s] # 0
        PROVE  \E j \in 1 .. n : r1[j].tok = hotkey[s] /\ bound[s] = file[j]
    <3>1. /\ tapp[hotkey[s]] \in Known
          /\ reg.apps[tapp[hotkey[s]]].tok = hotkey[s]
          /\ bound[s] = file[tapp[hotkey[s]]]
      BY <1>2, <2>2 DEF SessionInv, HotkeysInSession
    <3>2. r1[tapp[hotkey[s]]].tok = hotkey[s]
      BY <1>2, <1>6, <3>1
    <3> QED
      BY <1>3, <3>1, <3>2
  <2>3. \A s \in Slots : hk[s] # hotkey[s] /\ hk[s] # 0 =>
          \E j \in 1 .. n : r1[j].tok = hk[s]
    BY <2>1 DEF Extends
  <2>4. \A j \in Apps : j > n => r1[j].tok = 0
    BY <1>2, <1>6 DEF SessionInv, CatalogInSession, n
  <2>5. \A j, k \in 1 .. n : r1[j].tok # 0 /\ r1[j].tok = r1[k].tok => j = k
    BY <1>10 DEF Distinct
  <2> QED
    BY <1>2, <1>3, <1>6, <1>7, <1>9, <1>11, <2>2, <2>3, <2>4, <2>5,
       SetHotkeysSession
<1> QED
  BY <1>11, <1>14, <1>15, <1>16, <1>17, <1>18, <1>19 DEF SessionInv

\* An app that returns finds the launcher's loaded tokens as it left them.
LEMMA WarmKeeps ==
  ASSUME SessionInv, WarmInit, NEW t \in Tokens, tstat[t] = "loaded"
  PROVE  tstat'[t] = "loaded" /\ tapp'[t] = tapp[t]
<1> DEFINE n == reg.count
           r == WarmEntries
           i == tapp[t]
<1>1. pc = "return"
  BY DEF WarmInit
<1>2. /\ IInv /\ pc # "off" /\ Entries = reg.apps /\ n \in 0 .. MaxApps
      /\ tstat \in [Tokens -> Status] /\ t # 0
  BY <1>1, EntriesAt, StateFacts, AppsFact DEF SessionInv, Away, AppPCs
<1>3. i \in Known /\ reg.apps[i].tok = t
  BY <1>2 DEF SessionInv, TokensInSession
<1>4. /\ i \in 1 .. n /\ i \in Apps /\ r \in [Apps -> Entry]
      /\ Distinct(n, r, tstat)
  BY <1>3, WarmFacts DEF Known
<1>5. r[i].tok = t /\ r[i].loaded
  <2>1. i <= n
    BY <1>2, <1>4
  <2>2. r[i].tok = t
    BY <1>3, <1>4, WarmFacts
  <2> QED
    BY <1>2, <1>4, <2>1, <2>2, WarmFacts
<1>6. /\ tstat' = MirroredStatus(n, r, tstat)
      /\ tapp' = MirroredApp(n, r, tstat)
  BY WarmFacts DEF Mirrored
<1> HIDE DEF n, r, i
<1>7. /\ MirroredApp(n, r, tstat)[r[i].tok] = i
      /\ MirroredStatus(n, r, tstat)[r[i].tok] = "loaded" <=> r[i].loaded
  BY <1>2, <1>4, <1>5, MirrorExact DEF n
<1> QED
  BY <1>5, <1>6, <1>7 DEF i

-----------------------------------------------------------------------------
(***************************************************************************)
(* Every step                                                              *)
(***************************************************************************)
LEMMA InitSession ==
  ASSUME NotShrunk, Init
  PROVE  SessionInv
<1>1. /\ IInv /\ pc = "off" /\ job = NoJob /\ Known = {}
      /\ hdr => \A b \in clip : btype[b] = "clip"
  BY InitIInv, InitTables DEF Init, Known
<1>2. /\ CatalogInSession /\ JobInSession /\ RegistryInStep
      /\ TokensInSession
  BY <1>1 DEF CatalogInSession, JobInSession, RegistryInStep, TokensInSession,
              AtLauncher, Away, NoJob, AppPCs
<1>3. /\ BanksInSession /\ BasicInSession /\ ImagesInSession
      /\ AppInSession /\ HotkeysInSession
  BY <1>1 DEF BanksInSession, BasicInSession, ImagesInSession, AppInSession,
              HotkeysInSession, AppPCs
<1> QED
  BY <1>1, <1>2, <1>3 DEF SessionInv

LEMMA LauncherSession ==
  ASSUME SessionInv, IInv', LauncherNext
  PROVE  SessionInv'
<1>1. CASE Boot \/ BootError \/ WarmInit \/ ColdInit \/ ColdInitError
  BY <1>1, ColdSession, WarmInitSession
<1>2. CASE \E i \in Apps : SelectLoad(i) \/ SelectLaunch(i) \/ Unload(i)
  BY <1>2, SelectSession, UnloadSession
<1>3. CASE \E p \in Manifests : \/ SelectManifest(p)
                               \/ \E i \in Apps : SelectKnownManifest(p, i)
  BY <1>3, SelectManifestSession, SelectSession DEF SelectKnownManifest
<1>4. CASE KeepToken \/ BindToken \/ NoToken \/ DmaLoadFails
  BY <1>4, AllocSession, BindTokenSession, DmaLoadFailsSession
<1>5. CASE PreloadFound \/ PreloadNotFound
  BY <1>5, PreloadSession DEF PreloadFound, PreloadNotFound
<1>6. CASE LoadResources \/ FinishLoad \/ LoadFailed \/ ManifestFailed
  BY <1>6, LoadResourcesSession, FinishLoadSession, LoadFailedSession,
     ManifestFailedSession
<1>7. CASE PrepareLaunch \/ Start
  BY <1>7, PrepareLaunchSession, StartSession
<1> QED
  BY <1>1, <1>2, <1>3, <1>4, <1>5, <1>6, <1>7 DEF LauncherNext

LEMMA AppSession ==
  ASSUME NoTrusting, SessionInv, IInv', AppNext
  PROVE  SessionInv'
<1>1. CASE \/ AppInit \/ ResumeNotes \/ StartNotes \/ TakeNote \/ NoteRefused
           \/ \E b \in held : GiveBack(b)
  BY <1>1, AppInitSession, TakeNoteSession, GiveBackSession
<1>2. CASE NoRoom \/ Quit
  BY <1>2, ResetSession, QuitSession
<1>3. CASE ClipCopy \/ ClipFree(clip) \/ \E b \in clip : ClipFree({b})
  BY <1>3, ClipSession
<1>4. CASE \E s \in Slots : BindHotkey(s)
  BY <1>4, BindHotkeySession
<1>5. CASE Return \/ \E t \in Tokens : SwitchTo(t)
  BY <1>5, ReturnSession, SwitchToSession
<1>6. CASE Reset
  BY <1>6, ResetSession
<1> QED
  BY <1>1, <1>2, <1>3, <1>4, <1>5, <1>6 DEF AppNext

LEMMA NextSession ==
  ASSUME NoTrusting, SessionInv, [Next]_vars
  PROVE  SessionInv'
<1>1. IInv'
  BY NextIInv DEF SessionInv
<1>2. CASE Next
  BY <1>1, <1>2, LauncherSession, AppSession DEF Next
<1>3. CASE UNCHANGED vars
  <2>1. UNCHANGED <<hdr, btype, lookup, tstat, tapp, reg, file, recs, hotkey,
                    clip, image, pc, job, count, ram, cur, saved, running,
                    held, bound, stale>>
    BY <1>3 DEF vars, tokenVars, catalogVars, bankVars, menuVars, shimVars,
                appVars, hotkeyVars
  <2>2. /\ Known' = Known /\ Entries' = Entries
        /\ AtLauncher' = AtLauncher /\ Away' = Away
    BY <2>1 DEF Known, Entries, Elsewhere, AtLauncher, Away, AppPCs
  <2>3. /\ CatalogInSession' /\ JobInSession' /\ RegistryInStep'
        /\ TokensInSession'
    BY <2>1, <2>2
       DEF SessionInv, CatalogInSession, JobInSession, RegistryInStep,
           TokensInSession
  <2>4. BanksInSession' /\ BasicInSession' /\ ImagesInSession'
    BY <2>1, <2>2
       DEF SessionInv, BanksInSession, BasicInSession, ImagesInSession
  <2>5. AppInSession' /\ HotkeysInSession'
    BY <2>1, <2>2 DEF SessionInv, AppInSession, HotkeysInSession, AppPCs
  <2> QED
    BY <1>1, <2>3, <2>4, <2>5 DEF SessionInv
<1> QED
  BY <1>2, <1>3

-----------------------------------------------------------------------------
(***************************************************************************)
(* The theorems                                                            *)
(***************************************************************************)

\* Through cold and warm starts, loads with their failures and rollbacks,
\* unloads, launches, switches, returns, quits and a reset at any moment,
\* launcher.c's entries, the registry it publishes, the token tables, the
\* bank types, the resource records, the snapshots and the hotkeys keep
\* agreeing.
THEOREM SessionInvariant ==
  ASSUME NotShrunk, NoTrusting
  PROVE  Spec => []SessionInv
<1>1. Init => SessionInv
  BY InitSession
<1>2. SessionInv /\ [Next]_vars => SessionInv'
  BY NextSession
<1> QED
  BY <1>1, <1>2, PTL DEF Spec

\* A loaded token's bank holds the image of the token's app, or the
\* launcher's when the drive did not deliver: launch_app never starts one
\* app from another one's snapshot.
THEOREM SnapshotsShowTheirApps ==
  ASSUME NotShrunk, NoTrusting
  PROVE  Spec => []SnapshotImage
<1>1. SessionInv => SnapshotImage
  <2> SUFFICES ASSUME SessionInv, pc # "off", NEW t \in Tokens,
                      tstat[t] = "loaded"
               PROVE  /\ tapp[t] # 0
                      /\ image[lookup[t]] \in {file[tapp[t]], "launcher"}
    BY DEF SnapshotImage
  <2>1. tapp[t] \in Known
    BY DEF SessionInv, TokensInSession
  <2>2. tapp[t] # 0
    BY <2>1, AppsFact DEF Known
  <2> QED
    BY <2>2 DEF SessionInv, ImagesInSession
<1> QED
  BY <1>1, SessionInvariant, PTL

\* The shim's current token is the running program's: leaving an app writes
\* its memory into its own snapshot bank, although the stash looks at no
\* table but the token lookup.
THEOREM AppsRunAtHome ==
  ASSUME NotShrunk, NoTrusting
  PROVE  Spec => []RunsAtHome
<1>1. SessionInv => RunsAtHome
  <2> SUFFICES ASSUME SessionInv, pc \in AppPCs
               PROVE  /\ cur # 0 /\ tstat[cur] # "free" /\ tapp[cur] # 0
                      /\ file[tapp[cur]] = running
    BY DEF RunsAtHome, AppPCs
  <2> QED
    BY AppAway, AppsFact DEF Known
<1> QED
  BY <1>1, SessionInvariant, PTL

\* The note banks an app works with cannot be given away by an allocation:
\* what validate_note_banks accepted, or reu_alloc_owned_bank found, stays
\* allocated while the app runs.
THEOREM HeldBanksStayAllocated ==
  ASSUME NotShrunk, NoTrusting
  PROVE  Spec => []HeldBanksAllocated
<1>1. SessionInv => HeldBanksAllocated
  BY DEF SessionInv, AppInSession, HeldBanksAllocated, AppPCs
<1> QED
  BY <1>1, SessionInvariant, PTL

\* A hotkey written since the last cold start starts the app it was bound
\* for, though unloads and rollbacks free tokens and loads give them again.
THEOREM HotkeysStartTheirApps ==
  ASSUME NotShrunk, NoTrusting
  PROVE  Spec => []HotkeyInSession
<1>1. SessionInv => HotkeyInSession
  <2> SUFFICES ASSUME SessionInv, pc # "off", NEW s \in Slots \ stale,
                      hotkey[s] # 0
               PROVE  Target(s) = bound[s]
    BY DEF HotkeyInSession
  <2>1. /\ tstat[hotkey[s]] # "free" /\ tapp[hotkey[s]] \in Known
        /\ bound[s] = file[tapp[hotkey[s]]]
    BY DEF SessionInv, HotkeysInSession
  <2>2. tapp[hotkey[s]] # 0
    BY <2>1, AppsFact DEF Known
  <2> QED
    BY <2>1, <2>2 DEF Target
<1> QED
  BY <1>1, SessionInvariant, PTL

\* The users of banks, one kind at a time.
LEMMA UseKinds ==
  ASSUME SessionInv, pc # "off", NEW x \in BankUses
  PROVE  \/ \E t \in Tokens : /\ tstat[t] # "free"
                              /\ x = <<"app", t, lookup[t]>>
         \/ \E rec \in recs : x = <<rec.kind, rec.app, rec.bank>>
         \/ \E i \in Known : /\ Entries[i].core # 0
                             /\ x = <<"rbcore", i, Entries[i].core>>
         \/ \E i \in Known : /\ Entries[i].code # 0
                             /\ x = <<"rbcode", i, Entries[i].code>>
         \/ \E b \in clip : x = <<"clip", 0, b>>
<1>1. KnownApps \subseteq Known
  <2>1. /\ count \in 0 .. MaxApps /\ reg.count \in 0 .. MaxApps
    BY StateFacts DEF SessionInv
  <2>2. 1 .. count \subseteq Apps /\ 1 .. reg.count \subseteq Apps
    BY <2>1, AppsFact
  <2> QED
    BY <2>2 DEF KnownApps, Known
<1>2. CASE x \in SnapshotUses
  BY <1>2 DEF SnapshotUses
<1>3. CASE x \in RecordUses
  BY <1>3 DEF RecordUses
<1>4. CASE x \in AppUses
  <2>1. x[3] # 0
    BY <1>4 DEF AppUses
  <2>2. PICK i \in KnownApps : \/ x = <<"rbcore", i, Entries[i].core>>
                               \/ x = <<"rbcode", i, Entries[i].code>>
    BY <1>4 DEF AppUses
  <2> QED
    BY <1>1, <2>1, <2>2
<1>5. CASE x \in ClipboardUses
  BY <1>5 DEF ClipboardUses
<1> QED
  BY <1>2, <1>3, <1>4, <1>5 DEF BankUses

\* The type of a bank tells which kind of user x is of, and the bank which
\* one of that kind.
LEMMA UseType ==
  ASSUME SessionInv, pc # "off", NEW x \in BankUses
  PROVE  /\ btype[x[3]] = x[1]
         /\ x[1] = "app" => /\ x[2] \in Tokens /\ tstat[x[2]] # "free"
                            /\ x = <<"app", x[2], lookup[x[2]]>>
         /\ x[1] = "alloc" =>
              \E rec \in recs : /\ rec.kind = "alloc"
                                /\ x = <<"alloc", rec.app, rec.bank>>
         /\ x[1] = "rbcore" => /\ x[2] \in Known /\ Entries[x[2]].core # 0
                               /\ x = <<"rbcore", x[2], Entries[x[2]].core>>
         /\ x[1] = "rbcode" => /\ x[2] \in Known /\ Entries[x[2]].code # 0
                               /\ x = <<"rbcode", x[2], Entries[x[2]].code>>
         /\ x[1] = "clip" => x = <<"clip", 0, x[3]>>
         /\ x[1] \in {"app", "alloc", "rbcore", "rbcode", "clip"}
<1>1. CASE \E t \in Tokens : tstat[t] # "free" /\ x = <<"app", t, lookup[t]>>
  BY <1>1, UsesTyped
<1>2. CASE \E rec \in recs : x = <<rec.kind, rec.app, rec.bank>>
  <2>1. PICK rec \in recs : x = <<rec.kind, rec.app, rec.bank>>
    BY <1>2
  <2>2. /\ btype[rec.bank] = rec.kind
        /\ rec.kind \in {"alloc", "rbcore", "rbcode"} /\ rec.bank # 0
    <3>1. rec.bank # 0
      BY StateFacts, SkipFact DEF SessionInv, Record
    <3> QED
      BY <3>1, UsesTyped DEF Kinds
  <2>3. /\ rec.kind = "rbcore" =>
             rec.app \in Known /\ Entries[rec.app].core = rec.bank
        /\ rec.kind = "rbcode" =>
             rec.app \in Known /\ Entries[rec.app].code = rec.bank
    BY DEF SessionInv, BasicInSession
  <2> QED
    BY <2>1, <2>2, <2>3
<1>3. CASE \E i \in Known : /\ Entries[i].core # 0
                            /\ x = <<"rbcore", i, Entries[i].core>>
  BY <1>3, UsesTyped
<1>4. CASE \E i \in Known : /\ Entries[i].code # 0
                            /\ x = <<"rbcode", i, Entries[i].code>>
  BY <1>4, UsesTyped
<1>5. CASE \E b \in clip : x = <<"clip", 0, b>>
  BY <1>5, UsesTyped
<1> QED
  BY <1>1, <1>2, <1>3, <1>4, <1>5, UseKinds

\* No two users of the REU count on one bank: not two snapshots, resource
\* records, ReadyBASIC apps or clipboard entries, nor two of different
\* kinds, whatever was loaded, unloaded, rolled back or reset before.
THEOREM BanksHaveOneOwner ==
  ASSUME NotShrunk, NoTrusting
  PROVE  Spec => []BanksOwnedOnce
<1>1. SessionInv => BanksOwnedOnce
  <2> SUFFICES ASSUME SessionInv, pc # "off"
               PROVE  /\ \A x, y \in BankUses : x[3] = y[3] => x = y
                      /\ \A x \in BankUses : btype[x[3]] = x[1]
    BY DEF BanksOwnedOnce
  <2>1. \A x \in BankUses : btype[x[3]] = x[1]
    BY UseType
  <2>2. ASSUME NEW x \in BankUses, NEW y \in BankUses, x[3] = y[3]
        PROVE  x = y
    <3>1. x[1] = y[1] /\ x[1] \in {"app", "alloc", "rbcore", "rbcode", "clip"}
      BY <2>1, <2>2, UseType
    <3>2. CASE x[1] = "app"
      <4>1. /\ x[2] \in Tokens /\ tstat[x[2]] # "free"
            /\ x = <<"app", x[2], lookup[x[2]]>>
            /\ y[2] \in Tokens /\ tstat[y[2]] # "free"
            /\ y = <<"app", y[2], lookup[y[2]]>>
        BY <3>1, <3>2, UseType
      <4>2. lookup[x[2]] = lookup[y[2]]
        BY <2>2, <4>1
      <4>3. x[2] = y[2]
        BY <4>1, <4>2 DEF SessionInv, BanksInSession
      <4> QED
        BY <4>1, <4>3
    <3>3. CASE x[1] = "alloc"
      <4>1. PICK p \in recs : p.kind = "alloc" /\ x = <<"alloc", p.app, p.bank>>
        BY <3>3, UseType
      <4>2. PICK q \in recs : q.kind = "alloc" /\ y = <<"alloc", q.app, q.bank>>
        BY <3>1, <3>3, UseType
      <4>3. p = q
        BY <2>2, <4>1, <4>2 DEF SessionInv, BanksInSession
      <4> QED
        BY <4>1, <4>2, <4>3
    <3>4. CASE x[1] = "rbcore"
      <4>1. /\ x[2] \in Known /\ Entries[x[2]].core # 0
            /\ x = <<"rbcore", x[2], Entries[x[2]].core>>
            /\ y[2] \in Known
            /\ y = <<"rbcore", y[2], Entries[y[2]].core>>
        BY <3>1, <3>4, UseType
      <4>2. Entries[x[2]].core = Entries[y[2]].core
        BY <2>2, <4>1
      <4>3. x[2] = y[2]
        BY <4>1, <4>2 DEF SessionInv, BasicInSession
      <4> QED
        BY <4>1, <4>3
    <3>5. CASE x[1] = "rbcode"
      <4>1. /\ x[2] \in Known /\ Entries[x[2]].code # 0
            /\ x = <<"rbcode", x[2], Entries[x[2]].code>>
            /\ y[2] \in Known
            /\ y = <<"rbcode", y[2], Entries[y[2]].code>>
        BY <3>1, <3>5, UseType
      <4>2. Entries[x[2]].code = Entries[y[2]].code
        BY <2>2, <4>1
      <4>3. x[2] = y[2]
        BY <4>1, <4>2 DEF SessionInv, BasicInSession
      <4> QED
        BY <4>1, <4>3
    <3>6. CASE x[1] = "clip"
      BY <2>2, <3>1, <3>6, UseType
    <3> QED
      BY <3>1, <3>2, <3>3, <3>4, <3>5, <3>6
  <2> QED
    BY <2>1, <2>2
<1> QED
  BY <1>1, SessionInvariant, PTL

-----------------------------------------------------------------------------
(***************************************************************************)
(* No step of a session loses a bank: whatever is allocated stays          *)
(* reachable from a token, a resource record, an app's entry or the        *)
(* clipboard, but for the snapshot of a manifest app whose load was rolled *)
(* back.  And an app that returns to the launcher finds every loaded app   *)
(* still loaded.                                                           *)
(***************************************************************************)

(***************************************************************************)
(* What an orphan is                                                       *)
(***************************************************************************)

\* A token, a record, an app or the clipboard counts on bank b.
Reached(b) ==
  \/ \E t \in Tokens : tstat[t] # "free" /\ lookup[t] = b
  \/ \E rec \in recs : rec.bank = b
  \/ \E i \in Known : Entries[i].core = b \/ Entries[i].code = b
  \/ b \in clip

Taken(b) == btype[b] \notin {"free", "unavail"}

LEMMA KnownNow ==
  ASSUME SessionInv, pc # "off"
  PROVE  KnownApps = Known
<1>1. count \in 0 .. MaxApps /\ reg.count \in 0 .. MaxApps
  BY StateFacts DEF SessionInv
<1>2. CASE AtLauncher
  <2>1. Known = 1 .. count /\ ~Elsewhere
    BY <1>2 DEF SessionInv, CatalogInSession, AtLauncher, Elsewhere, AppPCs
  <2>2. \A i \in 1 .. count : file[i] # None
    BY <2>1 DEF Known
  <2>3. KnownApps = {i \in 1 .. count : file[i] # None}
    BY <2>1 DEF KnownApps
  <2> QED
    BY <2>1, <2>2, <2>3
<1>3. CASE ~AtLauncher
  <2>1. Known \subseteq 1 .. reg.count /\ Elsewhere
    BY <1>3 DEF SessionInv, CatalogInSession, AtLauncher, Away, Elsewhere,
                AppPCs
  <2>2. 1 .. reg.count \subseteq Apps
    BY <1>1, AppsFact
  <2>3. KnownApps = {i \in 1 .. reg.count : file[i] # None}
    BY <2>1 DEF KnownApps
  <2> QED
    BY <2>1, <2>2, <2>3 DEF Known
<1> QED
  BY <1>2, <1>3

LEMMA KnownNext ==
  ASSUME SessionInv', pc' # "off"
  PROVE  KnownApps' = Known'
<1>1. count' \in 0 .. MaxApps /\ reg'.count \in 0 .. MaxApps
  BY DEF SessionInv, IInv, TypeOK
<1>2. CASE AtLauncher'
  <2>1. Known' = 1 .. count' /\ ~Elsewhere'
    BY <1>2 DEF SessionInv, CatalogInSession, AtLauncher, Elsewhere, AppPCs
  <2>2. \A i \in 1 .. count' : file'[i] # None
    BY <2>1 DEF Known
  <2>3. KnownApps' = {i \in 1 .. count' : file'[i] # None}
    BY <2>1 DEF KnownApps
  <2> QED
    BY <2>1, <2>2, <2>3
<1>3. CASE ~AtLauncher'
  <2>1. Known' \subseteq 1 .. reg'.count /\ Elsewhere'
    BY <1>3 DEF SessionInv, CatalogInSession, AtLauncher, Away, Elsewhere,
                AppPCs
  <2>2. 1 .. reg'.count \subseteq Apps
    BY <1>1, AppsFact
  <2>3. KnownApps' = {i \in 1 .. reg'.count : file'[i] # None}
    BY <2>1 DEF KnownApps
  <2> QED
    BY <2>1, <2>2, <2>3 DEF Known
<1> QED
  BY <1>2, <1>3

\* A use of a bank other than bank 0 is one of four kinds.
LEMMA UseReaches ==
  ASSUME NEW b, b # 0, KnownApps = Known
  PROVE  /\ (\E x \in BankUses : x[3] = b) => Reached(b)
         /\ Reached(b) => \E x \in BankUses : x[3] = b
<1>1. \A t \in Tokens : <<"app", t, lookup[t]>>[3] = lookup[t]
  OBVIOUS
<1>2. (\E x \in SnapshotUses : x[3] = b) <=>
        \E t \in Tokens : tstat[t] # "free" /\ lookup[t] = b
  <2>1. SnapshotUses = {<<"app", t, lookup[t]>> :
                           t \in {u \in Tokens : tstat[u] # "free"}}
    BY DEF SnapshotUses
  <2> QED
    BY <1>1, <2>1
<1>3. (\E x \in RecordUses : x[3] = b) <=> \E rec \in recs : rec.bank = b
  <2>1. RecordUses = {<<rec.kind, rec.app, rec.bank>> : rec \in recs}
    BY DEF RecordUses
  <2>2. \A rec \in recs : <<rec.kind, rec.app, rec.bank>>[3] = rec.bank
    OBVIOUS
  <2> QED
    BY <2>1, <2>2
<1>4. (\E x \in AppUses : x[3] = b) <=>
        \E i \in Known : Entries[i].core = b \/ Entries[i].code = b
  <2>1. \A i \in Known :
          /\ <<"rbcore", i, Entries[i].core>>[3] = Entries[i].core
          /\ <<"rbcode", i, Entries[i].code>>[3] = Entries[i].code
    OBVIOUS
  <2>2. \A x : x \in AppUses <=>
          /\ x[3] # 0
          /\ \E i \in Known : \/ x = <<"rbcore", i, Entries[i].core>>
                              \/ x = <<"rbcode", i, Entries[i].code>>
    BY DEF AppUses
  <2>3. ASSUME NEW x \in AppUses, x[3] = b
        PROVE  \E i \in Known : Entries[i].core = b \/ Entries[i].code = b
    BY <2>1, <2>2, <2>3
  <2>4. ASSUME NEW i \in Known, Entries[i].core = b \/ Entries[i].code = b
        PROVE  \E x \in AppUses : x[3] = b
    BY <2>1, <2>2, <2>4
  <2> QED
    BY <2>3, <2>4
<1>5. (\E x \in ClipboardUses : x[3] = b) <=> b \in clip
  <2>1. ClipboardUses = {<<"clip", 0, c>> : c \in clip}
    BY DEF ClipboardUses
  <2>2. \A c \in clip : <<"clip", 0, c>>[3] = c
    OBVIOUS
  <2> QED
    BY <2>1, <2>2
<1>6. BankUses =
        SnapshotUses \cup RecordUses \cup AppUses \cup ClipboardUses
  BY DEF BankUses
<1>7. (\E x \in BankUses : x[3] = b) <=>
        \/ \E x \in SnapshotUses : x[3] = b
        \/ \E x \in RecordUses : x[3] = b
        \/ \E x \in AppUses : x[3] = b
        \/ \E x \in ClipboardUses : x[3] = b
  BY <1>6
<1> QED
  BY <1>2, <1>3, <1>4, <1>5, <1>7 DEF Reached

LEMMA UseReachesNext ==
  ASSUME NEW b, b # 0, KnownApps' = Known'
  PROVE  /\ (\E x \in BankUses' : x[3] = b) => Reached(b)'
         /\ Reached(b)' => \E x \in BankUses' : x[3] = b
<1>1. \A t \in Tokens : <<"app", t, lookup'[t]>>[3] = lookup'[t]
  OBVIOUS
<1>2. (\E x \in SnapshotUses' : x[3] = b) <=>
        \E t \in Tokens : tstat'[t] # "free" /\ lookup'[t] = b
  <2>1. SnapshotUses' = {<<"app", t, lookup'[t]>> :
                           t \in {u \in Tokens : tstat'[u] # "free"}}
    BY DEF SnapshotUses
  <2> QED
    BY <1>1, <2>1
<1>3. (\E x \in RecordUses' : x[3] = b) <=> \E rec \in recs' : rec.bank = b
  <2>1. RecordUses' = {<<rec.kind, rec.app, rec.bank>> : rec \in recs'}
    BY DEF RecordUses
  <2>2. \A rec \in recs' : <<rec.kind, rec.app, rec.bank>>[3] = rec.bank
    OBVIOUS
  <2> QED
    BY <2>1, <2>2
<1>4. (\E x \in AppUses' : x[3] = b) <=>
        \E i \in Known' : Entries'[i].core = b \/ Entries'[i].code = b
  <2>1. \A i \in Known' :
          /\ <<"rbcore", i, Entries'[i].core>>[3] = Entries'[i].core
          /\ <<"rbcode", i, Entries'[i].code>>[3] = Entries'[i].code
    OBVIOUS
  <2>2. \A x : x \in AppUses' <=>
          /\ x[3] # 0
          /\ \E i \in Known' : \/ x = <<"rbcore", i, Entries'[i].core>>
                              \/ x = <<"rbcode", i, Entries'[i].code>>
    BY DEF AppUses
  <2>3. ASSUME NEW x \in AppUses', x[3] = b
        PROVE  \E i \in Known' : Entries'[i].core = b \/ Entries'[i].code = b
    BY <2>1, <2>2, <2>3
  <2>4. ASSUME NEW i \in Known', Entries'[i].core = b \/ Entries'[i].code = b
        PROVE  \E x \in AppUses' : x[3] = b
    BY <2>1, <2>2, <2>4
  <2> QED
    BY <2>3, <2>4
<1>5. (\E x \in ClipboardUses' : x[3] = b) <=> b \in clip'
  <2>1. ClipboardUses' = {<<"clip", 0, c>> : c \in clip'}
    BY DEF ClipboardUses
  <2>2. \A c \in clip' : <<"clip", 0, c>>[3] = c
    OBVIOUS
  <2> QED
    BY <2>1, <2>2
<1>6. BankUses' =
        SnapshotUses' \cup RecordUses' \cup AppUses' \cup ClipboardUses'
  BY DEF BankUses
<1>7. (\E x \in BankUses' : x[3] = b) <=>
        \/ \E x \in SnapshotUses' : x[3] = b
        \/ \E x \in RecordUses' : x[3] = b
        \/ \E x \in AppUses' : x[3] = b
        \/ \E x \in ClipboardUses' : x[3] = b
  BY <1>6
<1> QED
  BY <1>2, <1>3, <1>4, <1>5, <1>7 DEF Reached

\* No new orphan: a bank in use stays in use, or becomes free, or is one of
\* lost; a bank that becomes used has a user.
LEMMA NoNewOrphan ==
  ASSUME SessionInv, pc # "off", KnownApps' = Known', NEW lost,
         \A b \in Dynamic : Reached(b) /\ Taken(b)' =>
           Reached(b)' \/ b \in lost,
         \A b \in Dynamic : ~Taken(b) /\ Taken(b)' => Reached(b)'
  PROVE  Orphans' \ Orphans \subseteq lost
<1> SUFFICES ASSUME NEW b \in Orphans', b \notin Orphans PROVE b \in lost
  OBVIOUS
<1>1. b \in Dynamic /\ Taken(b)' /\ \A x \in BankUses' : x[3] # b
  BY DEF Orphans, Taken
<1>2. b # 0
  BY <1>1, BankAssumption DEF Dynamic, Banks
<1>3. ~Reached(b)'
  BY <1>1, <1>2, UseReachesNext
<1>4. Taken(b)
  BY <1>1, <1>3
<1>5. \E x \in BankUses : x[3] = b
  BY <1>1, <1>4 DEF Orphans, Taken
<1>6. KnownApps = Known
  BY KnownNow
<1>7. Reached(b)
  BY <1>2, <1>5, <1>6, UseReaches
<1> QED
  BY <1>1, <1>3, <1>7

\* NoBankLost, of one step.
NoLoss ==
  Working => Orphans' \ Orphans \subseteq {lookup[t] : t \in Abandoned}

\* A valid token that no entry of the launcher names is an abandoned one.
LEMMA AbandonedToken ==
  ASSUME SessionInv, AtLauncher, NEW t \in Tokens, tstat[t] # "free",
         \A j \in Known : ram[j].tok # t
  PROVE  lookup[t] \in {lookup[u] : u \in Abandoned}
<1>1. Known = 1 .. count
  BY DEF SessionInv, CatalogInSession
<1>2. ~Uses(count, ram, t)
  BY <1>1 DEF Uses
<1> QED
  BY <1>2 DEF Abandoned

\* A step that gives up nothing loses nothing.
LEMMA QuietLoss ==
  ASSUME SessionInv, pc # "off", KnownApps' = Known',
         UNCHANGED <<btype, lookup, recs, clip>>,
         \A t \in Tokens : tstat[t] # "free" => tstat'[t] # "free",
         \A i \in Known : /\ i \in Known'
                          /\ Entries'[i].core = Entries[i].core
                          /\ Entries'[i].code = Entries[i].code
  PROVE  NoLoss
<1>1. \A b \in Dynamic : Reached(b) => Reached(b)'
  BY DEF Reached
<1>2. \A b \in Dynamic : Taken(b)' => Taken(b)
  BY DEF Taken
<1>3. Orphans' \ Orphans \subseteq {lookup[t] : t \in Abandoned}
  BY <1>1, <1>2, NoNewOrphan
<1> QED
  BY <1>3 DEF NoLoss

\* The records that stay keep their loaded apps.
LEMMA OwnersKept ==
  ASSUME OwnersLoaded, pc # "off",
         \A rec \in recs' : rec.kind = "alloc" =>
           /\ rec \in recs
           /\ rec.app \in Known /\ Entries[rec.app].tok # 0
              /\ tstat[Entries[rec.app].tok] = "loaded" =>
                /\ rec.app \in Known'
                /\ Entries'[rec.app].tok = Entries[rec.app].tok
                /\ tstat'[Entries[rec.app].tok] = "loaded"
           /\ pc' = "resources" => rec.app # job'.idx
  PROVE  OwnersLoaded'
<1> SUFFICES ASSUME NEW rec \in recs', rec.kind = "alloc"
             PROVE  /\ rec.app \in Known' /\ Entries'[rec.app].tok # 0
                    /\ tstat'[Entries'[rec.app].tok] = "loaded"
                    /\ pc' = "resources" => rec.app # job'.idx
  BY DEF OwnersLoaded
<1>1. /\ rec.app \in Known /\ Entries[rec.app].tok # 0
      /\ tstat[Entries[rec.app].tok] = "loaded"
  BY DEF OwnersLoaded
<1> QED
  BY <1>1

-----------------------------------------------------------------------------
(***************************************************************************)
(* Steps of the launcher that change no table                              *)
(***************************************************************************)
LEMMA LauncherQuiet ==
  ASSUME SessionInv, SessionInv', OwnersLoaded, AtLauncher, AtLauncher',
         UNCHANGED <<btype, lookup, tstat, file, recs, clip, ram>>,
         pc' # "resources"
  PROVE  OwnersLoaded' /\ NoLoss
<1>1. /\ pc # "off" /\ pc' # "off" /\ Known' = Known
      /\ Entries = ram /\ Entries' = ram
  BY DEF AtLauncher, Known, Entries, Elsewhere, AppPCs
<1>2. KnownApps' = Known'
  BY <1>1, KnownNext
<1>3. NoLoss
  BY <1>1, <1>2, QuietLoss
<1>4. OwnersLoaded'
  BY <1>1, OwnersKept
<1> QED
  BY <1>3, <1>4

LEMMA MenuLoss ==
  ASSUME SessionInv, SessionInv', OwnersLoaded,
         \/ \E i \in Apps : SelectLoad(i) \/ SelectLaunch(i)
         \/ KeepToken \/ NoToken \/ DmaLoadFails \/ LoadFailed
  PROVE  OwnersLoaded' /\ NoLoss
<1>1. CASE \E i \in Apps : SelectLoad(i) \/ SelectLaunch(i)
  <2>1. /\ pc = "menu" /\ Sync(count, ram, tstat, btype)
        /\ UNCHANGED <<lookup, file, recs, clip>>
        /\ pc' \in {"menu", "alloc", "launch"}
    BY <1>1 DEF SelectLoad, SelectLaunch, BackToMenu, catalogVars
  <2>2. AtLauncher /\ AtLauncher' /\ pc' # "resources"
    BY <2>1 DEF AtLauncher, AppPCs
  <2> QED
    BY <2>1, <2>2, SyncQuiet, LauncherQuiet
<1>2. CASE KeepToken \/ NoToken \/ DmaLoadFails
  <2>1. /\ pc \in {"alloc", "preload"} /\ pc' \in {"preload", "failed"}
        /\ UNCHANGED <<btype, lookup, tstat, file, recs, clip, ram>>
    BY <1>2 DEF KeepToken, NoToken, DmaLoadFails, GoTo, tokenVars,
                catalogVars, menuVars
  <2>2. AtLauncher /\ AtLauncher' /\ pc' # "resources"
    BY <2>1 DEF AtLauncher, AppPCs
  <2> QED
    BY <2>1, <2>2, LauncherQuiet
<1>3. CASE LoadFailed
  <2>1. /\ pc = "failed" /\ pc' = "menu" /\ Sync(count, ram, tstat, btype)
        /\ UNCHANGED <<lookup, file, recs, clip>>
    BY <1>3 DEF LoadFailed, BackToMenu, catalogVars
  <2>2. AtLauncher /\ AtLauncher' /\ pc' # "resources"
    BY <2>1 DEF AtLauncher, AppPCs
  <2> QED
    BY <2>1, <2>2, SyncQuiet, LauncherQuiet
<1> QED
  BY <1>1, <1>2, <1>3

LEMMA PrepareLaunchLoss ==
  ASSUME SessionInv, SessionInv', OwnersLoaded, PrepareLaunch
  PROVE  OwnersLoaded' /\ NoLoss
<1> DEFINE i == job.idx
<1>1. PICK o \in Prepared(i) :
        LET r1 == [ram EXCEPT ![i] = o.entry]
        IN  /\ ram' = r1 /\ recs' = o.recs
            /\ btype' = IF o.mirrored THEN Anchored(o.types) ELSE o.types
            /\ MirrorIf(o.mirrored, r1)
            /\ IF o.ok THEN GoTo("start") ELSE BackToMenu
  BY DEF PrepareLaunch
<1>2. /\ pc = "launch"
      /\ UNCHANGED <<hdr, lookup, file, clip, bankVars, count, shimVars,
                     appVars, hotkeyVars>>
  BY DEF PrepareLaunch
<1>3. IInv /\ i \in Apps /\ i \in Known /\ AtLauncher /\ Entries = ram
      /\ ram[i].tok # 0 /\ ram[i].loaded
  BY <1>2, JobToken DEF SessionInv, JobInSession
<1>4. ~ram[i].basic \/ ram[i].ready
  BY <1>2, <1>3 DEF SessionInv, TokensInSession, AtLauncher, AppPCs
<1>5. /\ o.ok = TRUE /\ o.mirrored = FALSE /\ o.recs = recs
      /\ o.entry = ram[i] /\ o.types = btype
  BY <1>3, <1>4, PreparedQuiet
<1>6. /\ ram' = ram /\ recs' = recs /\ btype' = btype /\ tstat' = tstat
      /\ pc' = "start"
  BY <1>1, <1>3, <1>5, StateFacts, SameEntry DEF MirrorIf, GoTo
<1>7. AtLauncher'
  BY <1>6 DEF AtLauncher, AppPCs
<1> QED
  BY <1>2, <1>3, <1>6, <1>7, LauncherQuiet

LEMMA PreloadLoss ==
  ASSUME SessionInv, SessionInv', OwnersLoaded, NEW got, Preload(got)
  PROVE  OwnersLoaded' /\ NoLoss
<1> DEFINE i == job.idx
           t == ram[i].tok
<1>1. /\ pc = "preload" /\ pc' = "resources" /\ job' = job
      /\ tstat' = [tstat EXCEPT ![t] = "loaded"]
      /\ ram' = [ram EXCEPT ![i].loaded = TRUE,
                            ![i].ready = @ /\ ~ram[i].basic]
      /\ UNCHANGED <<btype, lookup, file, recs, clip>>
  BY DEF Preload, GoTo, catalogVars
<1>1a. /\ pc = "preload" /\ pc' = "resources" /\ job' = job
       /\ UNCHANGED <<btype, lookup, file, recs, clip>>
  BY <1>1
<1>2. /\ AtLauncher /\ Entries = ram /\ t \in Tokens /\ t # 0 /\ IInv
      /\ i \in Known /\ i \in Apps /\ ram[i] \in Entry /\ pc # "off"
  BY <1>1a, JobToken
<1>3. /\ ram'[i].tok = t /\ ram'[i].core = ram[i].core
      /\ ram'[i].code = ram[i].code
  BY <1>1, <1>2, StateFacts DEF Entry
<1>4. \A j \in Apps : j # i => ram'[j] = ram[j]
  BY <1>1, <1>2, StateFacts
<1>5. tstat'[t] = "loaded" /\ \A u \in Tokens : u # t => tstat'[u] = tstat[u]
  BY <1>1, <1>2, StateFacts
<1>6. /\ Known' = Known /\ Known \subseteq Apps /\ pc' # "off"
      /\ Entries' = ram'
  BY <1>1a DEF Known, Entries, Elsewhere, AppPCs
<1>7. ~ram[i].loaded /\ tstat[t] # "loaded"
  BY <1>1a, <1>2, LauncherDistinct DEF SessionInv, JobInSession
<1>8. \A j \in Known : /\ Entries'[j].tok = Entries[j].tok
                       /\ Entries'[j].core = Entries[j].core
                       /\ Entries'[j].code = Entries[j].code
  BY <1>2, <1>3, <1>4, <1>6
<1>9. \A u \in Tokens : /\ tstat[u] # "free" => tstat'[u] # "free"
                        /\ tstat[u] = "loaded" => tstat'[u] = "loaded"
  BY <1>5
<1>10. NoLoss
  <2>1. KnownApps' = Known'
    BY <1>6, KnownNext
  <2> QED
    BY <1>1a, <1>2, <1>6, <1>8, <1>9, <2>1, QuietLoss
<1>11. OwnersLoaded'
  <2>1. \A rec \in recs : rec.kind = "alloc" =>
          /\ rec.app \in Known /\ ram[rec.app].tok # 0
          /\ tstat[ram[rec.app].tok] = "loaded"
    BY <1>2 DEF OwnersLoaded
  <2>2. \A j \in Known : ram[j].tok # 0 => ram[j].tok \in Tokens
    BY <1>2, LauncherDistinct
  <2>3. \A rec \in recs : rec.kind = "alloc" => rec.app # i
    BY <1>7, <2>1
  <2> QED
    BY <1>1a, <1>2, <1>6, <1>8, <1>9, <2>1, <2>2, <2>3, OwnersKept
<1> QED
  BY <1>10, <1>11

-----------------------------------------------------------------------------
(***************************************************************************)
(* Steps of the launcher                                                   *)
(***************************************************************************)

\* A step within the launcher loses nothing but what rolled-back tokens map
\* to, if what each app and record counts on stays in use or is freed.
LEMMA LauncherLoss ==
  ASSUME SessionInv, SessionInv', AtLauncher, AtLauncher',
         \A b \in Dynamic : Taken(b)' =>
           /\ \A j \in Known : ram[j].tok # 0 /\ lookup[ram[j].tok] = b =>
                /\ lookup'[ram[j].tok] = b
                /\ \/ tstat'[ram[j].tok] # "free"
                   \/ j \in Known' /\ ram'[j].tok = ram[j].tok
           /\ \A rec \in recs : rec.bank = b => rec \in recs' \/ Reached(b)'
           /\ \A j \in Known : ram[j].core = b \/ ram[j].code = b => Reached(b)'
           /\ b \in clip => b \in clip'
           /\ ~Taken(b) => Reached(b)'
  PROVE  NoLoss
<1>1. /\ pc # "off" /\ pc' # "off" /\ Entries = ram /\ Entries' = ram'
  BY DEF AtLauncher, Entries, Elsewhere, AppPCs
<1>2. KnownApps' = Known'
  BY <1>1, KnownNext
<1> DEFINE lost == {lookup[u] : u \in Abandoned}
<1>3. ASSUME NEW b \in Dynamic, Reached(b), Taken(b)'
      PROVE  Reached(b)' \/ b \in lost
  <2>1. b # 0
    BY BankAssumption DEF Dynamic, Banks
  <2>2. CASE \E t \in Tokens : tstat[t] # "free" /\ lookup[t] = b
    <3>1. PICK t \in Tokens : tstat[t] # "free" /\ lookup[t] = b
      BY <2>2
    <3>2. CASE \E j \in Known : ram[j].tok = t
      <4>1. PICK j \in Known : ram[j].tok = t
        BY <3>2
      <4>2. t # 0
        BY AppsFact
      <4>3. /\ lookup'[t] = b
            /\ tstat'[t] # "free" \/ (j \in Known' /\ ram'[j].tok = t)
        BY <1>3, <3>1, <4>1, <4>2
      <4>4. tstat'[t] # "free"
        BY <1>1, <4>2, <4>3 DEF SessionInv, TokensInSession
      <4> QED
        BY <4>3, <4>4 DEF Reached
    <3>3. CASE ~\E j \in Known : ram[j].tok = t
      BY <3>1, <3>3, AbandonedToken
    <3> QED
      BY <3>2, <3>3
  <2>3. CASE \E rec \in recs : rec.bank = b
    <3>1. PICK rec \in recs : rec.bank = b
      BY <2>3
    <3> QED
      BY <1>3, <3>1 DEF Reached
  <2>4. CASE \E i \in Known : Entries[i].core = b \/ Entries[i].code = b
    BY <1>1, <1>3, <2>1, <2>4
  <2>5. CASE b \in clip
    BY <1>3, <2>5 DEF Reached
  <2> QED
    BY <1>3, <2>2, <2>3, <2>4, <2>5 DEF Reached
<1> HIDE DEF lost
<1>4. Orphans' \ Orphans \subseteq lost
  BY <1>1, <1>2, <1>3, NoNewOrphan
<1> QED
  BY <1>4 DEF NoLoss, lost

LEMMA LauncherOwners ==
  ASSUME SessionInv, SessionInv', AtLauncher, AtLauncher', OwnersLoaded,
         \A rec \in recs' : rec.kind = "alloc" =>
           /\ rec \in recs
           /\ rec.app \in Known /\ ram[rec.app].loaded =>
                /\ rec.app \in Known'
                /\ ram'[rec.app].tok = ram[rec.app].tok
                /\ ram'[rec.app].loaded
           /\ pc' = "resources" => rec.app # job'.idx
  PROVE  OwnersLoaded'
<1>1. /\ pc # "off" /\ pc' # "off" /\ Entries = ram /\ Entries' = ram'
  BY DEF AtLauncher, Entries, Elsewhere, AppPCs
<1>2. ASSUME NEW rec \in recs', rec.kind = "alloc",
             rec.app \in Known, ram[rec.app].tok # 0,
             tstat[ram[rec.app].tok] = "loaded"
      PROVE  /\ rec.app \in Known' /\ ram'[rec.app].tok = ram[rec.app].tok
             /\ tstat'[ram[rec.app].tok] = "loaded"
  <2>1. ram[rec.app].loaded
    BY <1>2, LauncherDistinct
  <2>2. /\ rec.app \in Known' /\ ram'[rec.app].tok = ram[rec.app].tok
        /\ ram'[rec.app].loaded
    BY <1>2, <2>1
  <2>3. ram'[rec.app].loaded <=> tstat'[ram'[rec.app].tok] = "loaded"
    BY <1>1, <1>2, <2>2 DEF SessionInv, TokensInSession
  <2> QED
    BY <2>2, <2>3
<1> QED
  BY <1>1, <1>2, OwnersKept

LEMMA SelectManifestLoss ==
  ASSUME SessionInv, SessionInv', OwnersLoaded, NEW p \in Manifests,
         SelectManifest(p)
  PROVE  OwnersLoaded' /\ NoLoss
<1> DEFINE n == count + 1
           r == [ram EXCEPT ![n] = NewEntry(p)]
<1>1. /\ pc = "menu" /\ pc' = "alloc" /\ count' = n
      /\ file' = [file EXCEPT ![n] = p]
      /\ Sync(n, r, tstat, btype)
      /\ UNCHANGED <<lookup, recs, clip>>
  BY DEF SelectManifest, bankVars, appVars, hotkeyVars
<1>2. /\ IInv /\ saved = 0 /\ AtLauncher /\ AtLauncher'
      /\ Known = 1 .. count /\ count \in 0 .. MaxApps
      /\ ram \in [Apps -> Entry] /\ file \in [Apps -> Prog \cup {None}]
  BY <1>1, LauncherAgrees, StateFacts
     DEF SessionInv, CatalogInSession, AtLauncher, AppPCs
<1>3. n \in Apps /\ n \in 0 .. MaxApps /\ n \notin Known /\ p \in Prog
  BY <1>2, CatalogAssumption DEF SelectManifest, Apps
<1>4. /\ r \in [Apps -> Entry] /\ r[n].tok = 0
      /\ \A i \in Apps : i # n => r[i] = ram[i]
  BY <1>2, <1>3, NewEntryBlank
<1> HIDE DEF r
<1>5. /\ ram' = r /\ btype' = btype
  <2>1. ASSUME NEW i \in Apps, i <= n, r[i].tok # 0
        PROVE  r[i].loaded <=> tstat[r[i].tok] = "loaded"
    <3>1. i # n /\ r[i] = ram[i]
      BY <1>4, <2>1
    <3>2. i <= count
      BY <1>2, <2>1, <3>1 DEF Apps
    <3> QED
      BY <1>2, <2>1, <3>1, <3>2, LauncherAgrees
  <2>2. /\ SyncedStatus(n, r, tstat) = tstat
        /\ SyncedEntries(n, r, tstat) = r
        /\ SetType(btype, LoadedBanks(n, r, tstat), "app") = btype
    BY <1>2, <1>3, <1>4, <2>1, LauncherAgrees, StateFacts, SyncSame
  <2> QED
    BY <1>1, <2>2 DEF Sync
<1>6. \A i \in Apps : i # n => file'[i] = file[i]
  BY <1>1, <1>2, <1>3
<1>6a. p # None /\ file'[n] = p
  BY <1>1, <1>2, <1>3, CatalogAssumption
<1>7. \A j \in Known : j \in Apps /\ j \in Known' /\ ram'[j] = ram[j]
  BY <1>3, <1>4, <1>5, <1>6 DEF Known
<1>8. Entries' = ram' /\ Entries = ram /\ UNCHANGED <<btype, recs, clip, lookup>>
  BY <1>1, <1>2, <1>5 DEF AtLauncher, Entries, Elsewhere, AppPCs
<1>9. pc' # "resources"
  BY <1>1
<1>10. NoLoss
  <2>1. \A j \in Known, b \in Dynamic :
          ram[j].core = b \/ ram[j].code = b => Reached(b)'
    BY <1>7, <1>8 DEF Reached
  <2>2. \A b : Taken(b)' => Taken(b)
    BY <1>8 DEF Taken
  <2> QED
    BY <1>2, <1>7, <1>8, <2>1, <2>2, LauncherLoss
<1>11. OwnersLoaded'
  BY <1>2, <1>7, <1>8, <1>9, LauncherOwners
<1> QED
  BY <1>10, <1>11

LEMMA BindTokenLoss ==
  ASSUME SessionInv, SessionInv', OwnersLoaded, BindToken
  PROVE  OwnersLoaded' /\ NoLoss
<1> DEFINE i == job.idx
<1>1. PICK t \in FirstToken(i), b \in FirstFree(btype) :
        /\ btype' = Anchored(SetType(btype, {b}, "app"))
        /\ lookup' = [lookup EXCEPT ![t] = b]
        /\ ram' = [ram EXCEPT ![i].tok = t]
  BY DEF BindToken
<1>2. /\ pc = "alloc" /\ pc' = "preload" /\ ram[i].tok = 0
      /\ UNCHANGED <<file, recs, clip>>
  BY DEF BindToken, GoTo
<1>3. /\ AtLauncher /\ AtLauncher' /\ IInv /\ Entries = ram /\ Entries' = ram'
      /\ Known' = Known /\ i \in Known /\ i \in Apps /\ Sound(btype)
      /\ Known \subseteq Apps /\ ~ram[i].loaded
  BY <1>2, JobFacts, LauncherAgrees, LauncherDistinct
     DEF AtLauncher, Known, Entries, Elsewhere, SessionInv, JobInSession,
         AppPCs
<1>4. /\ ram \in [Apps -> Entry] /\ lookup \in [Tokens -> {0} \cup Usable]
      /\ btype \in [Banks -> BankTypes]
  BY <1>3, StateFacts
<1>5. /\ b \in Usable /\ b \in Banks /\ t \in Tokens /\ t # 0
      /\ tstat[t] = "free"
  BY <1>3, FreeFact, SkipFact, AppsFact
     DEF FirstFree, FreeBanks, FirstToken, FreeTokens
<1>6. /\ ram'[i].tok = t /\ ram'[i].core = ram[i].core
      /\ ram'[i].code = ram[i].code
      /\ \A j \in Apps : j # i => ram'[j] = ram[j]
  BY <1>1, <1>3, <1>4, <1>5 DEF Entry
<1>7. /\ \A u \in Banks : u # b => btype'[u] = btype[u]
      /\ lookup'[t] = b /\ \A u \in Tokens : u # t => lookup'[u] = lookup[u]
  <2>1. Sound(SetType(btype, {b}, "app"))
    BY <1>3, <1>5, SetTypeFact, ClientTypesFact
  <2>2. btype' = SetType(btype, {b}, "app")
    BY <1>1, <2>1, SameAnchor
  <2> QED
    BY <1>1, <1>4, <1>5, <2>2 DEF SetType
<1>8. UNCHANGED <<recs, clip>> /\ pc' # "resources"
  BY <1>2
<1>9. Reached(b)'
  <2>1. tstat'[t] # "free"
    BY <1>3, <1>5, <1>6 DEF SessionInv, TokensInSession, AtLauncher, AppPCs
  <2> QED
    BY <1>5, <1>7, <2>1 DEF Reached
<1>10. NoLoss
  <2>1. ASSUME NEW j \in Known, ram[j].tok # 0
        PROVE  ram'[j].tok = ram[j].tok
               /\ lookup'[ram[j].tok] = lookup[ram[j].tok]
    BY <1>2, <1>3, <1>5, <1>6, <1>7, <2>1, LauncherDistinct
  <2>2. \A j \in Known : ram'[j].core = ram[j].core /\ ram'[j].code = ram[j].code
    BY <1>3, <1>6
  <2>3. \A j \in Known, x \in Dynamic :
          ram[j].core = x \/ ram[j].code = x => Reached(x)'
    BY <1>3, <2>2 DEF Reached
  <2>4. \A x \in Dynamic : ~Taken(x) /\ Taken(x)' => Reached(x)'
    BY <1>7, <1>9 DEF Taken, Dynamic
  <2> QED
    BY <1>3, <1>8, <2>1, <2>3, <2>4, LauncherLoss
<1>11. OwnersLoaded'
  <2>1. \A j \in Known : ram[j].loaded => ram'[j] = ram[j]
    BY <1>3, <1>6
  <2> QED
    BY <1>3, <1>8, <2>1, LauncherOwners
<1> QED
  BY <1>10, <1>11

LEMMA LoadResourcesLoss ==
  ASSUME SessionInv, SessionInv', OwnersLoaded, LoadResources
  PROVE  OwnersLoaded' /\ NoLoss
<1> DEFINE i == job.idx
           e == ram[i]
<1>1. PICK o \in Prepared(i) :
        /\ ram' = [ram EXCEPT ![i] = [o.entry EXCEPT !.loaded = @ /\ o.ok]]
        /\ recs' = o.recs /\ btype' = Anchored(o.types)
        /\ pc' = (IF o.ok THEN "loaded" ELSE "failed")
  BY DEF LoadResources, GoTo
<1>2. pc = "resources" /\ UNCHANGED <<lookup, file, clip>>
  BY DEF LoadResources
<1>3. /\ AtLauncher /\ AtLauncher' /\ pc # "off" /\ pc' # "resources"
      /\ IInv /\ Entries = ram /\ Entries' = ram' /\ i \in Known /\ i \in Apps
      /\ Known \subseteq Apps /\ Known' = Known
      /\ e \in Entry /\ e.loaded /\ e.tok # 0
      /\ (e.basic => ~e.ready) /\ Sound(btype)
      /\ ram \in [Apps -> Entry] /\ recs \subseteq Record
  BY <1>1, <1>2, JobToken, LauncherAgrees, LauncherDistinct, IInvFacts,
     StateFacts
     DEF AtLauncher, Known, Entries, Elsewhere, SessionInv, JobInSession,
         AppPCs
<1>4. CASE ~e.basic
  <2>1. /\ o.ok = TRUE /\ o.recs = recs /\ o.entry = ram[i]
        /\ o.types = btype
    BY <1>3, <1>4, PreparedQuiet
  <2>2. [o.entry EXCEPT !.loaded = @ /\ o.ok] = ram[i]
    BY <1>3, <2>1 DEF Entry
  <2>3. ram' = ram
    BY <1>1, <1>3, <2>2, SameEntry
  <2>4. recs' = recs /\ btype' = btype
    BY <1>1, <1>3, <2>1, SameAnchor
  <2>5. \A j \in Known, b \in Dynamic :
          ram[j].core = b \/ ram[j].code = b => Reached(b)'
    BY <1>3, <2>3 DEF Reached
  <2>6. \A b : Taken(b)' => Taken(b)
    BY <2>4 DEF Taken
  <2>7. NoLoss
    BY <1>2, <1>3, <2>3, <2>4, <2>5, <2>6, LauncherLoss
  <2> QED
    BY <1>3, <2>3, <2>4, <2>7, LauncherOwners
<1>5. CASE e.basic
  <2>1. o \in LoadedBasic(SetType(btype, LoadedBanks(count, ram, tstat),
                                  "app"), i)
    BY <1>3, <1>5 DEF Prepared
  <2>2. SetType(btype, LoadedBanks(count, ram, tstat), "app") = btype
    BY <1>3, LauncherAgrees, StateFacts, SyncSame
  <2>3. o \in LoadedBasic(btype, i)
    BY <2>1, <2>2
  <2>4. PICK c \in {0} \cup Usable, d \in {0} \cup Usable :
          /\ o.entry \in Entry
          /\ o.entry.tok = ram[i].tok
          /\ o.entry.core = c /\ o.entry.code = d
          /\ \/ /\ c = ram[i].core /\ d = ram[i].code /\ o.recs = recs
                /\ o.types = btype
             \/ /\ c \in Usable /\ d \in Usable /\ c # d
                /\ \/ btype[c] = "free" /\ ram[i].core = 0
                   \/ btype[c] = "rbcore" /\ ram[i].core = c
                /\ \/ btype[d] = "free" /\ ram[i].code = 0
                   \/ btype[d] = "rbcode" /\ ram[i].code = d
                /\ o.types = MarkBasic(btype, c, d)
                /\ OtherRecords(i) \subseteq o.recs
                /\ o.recs \subseteq OtherRecords(i) \cup BasicRecords(i, c, d)
    BY <1>3, <2>3, BasicOutcome
  <2>5. /\ ram'[i].tok = ram[i].tok /\ ram'[i].core = c /\ ram'[i].code = d
        /\ \A j \in Apps : j # i => ram'[j] = ram[j]
    BY <1>1, <1>3, <2>4 DEF Entry
  <2>6. \A x \in recs : x.kind = "alloc" => x.app # i
    BY <1>2, <1>3 DEF OwnersLoaded
  <2>7. CASE /\ c = ram[i].core /\ d = ram[i].code /\ o.recs = recs
             /\ o.types = btype
    <3>1. btype' = btype /\ recs' = recs
      BY <1>1, <1>3, <2>7, SameAnchor
    <3>2. \A j \in Known : /\ ram'[j].core = ram[j].core
                           /\ ram'[j].code = ram[j].code
                           /\ ram'[j].tok = ram[j].tok
      BY <1>3, <2>5, <2>7
    <3>3. \A j \in Known, b \in Dynamic :
            ram[j].core = b \/ ram[j].code = b => Reached(b)'
      BY <1>3, <3>2 DEF Reached
    <3>4. \A b : Taken(b)' => Taken(b)
      BY <3>1 DEF Taken
    <3>5. NoLoss
      BY <1>2, <1>3, <3>1, <3>2, <3>3, <3>4, LauncherLoss
    <3>6. \A x \in recs : x.kind = "alloc" /\ x.app \in Known =>
            ram'[x.app] = ram[x.app]
      BY <1>3, <2>5, <2>6
    <3>7. OwnersLoaded'
      BY <1>3, <3>1, <3>6, LauncherOwners
    <3> QED
      BY <3>5, <3>7
  <2>8. CASE /\ c \in Usable /\ d \in Usable /\ c # d
             /\ \/ btype[c] = "free" /\ ram[i].core = 0
                \/ btype[c] = "rbcore" /\ ram[i].core = c
             /\ \/ btype[d] = "free" /\ ram[i].code = 0
                \/ btype[d] = "rbcode" /\ ram[i].code = d
             /\ o.types = MarkBasic(btype, c, d)
             /\ OtherRecords(i) \subseteq o.recs
             /\ o.recs \subseteq OtherRecords(i) \cup BasicRecords(i, c, d)
    <3>1. btype' = MarkBasic(btype, c, d)
      BY <1>1, <1>3, <2>8, MarkBasicFact, SameAnchor
    <3>2. \A b \in Banks : b # c /\ b # d => btype'[b] = btype[b]
      BY <2>8, <3>1, SkipFact DEF MarkBasic, SetType
    <3>3. c # 0 /\ d # 0
      BY <2>8, SkipFact
    <3>4. \A b : b = c \/ b = d => Reached(b)'
      BY <1>3, <2>5 DEF Reached
    <3>5. \A j \in Known, b \in Dynamic :
            ram[j].core = b \/ ram[j].code = b => Reached(b)'
      <4>1. ASSUME NEW j \in Known, NEW b \in Dynamic,
                   ram[j].core = b \/ ram[j].code = b
            PROVE  Reached(b)'
        <5>1. CASE j # i
          <6>1. j \in Known' /\ Entries'[j] = ram[j]
            BY <1>3, <2>5, <5>1
          <6> QED
            BY <4>1, <6>1 DEF Reached
        <5>2. CASE j = i
          <6>1. b # 0
            BY BankAssumption DEF Dynamic, Banks
          <6> QED
            BY <2>8, <3>4, <4>1, <5>2, <6>1
        <5> QED
          BY <5>1, <5>2
      <4> QED
        BY <4>1
    <3>6. ASSUME NEW x \in recs PROVE x \in recs' \/ Reached(x.bank)'
      <4>1. CASE x.app # i
        BY <1>1, <2>8, <4>1 DEF OtherRecords
      <4>2. CASE x.app = i
        <5>1. x.kind \in {"rbcore", "rbcode"} /\ x.bank \in Usable
          BY <1>3, <2>6, <4>2 DEF Record, Kinds
        <5>2. /\ x.kind = "rbcore" => ram[i].core = x.bank
              /\ x.kind = "rbcode" => ram[i].code = x.bank
          BY <1>3, <4>2 DEF SessionInv, BasicInSession
        <5>3. x.bank = c \/ x.bank = d
          BY <2>8, <5>1, <5>2, SkipFact
        <5>4. \A b : b = x.bank => Reached(b)'
          BY <3>4, <5>3
        <5> QED
          BY <1>3, <2>5, <5>3 DEF Reached
      <4> QED
        BY <4>1, <4>2
    <3>7. \A b \in Dynamic : \A x \in recs :
            x.bank = b => x \in recs' \/ Reached(b)'
      BY <3>6 DEF Reached
    <3>8. \A b \in Dynamic : ~Taken(b) /\ Taken(b)' => Reached(b)'
      BY <3>2, <3>4 DEF Taken, Dynamic
    <3>9. \A j \in Known : ram'[j].tok = ram[j].tok
      BY <1>3, <2>5
    <3>10. NoLoss
      BY <1>2, <1>3, <3>5, <3>7, <3>8, <3>9, LauncherLoss
    <3>11. \A x \in recs' : x.kind = "alloc" => x \in recs /\ x.app # i
      BY <1>1, <2>8 DEF OtherRecords, BasicRecords
    <3>12. \A j \in Known : j # i => ram'[j] = ram[j]
      BY <1>3, <2>5
    <3>13. OwnersLoaded'
      BY <1>3, <3>11, <3>12, LauncherOwners
    <3> QED
      BY <3>10, <3>13
  <2> QED
    BY <2>4, <2>7, <2>8
<1> QED
  BY <1>3, <1>4, <1>5 DEF Entry

LEMMA FinishLoadLoss ==
  ASSUME SessionInv, SessionInv', OwnersLoaded, FinishLoad
  PROVE  OwnersLoaded' /\ NoLoss
<1>1. /\ pc = "loaded" /\ pc' \in {"launch", "menu"}
      /\ UNCHANGED <<lookup, file, recs, clip>>
  BY DEF FinishLoad, GoTo, BackToMenu
<1>2. ram' = ram /\ btype' = btype
  BY FinishQuiet
<1>3. /\ AtLauncher /\ AtLauncher' /\ Known' = Known /\ pc' # "resources"
      /\ Entries' = ram
  BY <1>1, <1>2 DEF AtLauncher, Known, Entries, Elsewhere, AppPCs
<1>4. \A j \in Known, b \in Dynamic :
        ram[j].core = b \/ ram[j].code = b => Reached(b)'
  BY <1>3 DEF Reached
<1>5. \A b : Taken(b)' => Taken(b)
  BY <1>2 DEF Taken
<1>6. NoLoss
  BY <1>1, <1>2, <1>3, <1>4, <1>5, LauncherLoss
<1>7. OwnersLoaded'
  BY <1>1, <1>2, <1>3, LauncherOwners
<1> QED
  BY <1>6, <1>7

\* What an app gives up becomes free.
LEMMA FreedLoss ==
  ASSUME SessionInv, SessionInv', OwnersLoaded, AtLauncher, AtLauncher',
         pc' # "resources", NEW i \in Known, NEW snap,
         btype' = FreedResources(FreePhysical(btype, snap), i),
         recs' = OtherRecords(i), UNCHANGED <<lookup, clip>>,
         \A j \in Known : j # i => j \in Known' /\ ram'[j] = ram[j],
         ram[i].tok # 0 =>
           lookup[ram[i].tok] \in snap \/ tstat'[ram[i].tok] # "free"
  PROVE  OwnersLoaded' /\ NoLoss
<1> DEFINE own == OwnedBanks(i) \cup ({ram[i].core, ram[i].code} \ {0})
<1>1. /\ pc # "off" /\ Entries = ram /\ Entries' = ram' /\ IInv
  BY LauncherAgrees DEF AtLauncher, Entries, Elsewhere, AppPCs
<1>2. \A b \in Banks : IF (b \in snap \/ b \in own) /\ b > Skip
                       THEN btype'[b] = "free" ELSE btype'[b] = btype[b]
  BY DEF FreedResources, FreePhysical
<1>3. \A b \in Dynamic : b \in Banks /\ b > Skip /\ b # 0
  BY BankAssumption DEF Dynamic, Banks
<1>4. \A b \in Dynamic : Taken(b)' => Taken(b) /\ b \notin snap /\ b \notin own
  BY <1>2, <1>3 DEF Taken
<1>5. ASSUME NEW b \in Dynamic, Taken(b)', NEW x \in recs, x.bank = b
      PROVE  x \in recs'
  <2>1. CASE x.app # i
    BY <2>1 DEF OtherRecords
  <2>2. CASE x.app = i
    <3>1. btype[b] = x.kind /\ x.kind \in {"alloc", "rbcore", "rbcode"}
      BY <1>1, <1>5, UsesTyped DEF Kinds
    <3>2. /\ x.kind = "rbcore" => ram[i].core = b
          /\ x.kind = "rbcode" => ram[i].code = b
      BY <1>1, <1>5, <2>2 DEF SessionInv, BasicInSession
    <3>3. x.kind = "alloc" => b \in OwnedBanks(i)
      BY <1>5, <2>2, <3>1 DEF OwnedBanks
    <3>4. b \in own
      BY <1>3, <3>1, <3>2, <3>3
    <3> QED
      BY <1>4, <1>5, <3>4
  <2> QED
    BY <2>1, <2>2
<1>6. ASSUME NEW b \in Dynamic, Taken(b)', NEW j \in Known,
             ram[j].core = b \/ ram[j].code = b
      PROVE  Reached(b)'
  <2>1. CASE j = i
    <3>1. b \in own
      BY <1>3, <1>6, <2>1
    <3> QED
      BY <1>4, <1>6, <3>1
  <2>2. CASE j # i
    <3>1. j \in Known' /\ Entries'[j] = ram[j]
      BY <1>1, <2>2
    <3> QED
      BY <1>6, <3>1 DEF Reached
  <2> QED
    BY <2>1, <2>2
<1>7. ASSUME NEW b \in Dynamic, Taken(b)', NEW j \in Known,
             ram[j].tok # 0, lookup[ram[j].tok] = b
      PROVE  \/ tstat'[ram[j].tok] # "free"
             \/ j \in Known' /\ ram'[j].tok = ram[j].tok
  BY <1>4, <1>7
<1> HIDE DEF own
<1>8. NoLoss
  BY <1>4, <1>5, <1>6, <1>7, LauncherLoss
<1>9. OwnersLoaded'
  BY LauncherOwners DEF OtherRecords
<1> QED
  BY <1>8, <1>9

LEMMA ManifestFailedLoss ==
  ASSUME SessionInv, SessionInv', OwnersLoaded, ManifestFailed
  PROVE  OwnersLoaded' /\ NoLoss
<1> DEFINE i == job.idx
<1>1. /\ pc = "failed" /\ pc' = "menu" /\ recs' = OtherRecords(i)
      /\ UNCHANGED <<lookup, clip>>
      /\ file' = [file EXCEPT ![i] = None]
      /\ LET st1 == SyncedStatus(count, ram, tstat)
             r1  == SyncedEntries(count, ram, st1)
             bt1 == SetType(btype, LoadedBanks(count, r1, st1), "app")
         IN  /\ tstat' = st1
             /\ ram' = [r1 EXCEPT ![i] = BlankEntry]
             /\ btype' = FreedResources(bt1, i)
  BY DEF ManifestFailed, BackToMenu
<1>1a. /\ pc = "failed" /\ pc' = "menu" /\ recs' = OtherRecords(i)
       /\ UNCHANGED <<lookup, clip>>
  BY <1>1
<1>2. /\ AtLauncher /\ AtLauncher' /\ IInv /\ saved = 0
      /\ Known \subseteq Apps /\ i \in Known /\ i \in Apps
      /\ count \in 0 .. MaxApps
      /\ ram \in [Apps -> Entry] /\ btype \in [Banks -> BankTypes]
      /\ file \in [Apps -> Prog \cup {None}] /\ tstat \in [Tokens -> Status]
  BY <1>1a, JobFacts, LauncherAgrees, LauncherDistinct, StateFacts
     DEF AtLauncher, AppPCs
<1>3. /\ SyncedStatus(count, ram, tstat) = tstat
      /\ SyncedEntries(count, ram, tstat) = ram
      /\ SetType(btype, LoadedBanks(count, ram, tstat), "app") = btype
  BY <1>2, LauncherAgrees, SyncSame
<1>4. /\ tstat' = tstat /\ ram' = [ram EXCEPT ![i] = BlankEntry]
      /\ btype' = FreedResources(btype, i)
      /\ file' = [file EXCEPT ![i] = None]
  BY <1>1, <1>3
<1>5. \A j \in Known : j # i => j \in Known' /\ ram'[j] = ram[j]
  BY <1>2, <1>4 DEF Known
<1>6. FreePhysical(btype, {}) = btype
  BY <1>2 DEF FreePhysical
<1>7. btype' = FreedResources(FreePhysical(btype, {}), i)
  BY <1>4, <1>6
<1>8. ram[i].tok # 0 => tstat'[ram[i].tok] # "free"
  BY <1>2, <1>4, LauncherDistinct
<1>9. pc' # "resources"
  BY <1>1a
<1> QED
  BY <1>1a, <1>2, <1>5, <1>7, <1>8, <1>9, FreedLoss

LEMMA UnloadLoss ==
  ASSUME SessionInv, SessionInv', OwnersLoaded, NEW i \in Apps, Unload(i)
  PROVE  OwnersLoaded' /\ NoLoss
<1> DEFINE t == ram[i].tok
<1>1. /\ pc = "menu" /\ pc' = "menu" /\ i <= count /\ t # 0 /\ ram[i].loaded
      /\ btype' = Anchored(FreedResources(
           FreePhysical(btype, IF tstat[t] # "free" THEN {lookup[t]} ELSE {}),
           i))
      /\ recs' = OtherRecords(i)
      /\ ram' = [ram EXCEPT ![i] = [@ EXCEPT !.tok = 0, !.loaded = FALSE,
                                      !.ready = FALSE, !.core = 0, !.code = 0]]
      /\ UNCHANGED <<lookup, file, clip>>
  BY DEF Unload
<1>1a. /\ pc = "menu" /\ pc' = "menu" /\ i <= count /\ t # 0
       /\ recs' = OtherRecords(i) /\ UNCHANGED <<lookup, file, clip>>
       /\ pc' # "resources"
  BY <1>1
<1>2. /\ AtLauncher /\ AtLauncher' /\ IInv /\ Known' = Known
      /\ Known \subseteq Apps /\ i \in Known /\ count \in 0 .. MaxApps
      /\ ram \in [Apps -> Entry] /\ btype \in [Banks -> BankTypes]
      /\ Sound(btype)
  BY <1>1a, LauncherAgrees, LauncherDistinct, StateFacts, IInvFacts
     DEF AtLauncher, Known, Apps, AppPCs
<1>3. t \in Tokens /\ tstat[t] = "loaded"
  BY <1>1, <1>2, LauncherDistinct
<1>4. \A j \in Known : j # i => j \in Known' /\ ram'[j] = ram[j]
  BY <1>1, <1>2
<1>5. btype' = FreedResources(FreePhysical(btype, {lookup[t]}), i)
  <2>1. lookup[t] \in Usable
    BY <1>2, <1>3, IInvFacts, StateFacts
  <2>2. Sound(FreePhysical(btype, {lookup[t]}))
    BY <1>2, <2>1, FreePhysicalFact
  <2>3. Sound(FreedResources(FreePhysical(btype, {lookup[t]}), i))
    BY <1>2, <2>2, FreedFact
  <2> QED
    BY <1>1, <1>3, <2>3, SameAnchor
<1> QED
  BY <1>1a, <1>2, <1>4, <1>5, FreedLoss

-----------------------------------------------------------------------------
(***************************************************************************)
(* Steps that leave the launcher, and steps of an app                      *)
(***************************************************************************)
LEMMA TablesKept ==
  ASSUME SessionInv, SessionInv', OwnersLoaded, pc # "off",
         pc' # "off", pc' # "resources",
         UNCHANGED <<btype, lookup, tstat, file, recs, clip>>,
         \A i \in Known : /\ Entries'[i].tok = Entries[i].tok
                          /\ Entries'[i].core = Entries[i].core
                          /\ Entries'[i].code = Entries[i].code
  PROVE  OwnersLoaded' /\ NoLoss
<1>1. Known' = Known
  BY DEF Known
<1>2. KnownApps' = Known'
  BY KnownNext
<1>3. NoLoss
  BY <1>1, <1>2, QuietLoss
<1>4. OwnersLoaded'
  BY <1>1, OwnersKept
<1> QED
  BY <1>3, <1>4

LEMMA StartLoss ==
  ASSUME SessionInv, SessionInv', OwnersLoaded, Start
  PROVE  OwnersLoaded' /\ NoLoss
<1>1. /\ pc = "start" /\ pc' \in {"return", "appinit"}
      /\ UNCHANGED <<btype, lookup, tstat, reg, file, recs, clip>>
  BY DEF Start, RunImage, tokenVars, catalogVars
<1>2. /\ AtLauncher /\ Entries = ram /\ Entries' = reg.apps
      /\ pc # "off" /\ pc' # "off" /\ pc' # "resources"
  BY <1>1 DEF AtLauncher, Entries, Elsewhere, AppPCs
<1>3. \A i \in Known :
        /\ reg.apps[i].tok = ram[i].tok
        /\ reg.apps[i].core = ram[i].core /\ reg.apps[i].code = ram[i].code
  BY <1>1, <1>2 DEF SessionInv, RegistryInStep
<1> QED
  BY <1>1, <1>2, <1>3, TablesKept

\* An app runs and stays, or is left for the launcher or another app.
LEMMA RunningLoss ==
  ASSUME SessionInv, SessionInv', OwnersLoaded,
         \/ AppInit \/ ResumeNotes \/ StartNotes \/ NoteRefused \/ Return
         \/ \E s \in Slots : BindHotkey(s)
         \/ \E t \in Tokens : SwitchTo(t)
  PROVE  OwnersLoaded' /\ NoLoss
<1>1. /\ pc \in AppPCs /\ pc' \in {"return"} \cup AppPCs
      /\ UNCHANGED <<btype, lookup, tstat, reg, file, recs, clip>>
  <2>1. CASE AppInit \/ ResumeNotes \/ StartNotes \/ NoteRefused
    BY <2>1 DEF AppInit, ResumeNotes, StartNotes, NoteRefused, GoTo, AppPCs,
                tokenVars, catalogVars
  <2>2. CASE Return
    <3>1. /\ pc = "app" /\ Stash /\ pc' = "return"
          /\ UNCHANGED <<btype, lookup, reg, file, recs, clip>>
      BY <2>2 DEF Return, GoTo, catalogVars
    <3> QED
      BY <3>1, StashQuiet DEF AppPCs
  <2>3. CASE \E s \in Slots : BindHotkey(s)
    BY <2>3 DEF BindHotkey, tokenVars, catalogVars, AppPCs
  <2>4. CASE \E t \in Tokens : SwitchTo(t)
    <3>1. /\ pc = "app" /\ Stash /\ pc' \in {"return", "appinit"}
          /\ UNCHANGED <<btype, lookup, reg, file, recs, clip>>
      BY <2>4 DEF SwitchTo, RunImage, catalogVars
    <3> QED
      BY <3>1, StashQuiet DEF AppPCs
  <2> QED
    BY <2>1, <2>2, <2>3, <2>4
<1>2. /\ Entries = reg.apps /\ Entries' = reg.apps
      /\ pc # "off" /\ pc' # "off" /\ pc' # "resources"
  BY <1>1 DEF Entries, Elsewhere, AppPCs
<1> QED
  BY <1>1, <1>2, TablesKept

\* While an app runs only the clipboard and the records change what reaches
\* a bank.
LEMMA AppLoss ==
  ASSUME SessionInv, pc \in AppPCs,
         pc' \in {"off"} \cup AppPCs, UNCHANGED <<lookup, tstat, reg, file>>,
         \A b \in Dynamic : Taken(b)' =>
           /\ b \in clip => b \in clip'
           /\ \A x \in recs : x.bank = b => x \in recs'
           /\ Taken(b) \/ Reached(b)'
  PROVE  NoLoss
<1>1. /\ pc # "off" /\ Entries = reg.apps /\ Entries' = reg.apps
      /\ Elsewhere /\ Elsewhere' /\ Known' = Known
  BY DEF Entries, Elsewhere, Known, AppPCs
<1>2. KnownApps' = KnownApps
  BY <1>1 DEF KnownApps
<1>3. KnownApps' = Known'
  BY <1>1, <1>2, KnownNow
<1>4. \A b \in Dynamic : Reached(b) /\ Taken(b)' => Reached(b)'
  BY <1>1 DEF Reached
<1>5. Orphans' \ Orphans \subseteq {lookup[t] : t \in Abandoned}
  BY <1>1, <1>3, <1>4, NoNewOrphan
<1> QED
  BY <1>5 DEF NoLoss

LEMMA TakeNoteLoss ==
  ASSUME SessionInv, SessionInv', OwnersLoaded, TakeNote
  PROVE  OwnersLoaded' /\ NoLoss
<1>1. PICK b \in Usable :
        /\ btype' = SetType(btype, {b}, "alloc")
        /\ recs' = recs \cup
                     {[app |-> tapp[cur], kind |-> "alloc", bank |-> b]}
  BY TakenFact DEF SessionInv
<1>2. /\ pc \in AppPCs /\ pc' \in AppPCs
      /\ UNCHANGED <<lookup, tstat, tapp, reg, file, clip>>
  BY DEF TakeNote, GoTo, AppPCs, tokenVars, catalogVars
<1>3. \A c \in Banks : c # b => btype'[c] = btype[c]
  BY <1>1 DEF SetType
<1>4. Reached(b)'
  <2> DEFINE rec == [app |-> tapp[cur], kind |-> "alloc", bank |-> b]
  <2>1. rec \in recs' /\ rec.bank = b
    BY <1>1
  <2> QED
    BY <2>1 DEF Reached
<1>5. NoLoss
  <2>1. \A c \in Dynamic : Taken(c)' => Taken(c) \/ Reached(c)'
    BY <1>3, <1>4 DEF Taken, Dynamic
  <2>2. recs \subseteq recs'
    BY <1>1
  <2> QED
    BY <1>2, <2>1, <2>2, AppLoss
<1>6. OwnersLoaded'
  <2>1. /\ Entries = reg.apps /\ Entries' = reg.apps /\ Known' = Known
        /\ pc # "off" /\ pc' # "resources"
    BY <1>2 DEF Entries, Elsewhere, Known, AppPCs
  <2>2. /\ cur \in Tokens /\ cur # 0 /\ tstat[cur] = "loaded"
        /\ tapp[cur] \in Known
    BY <1>2, AppAway
  <2>3. reg.apps[tapp[cur]].tok = cur
    BY <2>1, <2>2 DEF SessionInv, TokensInSession
  <2>4. \A x \in recs : x.kind = "alloc" =>
          /\ x.app \in Known /\ reg.apps[x.app].tok # 0
          /\ tstat[reg.apps[x.app].tok] = "loaded"
    BY <2>1 DEF OwnersLoaded
  <2>5. \A x \in recs' : x \in recs \/ x.app = tapp[cur]
    BY <1>1
  <2> QED
    BY <1>2, <2>1, <2>2, <2>3, <2>4, <2>5 DEF OwnersLoaded
<1> QED
  BY <1>5, <1>6

LEMMA GiveBackLoss ==
  ASSUME SessionInv, SessionInv', OwnersLoaded, NEW b \in held, GiveBack(b)
  PROVE  OwnersLoaded' /\ NoLoss
<1>1. /\ pc \in AppPCs /\ pc' \in AppPCs
      /\ recs' = {x \in recs : ~(x.kind = "alloc" /\ x.bank = b)}
      /\ btype' = FreeBank(btype, {b})
      /\ UNCHANGED <<lookup, tstat, tapp, reg, file, clip>>
  BY DEF GiveBack, RecordsWithout, GoTo, AppPCs, tokenVars, catalogVars
<1>2. \A c \in Dynamic : btype'[c] = IF c = b THEN "free" ELSE btype[c]
  BY <1>1, BankAssumption DEF FreeBank, FixedType, Dynamic, Banks
<1>3. \A c \in Dynamic : Taken(c)' =>
        Taken(c) /\ \A x \in recs : x.bank = c => x \in recs'
  BY <1>1, <1>2 DEF Taken
<1>4. NoLoss
  BY <1>1, <1>3, AppLoss
<1>5. OwnersLoaded'
  <2>1. /\ Entries = reg.apps /\ Entries' = reg.apps /\ Known' = Known
        /\ pc # "off" /\ pc' # "resources"
    BY <1>1 DEF Entries, Elsewhere, Known, AppPCs
  <2> QED
    BY <1>1, <2>1, OwnersKept
<1> QED
  BY <1>4, <1>5

LEMMA ClipLoss ==
  ASSUME SessionInv, SessionInv', OwnersLoaded,
         ClipCopy \/ \E S \in SUBSET clip : ClipFree(S)
  PROVE  OwnersLoaded' /\ NoLoss
<1>1. /\ pc = "app" /\ pc' = "app"
      /\ UNCHANGED <<lookup, tstat, reg, file, recs>>
  BY DEF ClipCopy, ClipFree, tokenVars, catalogVars
<1>2. \A b \in Dynamic : Taken(b)' =>
        /\ b \in clip => b \in clip'
        /\ Taken(b) \/ b \in clip'
  <2>1. CASE ClipCopy
    <3>1. PICK c : btype' = SetType(btype, {c}, "clip") /\ clip' = clip \cup {c}
      BY <2>1 DEF ClipCopy
    <3>2. \A b \in Banks : b # c => btype'[b] = btype[b]
      BY <3>1 DEF SetType
    <3> QED
      BY <3>1, <3>2 DEF Taken, Dynamic
  <2>2. CASE \E S \in SUBSET clip : ClipFree(S)
    <3>1. PICK S : btype' = FreeBank(btype, S) /\ clip' = clip \ S
      BY <2>2 DEF ClipFree
    <3>2. \A b \in Dynamic : btype'[b] = IF b \in S THEN "free" ELSE btype[b]
      BY <3>1, BankAssumption DEF FreeBank, FixedType, Dynamic, Banks
    <3> QED
      BY <3>1, <3>2 DEF Taken
  <2> QED
    BY <2>1, <2>2
<1>3. NoLoss
  BY <1>1, <1>2, AppLoss DEF Reached, AppPCs
<1>4. OwnersLoaded'
  <2>1. /\ Entries = reg.apps /\ Entries' = reg.apps /\ Known' = Known
        /\ pc # "off" /\ pc' # "resources"
    BY <1>1 DEF Entries, Elsewhere, Known, AppPCs
  <2> QED
    BY <1>1, <2>1, OwnersKept
<1> QED
  BY <1>3, <1>4

\* A quit frees what the app holds; a reset gives up nothing.
LEMMA OffLoss ==
  ASSUME SessionInv, Quit \/ NoRoom \/ Reset
  PROVE  OwnersLoaded' /\ NoLoss
<1>1. pc' = "off" /\ UNCHANGED <<lookup, tstat, reg, file, clip>>
  BY DEF Quit, NoRoom, Reset, PowerDown, tokenVars, catalogVars
<1>2. CASE pc \notin AppPCs
  BY <1>1, <1>2 DEF NoLoss, Working, OwnersLoaded
<1>3. CASE pc \in AppPCs
  <2>1. \A b \in Dynamic : Taken(b)' =>
          /\ \A x \in recs : x.bank = b => x \in recs'
          /\ Taken(b)
    <3>1. CASE Reset \/ NoRoom
      <4>1. UNCHANGED <<btype, recs>>
        BY <3>1 DEF Reset, NoRoom
      <4> QED
        BY <4>1 DEF Taken
    <3>2. CASE Quit
      <4>1. /\ recs' = {x \in recs : ~(x.kind = "alloc" /\ x.bank \in held)}
            /\ btype' = FreeBank(btype, held)
        BY <3>2 DEF Quit, RecordsWithout
      <4>2. \A b \in Dynamic :
              btype'[b] = IF b \in held THEN "free" ELSE btype[b]
        BY <4>1, BankAssumption DEF FreeBank, FixedType, Dynamic, Banks
      <4> QED
        BY <4>1, <4>2 DEF Taken
    <3> QED
      BY <3>1, <3>2
  <2>2. NoLoss
    BY <1>1, <1>3, <2>1, AppLoss
  <2> QED
    BY <1>1, <2>2 DEF OwnersLoaded
<1> QED
  BY <1>2, <1>3

-----------------------------------------------------------------------------
(***************************************************************************)
(* Starts                                                                  *)
(***************************************************************************)

LEMMA WarmInitLoss ==
  ASSUME SessionInv, SessionInv', OwnersLoaded, WarmInit
  PROVE  OwnersLoaded' /\ NoLoss
<1>1. pc = "return" /\ pc' = "menu" /\ UNCHANGED <<file, recs>>
  BY DEF WarmInit
<1>2. NoLoss
  BY <1>1 DEF NoLoss, Working
<1>3. /\ Entries = reg.apps /\ Entries' = WarmEntries /\ Known' = Known
      /\ pc # "off" /\ pc' # "resources" /\ Known \subseteq Apps
  BY <1>1, WarmFacts DEF Entries, Elsewhere, Known, Mirrored, AppPCs
<1>4. \A i \in Known : WarmEntries[i].tok = reg.apps[i].tok
  BY <1>3, WarmFacts
<1>5. \A i \in Known : reg.apps[i].tok # 0 => reg.apps[i].tok \in Tokens
  BY WarmFacts
<1>6. OwnersLoaded'
  BY <1>1, <1>3, <1>4, <1>5, WarmKeeps, OwnersKept
<1> QED
  BY <1>2, <1>6

LEMMA ColdLoss ==
  ASSUME Boot \/ BootError \/ ColdInit \/ ColdInitError
  PROVE  OwnersLoaded' /\ NoLoss
<1>1. pc \in {"off", "return"} /\ recs' = {}
  BY DEF Boot, BootError, ColdInit, ColdInitError, ColdCatalog, ColdError
<1> QED
  BY <1>1 DEF NoLoss, Working, OwnersLoaded

-----------------------------------------------------------------------------
(***************************************************************************)
(* Every step                                                              *)
(***************************************************************************)
LEMMA LauncherStepLoss ==
  ASSUME SessionInv, SessionInv', OwnersLoaded, LauncherNext
  PROVE  OwnersLoaded' /\ NoLoss
<1>1. CASE Boot \/ BootError \/ ColdInit \/ ColdInitError
  BY <1>1, ColdLoss
<1>2. CASE WarmInit
  BY <1>2, WarmInitLoss
<1>3. CASE \E i \in Apps : SelectLoad(i) \/ SelectLaunch(i) \/ Unload(i)
  BY <1>3, MenuLoss, UnloadLoss
<1>4. CASE \E p \in Manifests : \/ SelectManifest(p)
                                \/ \E i \in Apps : SelectKnownManifest(p, i)
  BY <1>4, MenuLoss, SelectManifestLoss DEF SelectKnownManifest
<1>5. CASE KeepToken \/ NoToken \/ DmaLoadFails \/ LoadFailed
  BY <1>5, MenuLoss
<1>6. CASE BindToken \/ PreloadFound \/ PreloadNotFound
  BY <1>6, BindTokenLoss, PreloadLoss DEF PreloadFound, PreloadNotFound
<1>7. CASE LoadResources \/ FinishLoad \/ ManifestFailed
  BY <1>7, LoadResourcesLoss, FinishLoadLoss, ManifestFailedLoss
<1>8. CASE PrepareLaunch \/ Start
  BY <1>8, PrepareLaunchLoss, StartLoss
<1> QED
  BY <1>1, <1>2, <1>3, <1>4, <1>5, <1>6, <1>7, <1>8 DEF LauncherNext

LEMMA AppStepLoss ==
  ASSUME SessionInv, SessionInv', OwnersLoaded, AppNext
  PROVE  OwnersLoaded' /\ NoLoss
<1>1. CASE \/ AppInit \/ ResumeNotes \/ StartNotes \/ NoteRefused \/ Return
           \/ \E s \in Slots : BindHotkey(s)
           \/ \E t \in Tokens : SwitchTo(t)
  BY <1>1, RunningLoss
<1>2. CASE TakeNote \/ \E b \in held : GiveBack(b)
  BY <1>2, TakeNoteLoss, GiveBackLoss
<1>3. CASE ClipCopy \/ ClipFree(clip) \/ \E b \in clip : ClipFree({b})
  <2>1. ClipCopy \/ \E S \in SUBSET clip : ClipFree(S)
    BY <1>3
  <2> QED
    BY <2>1, ClipLoss
<1>4. CASE NoRoom \/ Quit \/ Reset
  BY <1>4, OffLoss
<1> QED
  BY <1>1, <1>2, <1>3, <1>4 DEF AppNext

LEMMA StutterLoss ==
  ASSUME SessionInv, SessionInv', OwnersLoaded, UNCHANGED vars
  PROVE  OwnersLoaded' /\ NoLoss
<1>1. /\ UNCHANGED <<btype, lookup, tstat, file, recs, clip, pc, reg, ram,
                     job, count>>
  BY DEF vars, tokenVars, catalogVars, menuVars
<1>2. Entries' = Entries /\ Known' = Known /\ KnownApps' = KnownApps
  BY <1>1 DEF Entries, Elsewhere, Known, KnownApps, AppPCs
<1>3. OwnersLoaded'
  BY <1>1, <1>2 DEF OwnersLoaded
<1>4. NoLoss
  <2>1. CASE pc = "off"
    BY <2>1 DEF NoLoss, Working
  <2>2. CASE pc # "off"
    BY <1>1, <1>2, <2>2, KnownNow, QuietLoss
  <2> QED
    BY <2>1, <2>2
<1> QED
  BY <1>3, <1>4

LEMMA OwnersInit ==
  ASSUME Init
  PROVE  OwnersLoaded
BY DEF Init, OwnersLoaded

LEMMA StepLoss ==
  ASSUME SessionInv, SessionInv', OwnersLoaded, [Next]_vars
  PROVE  OwnersLoaded' /\ NoLoss
<1>1. CASE LauncherNext
  BY <1>1, LauncherStepLoss
<1>2. CASE AppNext
  BY <1>2, AppStepLoss
<1>3. CASE UNCHANGED vars
  BY <1>3, StutterLoss
<1> QED
  BY <1>1, <1>2, <1>3 DEF Next

\* Every record of an owned bank belongs to a loaded app, so that unloading,
\* failing and restarting, which drop an app's records, drop no bank that its
\* program still works with, and leave none behind.
\* Code: reu_alloc_owned_bank, launcher_free_app_resources.
THEOREM OwnersStayLoaded ==
  ASSUME NotShrunk, NoTrusting
  PROVE  Spec => []OwnersLoaded
<1>1. Spec => []SessionInv
  BY SessionInvariant
<1>2. Init => OwnersLoaded
  BY OwnersInit
<1>3. SessionInv /\ SessionInv' /\ OwnersLoaded /\ [Next]_vars => OwnersLoaded'
  BY StepLoss
<1> QED
  BY <1>1, <1>2, <1>3, PTL DEF Spec

\* From boot to quit no step takes a bank out of use without giving it back:
\* each bank stays with a token, a record, an app or the clipboard or becomes
\* free, but for the snapshot of an app whose manifest load was rolled back.
\* Code: unload_selected_from_reu, load_app_to_reu's failure paths,
\* launcher_free_app_resources, reu_free_owned_bank, clip_delete, Quit.
THEOREM NoStepLosesABank ==
  ASSUME NotShrunk, NoTrusting
  PROVE  Spec => NoBankLost
<1>1. Spec => []SessionInv /\ []OwnersLoaded
  BY SessionInvariant, OwnersStayLoaded
<1>2. SessionInv /\ SessionInv' /\ OwnersLoaded /\ [Next]_vars =>
        (Working =>
           Orphans' \ Orphans \subseteq {lookup[t] : t \in Abandoned})
  BY StepLoss DEF NoLoss
<1>3. [][Working =>
           Orphans' \ Orphans \subseteq {lookup[t] : t \in Abandoned}]_vars
        <=> NoBankLost
  BY DEF NoBankLost
<1> QED
  BY <1>1, <1>2, <1>3, PTL DEF Spec

-----------------------------------------------------------------------------
(***************************************************************************)
(* Returns to the launcher, as long as no manifest extends the catalog: a  *)
(* manifest load that is rolled back leaves the published registry longer  *)
(* than the catalog (rollback_manifest_app), and the launcher then refuses *)
(* it.                                                                     *)
(***************************************************************************)

NoManifests == Manifests = {}

\* The registry lists the whole catalog.
CatalogWhole ==
  /\ job.kind # "manifest"
  /\ pc # "off" => Known = 1 .. reg.count /\ reg.count # 0

\* A step keeps it that leaves the files alone and publishes, if anything,
\* the launcher's own entries.
LEMMA WholeKept ==
  ASSUME SessionInv, CatalogWhole, pc # "off", file' = file,
         reg'.count = reg.count \/ (AtLauncher /\ reg'.count = count),
         job' = job \/ job'.kind # "manifest"
  PROVE  CatalogWhole'
<1>1. Known' = Known
  BY DEF Known
<1>2. AtLauncher => Known = 1 .. count
  BY DEF SessionInv, CatalogInSession
<1>3. count \in 0 .. MaxApps /\ reg.count \in 0 .. MaxApps
  BY StateFacts DEF SessionInv
<1>4. Known = 1 .. reg.count /\ reg.count # 0 /\ job.kind # "manifest"
  BY DEF CatalogWhole
<1>5. AtLauncher => count # 0
  BY <1>2, <1>3, <1>4
<1> QED
  BY <1>1, <1>2, <1>4, <1>5 DEF CatalogWhole

LEMMA WholeCold ==
  ASSUME NEW bt, NEW hk, ColdCatalog(bt, hk)
  PROVE  CatalogWhole'
<1>1. /\ job' = NoJob /\ pc' = "menu" /\ file' = DiskFiles
      /\ reg' = Published(Len(DiskCatalog), DiskApps)
  BY DEF ColdCatalog
<1>2. Len(DiskCatalog) \in Apps /\ DiskCatalog \in Seq(Prog) /\ None \notin Prog
  BY CatalogAssumption
<1>3. Known' = 1 .. Len(DiskCatalog)
  <2>1. \A i \in 1 .. Len(DiskCatalog) : DiskCatalog[i] # None
    BY <1>2
  <2>2. MaxApps \in Nat
    BY CatalogAssumption
  <2> QED
    BY <1>1, <1>2, <2>1, <2>2 DEF Known, DiskFiles, Apps
<1>4. reg'.count = Len(DiskCatalog) /\ Len(DiskCatalog) # 0
  BY <1>1, <1>2, AppsFact DEF Published
<1> QED
  BY <1>1, <1>3, <1>4 DEF CatalogWhole, NoJob

LEMMA WholeOff ==
  ASSUME pc' = "off", job' = NoJob
  PROVE  CatalogWhole'
BY DEF CatalogWhole, NoJob

LEMMA WholeLauncher ==
  ASSUME NoManifests, SessionInv, CatalogWhole, LauncherNext
  PROVE  CatalogWhole'
<1>1. CASE Boot \/ ColdInit
  BY <1>1, WholeCold DEF Boot, ColdInit
<1>2. CASE BootError \/ ColdInitError
  BY <1>2, WholeOff DEF BootError, ColdInitError, ColdError
<1>3. CASE WarmInit
  <2>1. /\ pc = "return" /\ job' = NoJob /\ file' = file
        /\ reg'.count = reg.count
    BY <1>3, WarmFacts DEF WarmInit, Mirrored, Published
  <2> QED
    BY <2>1, WholeKept DEF NoJob
<1>4. CASE \E i \in Apps : SelectLoad(i) \/ SelectLaunch(i)
  <2>1. /\ pc = "menu" /\ UNCHANGED <<reg, file>>
        /\ job' \in {job, NoJob} \/ job'.kind \in {"load", "launch"}
    BY <1>4 DEF SelectLoad, SelectLaunch, BackToMenu, catalogVars
  <2> QED
    BY <2>1, WholeKept DEF NoJob
<1>5. CASE \E i \in Apps : Unload(i)
  <2>1. /\ pc = "menu" /\ UNCHANGED <<file, job>> /\ reg'.count = count
    BY <1>5 DEF Unload, Published
  <2> QED
    BY <2>1, WholeKept DEF AtLauncher, AppPCs
<1>6. CASE KeepToken \/ NoToken \/ DmaLoadFails \/ PreloadFound \/ PreloadNotFound
  <2>1. pc \in {"alloc", "preload"} /\ UNCHANGED <<file, reg, job>>
    BY <1>6 DEF KeepToken, NoToken, DmaLoadFails, PreloadFound,
                PreloadNotFound, Preload, GoTo, catalogVars
  <2> QED
    BY <2>1, WholeKept
<1>7. CASE BindToken
  <2>1. pc = "alloc" /\ UNCHANGED <<file, job>> /\ reg'.count = count
    BY <1>7 DEF BindToken, GoTo, Published
  <2> QED
    BY <2>1, WholeKept DEF AtLauncher, AppPCs
<1>8. CASE LoadResources \/ PrepareLaunch
  <2>1. /\ pc \in {"resources", "launch"} /\ file' = file
        /\ job' \in {job, NoJob}
        /\ reg' = reg \/ reg'.count = count
    <3>1. CASE LoadResources
      BY <3>1 DEF LoadResources, MirrorIf, GoTo, Published
    <3>2. CASE PrepareLaunch
      BY <3>2 DEF PrepareLaunch, MirrorIf, GoTo, BackToMenu, Published
    <3> QED
      BY <1>8, <3>1, <3>2
  <2> QED
    BY <2>1, WholeKept DEF AtLauncher, NoJob, AppPCs
<1>9. CASE FinishLoad
  <2>1. /\ pc = "loaded" /\ file' = file /\ reg'.count = count
        /\ job' \in {job, NoJob}
    BY <1>9 DEF FinishLoad, GoTo, BackToMenu, Published
  <2> QED
    BY <2>1, WholeKept DEF AtLauncher, NoJob, AppPCs
<1>10. CASE LoadFailed \/ Start
  <2>1. pc \in {"failed", "start"} /\ UNCHANGED <<reg, file>> /\ job' = NoJob
    BY <1>10 DEF LoadFailed, Start, RunImage, BackToMenu, catalogVars
  <2> QED
    BY <2>1, WholeKept DEF NoJob
<1>11. CASE ManifestFailed
  BY <1>11 DEF ManifestFailed, CatalogWhole
<1>12. ~\E p \in Manifests : \/ SelectManifest(p)
                             \/ \E i \in Apps : SelectKnownManifest(p, i)
  BY DEF NoManifests
<1> QED
  BY <1>1, <1>2, <1>3, <1>4, <1>5, <1>6, <1>7, <1>8, <1>9, <1>10, <1>11, <1>12
     DEF LauncherNext

LEMMA WholeApp ==
  ASSUME SessionInv, CatalogWhole, AppNext
  PROVE  CatalogWhole'
<1>1. CASE NoRoom \/ Quit \/ Reset
  BY <1>1, WholeOff DEF NoRoom, Quit, Reset, PowerDown
<1>2. CASE ~(NoRoom \/ Quit \/ Reset)
  <2>1. /\ pc \in AppPCs /\ UNCHANGED <<reg, file>>
        /\ job' \in {job, NoJob}
    BY <1>2 DEF AppNext, AppInit, ResumeNotes, StartNotes, TakeNote,
                NoteRefused, GiveBack, ClipCopy, ClipFree, BindHotkey, Return,
                SwitchTo, RunImage, GoTo, AppPCs, catalogVars
  <2> QED
    BY <2>1, WholeKept DEF NoJob, AppPCs
<1> QED
  BY <1>1, <1>2

LEMMA WholeNext ==
  ASSUME NoManifests, SessionInv, CatalogWhole, [Next]_vars
  PROVE  CatalogWhole'
<1>1. CASE Next
  BY <1>1, WholeLauncher, WholeApp DEF Next
<1>2. CASE UNCHANGED vars
  BY <1>2 DEF vars, catalogVars, CatalogWhole, Known
<1> QED
  BY <1>1, <1>2

\* A registry that lists the whole catalog is never refused.
LEMMA WholeValid ==
  ASSUME SessionInv, CatalogWhole, pc = "return"
  PROVE  RegistryValid
<1>1. /\ IInv /\ Entries = reg.apps /\ reg.count \in 0 .. MaxApps
      /\ Known = 1 .. reg.count /\ reg.count # 0
  BY EntriesAt, StateFacts DEF SessionInv, Away, CatalogWhole, AppPCs
<1>2. \A i \in Known : reg.apps[i].tok # 0 =>
        tstat[reg.apps[i].tok] # "free" /\ tapp[reg.apps[i].tok] = i
  BY <1>1 DEF SessionInv, TokensInSession
<1>3. ASSUME NEW i \in 1 .. reg.count, reg.apps[i].tok # 0,
             NEW j \in (i + 1) .. reg.count, reg.apps[j].tok = reg.apps[i].tok
      PROVE  FALSE
  <2>1. j \in 1 .. reg.count /\ j # i
    BY <1>1
  <2> QED
    BY <1>1, <1>2, <1>3, <2>1
<1>4. \A i \in 1 .. reg.count : file[i] # None
  BY <1>1 DEF Known
<1> QED
  BY <1>1, <1>2, <1>3, <1>4 DEF RegistryValid

\* Only a start changes tables while nothing runs.
LEMMA ReturnKeeps ==
  ASSUME SessionInv, CatalogWhole, [Next]_vars, pc = "return",
         NEW t \in Tokens, tstat[t] = "loaded"
  PROVE  tstat'[t] = "loaded" /\ tapp'[t] = tapp[t]
<1>1. CASE UNCHANGED vars
  BY <1>1 DEF vars, tokenVars
<1>2. CASE LauncherNext
  <2>1. WarmInit
    BY <1>2, WholeValid
       DEF LauncherNext, Boot, BootError, ColdInit, ColdInitError, SelectLoad,
           SelectLaunch, Unload, SelectManifest, SelectKnownManifest,
           KeepToken, BindToken, NoToken, PreloadFound, PreloadNotFound,
           Preload, DmaLoadFails, LoadResources, FinishLoad, LoadFailed,
           ManifestFailed, PrepareLaunch, Start
  <2> QED
    BY <2>1, WarmKeeps
<1>3. CASE AppNext
  <2>1. Reset
    BY <1>3 DEF AppNext, AppInit, ResumeNotes, StartNotes, TakeNote,
                NoteRefused, GiveBack, NoRoom, ClipCopy, ClipFree, BindHotkey,
                Return, SwitchTo, Quit
  <2> QED
    BY <2>1 DEF Reset, tokenVars
<1> QED
  BY <1>1, <1>2, <1>3 DEF Next

\* An app that returns leaves every loaded app loaded: the launcher starts
\* warm, from a registry that it accepts, and frees no loaded token.
\* Code: launcher_init, validate_slot_contract, sync_from_readyos_state,
\* launcher_mirror_reu_control.
THEOREM ReturnsKeepLoadedApps ==
  ASSUME NotShrunk, NoTrusting, NoManifests
  PROVE  Spec => ReturnKeepsLoaded
<1>1. Spec => []SessionInv
  BY SessionInvariant
<1>2. Init => CatalogWhole
  BY DEF Init, CatalogWhole, NoJob
<1>3. SessionInv /\ CatalogWhole /\ [Next]_vars => CatalogWhole'
  BY WholeNext
<1>4. SessionInv /\ CatalogWhole /\ [Next]_vars =>
        (pc = "return" => \A t \in Tokens : tstat[t] = "loaded" =>
           tstat'[t] = "loaded" /\ tapp'[t] = tapp[t])
  BY ReturnKeeps
<1>5. [][pc = "return" => \A t \in Tokens : tstat[t] = "loaded" =>
           tstat'[t] = "loaded" /\ tapp'[t] = tapp[t]]_vars
        <=> ReturnKeepsLoaded
  BY DEF ReturnKeepsLoaded
<1> QED
  BY <1>1, <1>2, <1>3, <1>4, <1>5, PTL DEF Spec
=============================================================================
