---------------------------- MODULE LauncherMenu ----------------------------
(***************************************************************************)
(* The launcher's catalog and menu (src/apps/launcher/launcher.c, disk      *)
(* flavour): reading apps.cfg and app manifests line by line, what is run   *)
(* or loaded at the start, the menu and its drawing, and what is restored   *)
(* when an app returns.                                                     *)
(*                                                                         *)
(* A line of a file is a tuple: blank or a comment, a [section], a key and  *)
(* its value, the fields of an entry, or other text.  A field is one value, *)
(* and loading an app succeeds or fails as a whole: ReadyOs has the banks.  *)
(***************************************************************************)
EXTENDS Integers, Sequences, SequencesExt, FiniteSetsExt

CONSTANTS
  MAX_APPS,      \* the first of which loads all others
  APPS_HEIGHT,   \* rows of the menu
  Number,        \* what a field of digits is worth
  PrgError,      \* by name of a program that is refused: the error
  Resource,      \* by resource field: its set, and whether dependencies follow
  Slots,         \* hotkeys
  Banks,         \* how many the REU has for apps
  Catalogs,      \* what may be written: name, boot, all, first and apps
  Layouts,       \* numbers of lines before which there is a blank one
  Manifests,     \* their lines
  MaxSteps       \* loads, launches and manifests

VARIABLES
  ram,    \* the program's data; screen is what the screen shows
  store,  \* the ReadyOS bank: text, registry, tokens, hotkeys; what to resume
  disk,   \* apps.cfg: its lines, of which catalog, how many can be read, and part of one
  todo    \* steps taken, and what was asked for last

vars == <<ram, store, disk, todo>>

Blank      == <<"blank">>
Section(x) == <<"section", x>>
Pair(k, v) == <<"pair", k, v>>
Entry(fs)  == <<"entry", fs>>

-----------------------------------------------------------------------------
\* parse_catalog_entry_line
Parsed(fields) ==
  LET n     == Len(fields)
      slot  == IF n >= 4 THEN fields[4] ELSE ""
      drive == IF fields[1] \in DOMAIN Number THEN Number[fields[1]] % 65536 ELSE 0
      \* A lone fourth field that is no number is the resource.
      lone  == n = 4 /\ slot \notin DOMAIN Number
      named == IF lone THEN slot ELSE IF n = 5 THEN fields[5] ELSE ""
      no(e) == <<"error", e>>
  IN  IF n < 3 THEN no("format")
      ELSE IF n > 5 THEN no("hotkey")
      ELSE IF drive \notin 8 .. 11 THEN no("drive")
      ELSE IF fields[2] \in DOMAIN PrgError THEN no(PrgError[fields[2]])
      ELSE IF fields[3] = "" THEN no("label")
      ELSE IF ~lone /\ slot # "" /\ (IF slot \in DOMAIN Number THEN Number[slot] \notin 1 .. 9 ELSE TRUE)
      THEN no("hotkey")
      ELSE IF named \notin DOMAIN Resource THEN no("resource")
      ELSE <<"ok", [drive |-> drive, prg |-> fields[2], label |-> fields[3],
                    slot |-> IF lone \/ slot = "" THEN 0 ELSE Number[slot],
                    res  |-> Resource[named].set, dep |-> Resource[named].dep]>>
ParsedLine(line) == IF line[1] = "entry" THEN Parsed(line[2]) ELSE <<"error", "format">>

NoText == [prg |-> "", label |-> "", desc |-> Blank]
\* An entry of the catalog: its texts are in the ReadyOS bank.
SetOf(e) ==
  IF e.res # "none" THEN e.res
  ELSE IF e.prg \in {"readyshell", "readybasic"} THEN e.prg ELSE "none"
App(e)  == [drive |-> e.drive, slot |-> e.slot, res |-> SetOf(e), token |-> 0]
Text(e, desc) == [prg |-> e.prg, label |-> e.label, desc |-> desc]
IsRoom(r) == Len(r.apps) + 1 < MAX_APPS
Added(r, e) == [r EXCEPT !.apps = Append(@, App(e)), !.cache.start = 255]
Stored(s, r, e, desc) == [s EXCEPT !.text[Len(r.apps) + 1] = Text(e, desc)]

-----------------------------------------------------------------------------
\* The menu: entry 0 browses for a manifest, entry 1 loads all, entry i + 1 is app i.
Count(r)   == Len(r.apps) + 2
MenuOf(i)  == i + 1
AppOf(k)   == k - 1
IsApp(r, i) == i \in DOMAIN r.apps
NameOf(s, k) == CASE k = 0 -> "browse" [] k = 1 -> "load all" [] OTHER -> s.text[AppOf(k)].label
Refreshed(r, s) ==
  IF r.cache.start = r.scroll THEN r
  ELSE [r EXCEPT !.cache = [start |-> r.scroll,
                            names |-> [row \in 1 .. APPS_HEIGHT |->
                              IF r.scroll + row - 1 < Count(r) THEN NameOf(s, r.scroll + row - 1)
                              ELSE ""]]]
CachedName(r, s, k) ==
  IF k >= r.cache.start /\ k - r.cache.start < APPS_HEIGHT
  THEN r.cache.names[k - r.cache.start + 1] ELSE NameOf(s, k)

InWindow(r, s) ==
  LET sel    == Min({r.sel, Count(r) - 1})
      scroll == Min({r.scroll, Max({0, Count(r) - APPS_HEIGHT})})
  IN  Refreshed([r EXCEPT !.sel = sel,
                          !.scroll = IF sel < scroll THEN sel
                                     ELSE Max({scroll, sel - APPS_HEIGHT + 1})], s)

SlotOf(s, token) ==
  LET mine == {k \in Slots : s.hot[k] = token}
  IN  IF token = 0 \/ mine = {} THEN 0 ELSE Min(mine)
Item(r, s, k, name) ==
  LET i == AppOf(k) IN
  IF IsApp(r, i)
  THEN [at |-> k = r.sel, name |-> name, drive |-> r.apps[i].drive,
        tag |-> SlotOf(s, r.apps[i].token), in |-> i \in r.in]
  ELSE [at |-> k = r.sel, name |-> name, drive |-> 0, tag |-> 0, in |-> FALSE]
NoItem == [at |-> FALSE, name |-> "", drive |-> 0, tag |-> 0, in |-> FALSE]
MenuItem(r, s, k) == IF k < Count(r) THEN Item(r, s, k, CachedName(r, s, k)) ELSE NoItem
MenuRows(r, s) == [row \in 1 .. APPS_HEIGHT |-> MenuItem(r, s, r.scroll + row - 1)]

\* draw_app_desc
Desc(r, s) ==
  LET i == AppOf(r.sel) IN
  IF ~IsApp(r, i) THEN <<<<"text", NameOf(s, r.sel)>>, "">>
  ELSE <<s.text[i].desc,
         IF r.apps[i].token = 0 THEN ""
         ELSE IF i \in r.in THEN "reu" ELSE "disk">>
Title(r) == IF r.cfg.boot # "" THEN r.cfg.boot ELSE r.cfg.name

Drawn(r0, s) ==
  LET r == InWindow(r0, s)
  IN  [r EXCEPT !.screen = [rows |-> MenuRows(r, s), desc |-> Desc(r, s),
                            title |-> Title(r), notice |-> r.notice]]

\* What a key that only moves draws
RedrawnItem(r, s, k) ==
  IF k < r.scroll \/ k >= r.scroll + APPS_HEIGHT THEN r
  ELSE [r EXCEPT !.screen.rows[k - r.scroll + 1] = MenuItem(r, s, k)]
Redrawn(r, s, was) ==
  IF was.sel = r.sel THEN r
  ELSE LET d == IF was.scroll # r.scroll THEN [r EXCEPT !.screen.rows = MenuRows(r, s)]
                ELSE RedrawnItem(RedrawnItem(r, s, was.sel), s, r.sel)
       IN  [d EXCEPT !.screen.desc = Desc(r, s)]

-----------------------------------------------------------------------------
\* The tokens of the apps in the REU, and the copy of the registry
TokensOf(r) == {r.apps[i].token : i \in DOMAIN r.apps} \ {0}
Mirrored(r, s) ==
  [s EXCEPT !.registry = [apps |-> r.apps, all |-> r.cfg.all, name |-> r.cfg.name],
            !.valid    = @ \cap TokensOf(r),
            !.loaded   = {r.apps[i].token : i \in r.in}]
Synced(r, s) == [r EXCEPT !.in = {i \in DOMAIN r.apps : r.apps[i].token \in s.loaded}]
NewToken(r, s) ==
  CHOOSE t \in 1 .. 2 * MAX_APPS :
    /\ t \notin s.valid \cup TokensOf(r)
    /\ \A u \in 1 .. t - 1 : u \in s.valid \cup TokensOf(r)

\* launcher_bind_default_hotkey_for_index, launcher_seed_default_hotkeys
Bound(r, s, i) ==
  LET slot == r.apps[i].slot
  IN  IF slot \notin Slots THEN s
      ELSE IF s.hot[slot] # 0 THEN s ELSE [s EXCEPT !.hot[slot] = r.apps[i].token]
Seeded(r, s) == FoldLeft(LAMBDA t, i : Bound(r, t, i), s, [i \in DOMAIN r.apps |-> i])

\* load_app_to_reu: the program and the bank, after the launcher has looked at them again.
Load(r, s, i, ok) ==
  LET t  == IF r.apps[i].token # 0 THEN r.apps[i].token ELSE NewToken(r, s)
      s1 == IF r.apps[i].token # 0 THEN s
            ELSE [s EXCEPT !.valid = @ \cup {t}, !.used = @ + 1]
      r2 == [r EXCEPT !.apps[i].token = t, !.in = IF ok THEN @ \cup {i} ELSE @ \ {i}]
  IN  IF r.apps[i].token = 0 /\ s.used >= Banks THEN <<r, s>>
      ELSE <<r2, Mirrored(r2, IF ok THEN Bound(r2, s1, i) ELSE s1)>>

\* load_all_to_reu_internal
LoadAll(r, s, good) ==
  FoldLeft(LAMBDA p, i : IF i \in p[1].in THEN p ELSE Load(p[1], p[2], i, i \in good),
           <<r, s>>, [i \in DOMAIN r.apps |-> i])
AllLoaded(r) == r.in = DOMAIN r.apps

Noticed(r, n)      == [r EXCEPT !.notice = n]
NoticedFirst(r, n) == IF r.notice = "" THEN Noticed(r, n) ELSE r

\* launch_app: into the app, or back with a notice.
Launch(r, s, i, ok) ==
  IF ~IsApp(r, i) THEN <<r, s>>
  ELSE LET p == IF i \in r.in THEN <<r, s>> ELSE Load(r, s, i, ok)
       IN  IF i \notin p[1].in THEN <<NoticedFirst(p[1], "app load failed"), p[2]>>
           ELSE <<[p[1] EXCEPT !.phase = "app"],
                  [p[2] EXCEPT !.resume = [sel |-> MenuOf(i), scroll |-> p[1].scroll]]>>

\* launcher_find_app_by_prg
FindByPrg(r, s, prg) ==
  LET is == {i \in DOMAIN r.apps : s.text[i].prg = prg}
  IN  IF is = {} THEN Len(r.apps) + 1 ELSE Min(is)

\* launcher_apply_startup_actions; app_count, which is not 0, stands for not found.
\* Mutant: it stands for not found in either case.
FirstRunAnyway(r, s, ok) ==
  LET i == FindByPrg(r, s, r.cfg.first)
  IN  IF r.cfg.first = "" THEN <<r, s>>
      ELSE Launch([r EXCEPT !.cfg.first = ""], s, i, ok)
FirstRun(r, s, ok) ==
  LET i == FindByPrg(r, s, r.cfg.first)
  IN  IF r.cfg.first = "" THEN <<r, s>>
      ELSE IF ~r.cfg.all /\ i > Len(r.apps) THEN <<Noticed(r, "runappfirst app not found"), s>>
      ELSE Launch([r EXCEPT !.cfg.first = ""], s, i, ok)
StartUp(r, s, good) ==
  IF ~r.cfg.all THEN FirstRun(r, s, FindByPrg(r, s, r.cfg.first) \in good)
  ELSE LET p == LoadAll(r, s, good)
       IN  IF AllLoaded(p[1]) THEN FirstRun(p[1], p[2], TRUE)
           ELSE <<Noticed(p[1], "auto preload incomplete"), p[2]>>

-----------------------------------------------------------------------------
\* load_catalog_from_disk, line by line
NoPending == [state |-> "entry"]
Defaults ==
  [phase |-> "read", line |-> 1, section |-> "", pending |-> NoPending, err |-> "",
   cfg |-> [name |-> "readyos", boot |-> "", all |-> FALSE, first |-> ""],
   apps |-> <<>>, in |-> {}, sel |-> 0, scroll |-> 0, cache |-> [start |-> 255, names |-> <<>>],
   notice |-> "", screen |-> <<>>]
Error(r, e) == [r EXCEPT !.phase = "error", !.err = e, !.pending = NoPending]
UnfinishedError(r) == IF r.pending.state = "desc" THEN "missing desc" ELSE "resource"

SystemPair(r, k, v) ==
  CASE k = "variant_name" /\ v # "" -> [r EXCEPT !.cfg.name = v]
    [] k = "variant_boot_name"      -> [r EXCEPT !.cfg.boot = v]
    [] OTHER -> r
LauncherPair(r, k, v) ==
  CASE k = "load_all_to_reu" -> [r EXCEPT !.cfg.all = (v = "1")]
    [] k = "runappfirst" /\ v # "" ->
         IF v \in DOMAIN PrgError THEN Error(r, PrgError[v]) ELSE [r EXCEPT !.cfg.first = v]
    [] OTHER -> r

\* What a line does to the program and to the bank
Completed(r, s, e, desc) ==
  IF ~IsRoom(r) THEN <<Error(r, "too many"), s>>
  ELSE <<[Added(r, e) EXCEPT !.pending = NoPending], Stored(s, r, e, desc)>>
AppLine(r, s, line) ==
  LET p == r.pending IN
  CASE p.state = "entry" ->
         LET e == ParsedLine(line)
         IN  IF e[1] = "error" THEN <<Error(r, e[2]), s>>
             ELSE <<[r EXCEPT !.pending = [state |-> "desc", entry |-> e[2]]], s>>
    [] p.state = "desc" /\ p.entry.dep ->
         <<[r EXCEPT !.pending = [state |-> "dep", entry |-> p.entry, desc |-> line]], s>>
    [] p.state = "desc" /\ ~p.entry.dep -> Completed(r, s, p.entry, line)
    [] p.state = "dep" -> Completed(r, s, p.entry, p.desc)
Taken(r, s, line) ==
  CASE line = Blank -> <<r, s>>
    [] line[1] = "section" ->
         IF r.pending # NoPending THEN <<Error(r, UnfinishedError(r)), s>>
         ELSE <<[r EXCEPT !.section = line[2]], s>>
    [] line[1] # "section" /\ line # Blank ->
         CASE r.section = "apps" -> AppLine(r, s, line)
           [] r.section = "system" /\ line[1] = "pair" -> <<SystemPair(r, line[2], line[3]), s>>
           [] r.section = "launcher" /\ line[1] = "pair" -> <<LauncherPair(r, line[2], line[3]), s>>
           [] OTHER -> <<r, s>>

\* validate_slot_contract: what a cold start cannot break, a copy of the registry may.
Valid(r, s) ==
  /\ r.apps # <<>>
  /\ \A i \in DOMAIN r.apps : s.text[i].prg # ""
  /\ \A i, j \in DOMAIN r.apps : i # j => r.apps[i].token # r.apps[j].token \/ r.apps[i].token = 0
  /\ TokensOf(r) \subseteq s.valid

\* launcher_init from the menu on, with a cold or a restored catalog
Prepared(r0, s0) ==
  LET r == Synced(InWindow(r0, s0), s0)
  IN  <<r, Seeded(r, Mirrored(r, s0))>>
Settled(p) ==
  IF p[1].phase = "app" THEN <<[p[1] EXCEPT !.screen = <<>>], p[2]>>
  ELSE <<Drawn([p[1] EXCEPT !.phase = "menu"], p[2]), p[2]>>

-----------------------------------------------------------------------------
\* What is written: the fields that are not given are left out.
AppLines(a) ==
  LET fields == <<a.drive, a.prg, a.label>>
                \o (IF a.slot = "" THEN <<>> ELSE <<a.slot>>)
                \o (IF a.res = "" THEN <<>> ELSE <<a.res>>)
  IN  <<Entry(fields), a.desc>>
      \o (IF a.res # "" /\ Resource[a.res].dep THEN <<<<"text", "deps">>>> ELSE <<>>)
Heading(c) ==
  <<Section("system"), Pair("variant_name", c.name), Pair("variant_boot_name", c.boot),
    Pair("reu_bank_skip", "0"), Section("launcher"),
    Pair("load_all_to_reu", IF c.all THEN "1" ELSE "0"), Pair("runappfirst", c.first),
    Section("apps")>>
Lines(c) == Heading(c) \o FlattenSeq([i \in DOMAIN c.apps |-> AppLines(c.apps[i])])
Spaced(lines, blanks) ==
  FlattenSeq([k \in DOMAIN lines |-> IF k \in blanks THEN <<Blank, lines[k]>> ELSE <<lines[k]>>])

\* One line is lost, or one field of an entry is not as it must be.
BadFields == <<{"7", "12", "x", ""}, DOMAIN PrgError, {""}, {"0", "12"}, {"bad"}>>
Spoilt(c) ==
  LET lines == Lines(c)
      ks == {k \in DOMAIN lines : k > Len(Heading(c))}
      es == {k \in ks : lines[k][1] = "entry"}
  IN  {RemoveAt(lines, k) : k \in ks}
      \cup UNION {UNION {{[lines EXCEPT ![k][2][j] = v] : v \in BadFields[j]}
                         : j \in DOMAIN lines[k][2]} : k \in es}
      \cup {[lines EXCEPT ![k][2] = SubSeq(@, 1, 2)] : k \in es}
      \cup {[lines EXCEPT ![k][2] = <<"8", "p", "l", "1", "", "">>] : k \in es}

\* Part of a line, when the drive fails in it
Parts(line) ==
  CASE line[1] = "entry"   -> {Entry(SubSeq(line[2], 1, k)) : k \in DOMAIN line[2]}
    [] line[1] = "text"    -> {<<"text", "part">>}
    [] line[1] = "section" -> {Section("part")}
    [] OTHER -> {Blank}

Whole(c, lines) == [lines |-> lines, of |-> c, part |-> Blank, what |-> "whole"]
Disks(c) ==
  {Whole(c, Spaced(Lines(c), blanks)) : blanks \in Layouts}
  \cup {[Whole(c, lines) EXCEPT !.what = "spoilt"] : lines \in Spoilt(c)}
  \cup UNION {{[lines |-> SubSeq(Lines(c), 1, n), of |-> c, part |-> part, what |-> "cut"]
                 : part \in Parts(Lines(c)[n + 1]) \cup {Blank}} : n \in 0 .. Len(Lines(c)) - 1}

NothingDone == [what |-> "none"]
Fresh ==
  [text |-> [i \in 1 .. MAX_APPS - 1 |-> NoText], registry |-> [apps |-> <<>>, all |-> FALSE, name |-> ""],
   valid |-> {}, loaded |-> {}, used |-> 0, hot |-> [k \in Slots |-> 0], resume |-> [sel |-> 0, scroll |-> 0]]

Init ==
  /\ \E c \in Catalogs : disk \in Disks(c)
  /\ ram = Defaults /\ store = Fresh
  /\ todo = [steps |-> 0, last |-> NothingDone]

\* load_catalog_from_disk, launcher_init
FileLines == IF disk.part = Blank THEN disk.lines ELSE Append(disk.lines, disk.part)
ReadLine ==
  /\ ram.phase = "read" /\ ram.line <= Len(FileLines)
  /\ LET p == Taken([ram EXCEPT !.line = @ + 1], store, FileLines[ram.line])
     IN  ram' = p[1] /\ store' = p[2]
  /\ UNCHANGED <<disk, todo>>

Refuse ==
  /\ ram.phase = "read" /\ ram.line > Len(FileLines)
  /\ ram.pending # NoPending \/ ram.apps = <<>>
  /\ ram' = Error(ram, IF ram.pending # NoPending THEN UnfinishedError(ram) ELSE "empty")
  /\ UNCHANGED <<store, disk, todo>>

\* After a cold start within a session nothing is run (suppress_startup_once).
StartMenu(good) ==
  /\ ram.phase = "read" /\ ram.line > Len(FileLines)
  /\ ram.pending = NoPending /\ ram.apps # <<>> /\ good \subseteq DOMAIN ram.apps
  /\ LET p == Prepared([ram EXCEPT !.line = 0, !.section = ""], store)
         q == Settled(IF todo.steps = 0 THEN StartUp(p[1], p[2], good) ELSE p)
     IN  /\ ram' = q[1] /\ store' = q[2]
         /\ todo' = [todo EXCEPT !.last = [what |-> "start", good |-> good]]
  /\ UNCHANGED disk

\* A key in the menu
InMenu == ram.phase = "menu" /\ disk.what = "whole"
Moved(r) ==
  LET w == InWindow(r, store)
  IN  /\ ram' = Redrawn(w, store, ram)
      /\ todo' = [todo EXCEPT !.last = NothingDone] /\ UNCHANGED <<store, disk>>
Up   == InMenu /\ ram.sel > 0 /\ Moved([ram EXCEPT !.sel = @ - 1, !.scroll = Min({@, ram.sel - 1})])
Down ==
  /\ InMenu /\ ram.sel < Count(ram) - 1
  /\ Moved([ram EXCEPT !.sel = @ + 1, !.scroll = Max({@, ram.sel + 2 - APPS_HEIGHT})])
Home == InMenu /\ Moved([ram EXCEPT !.sel = 0, !.scroll = 0])

Does(p, what) ==
  /\ LET q == Settled(p) IN ram' = q[1] /\ store' = q[2]
  /\ todo' = [steps |-> todo.steps + 1, last |-> what] /\ UNCHANGED disk
MayDo == InMenu /\ todo.steps < MaxSteps

LaunchApp(i, ok) ==
  Does(Launch(ram, store, i, ok), [what |-> "launch", app |-> i])
ReturnKey(ok) == MayDo /\ IsApp(ram, AppOf(ram.sel)) /\ LaunchApp(AppOf(ram.sel), ok)
\* The app that has the token, be it loaded or not
Hotkey(slot, ok) ==
  /\ MayDo /\ store.hot[slot] # 0
  /\ \E i \in DOMAIN ram.apps : ram.apps[i].token = store.hot[slot] /\ LaunchApp(i, ok)
LoadAllKey(good) ==
  /\ MayDo /\ good \subseteq DOMAIN ram.apps \ ram.in
  /\ Does(LoadAll(ram, store, good), [what |-> "load all"])
LoadKey(ok) ==
  /\ MayDo /\ LET i == AppOf(ram.sel) IN
       IsApp(ram, i) /\ i \notin ram.in
       /\ Does(Load(ram, store, i, ok), [what |-> "load"])

\* unload_selected_from_reu
Unload(r, s, i) ==
  LET t  == r.apps[i].token
      r2 == [r EXCEPT !.apps[i].token = 0, !.in = @ \ {i}]
  IN  IF t = 0 \/ i \notin r.in THEN <<Noticed(r, "selected app not loaded"), s>>
      ELSE <<Noticed(r2, "selected app unloaded from reu"),
             Mirrored(r2, [s EXCEPT !.used = @ - 1,
                                  !.hot = [k \in Slots |-> IF @[k] = t THEN 0 ELSE @[k]]])>>
UnloadKey ==
  /\ MayDo /\ IsApp(ram, AppOf(ram.sel))
  /\ Does(Unload(ram, store, AppOf(ram.sel)), [what |-> "unload"])

\* parse_manifest_from_disk
Manifest(lines) ==
  LET ls == SelectSeq(lines, LAMBDA x : x # Blank)
      e  == ParsedLine(ls[1])
      n  == IF e[2].dep THEN 3 ELSE 2
  IN  IF ls = <<>> THEN <<"error", "empty">>
      ELSE IF e[1] = "error" THEN e
      ELSE IF Len(ls) > n THEN <<"error", "format">>
      ELSE IF Len(ls) = 1 THEN <<"error", "missing desc">>
      ELSE IF Len(ls) < n THEN <<"error", "resource">>
      ELSE <<"ok", e[2], ls[2]>>
RolledBack(r, s) ==
  <<[r EXCEPT !.apps = Front(@), !.cache.start = 255],
    [s EXCEPT !.text[Len(r.apps)] = NoText]>>

\* browse_and_load_manifest
Browsed(r, s, m, ok) ==
  LET found == FindByPrg(r, s, m[2].prg)
      known == InWindow([r EXCEPT !.sel = MenuOf(found)], s)
      s1 == Stored(s, r, m[2], m[3])
      r1 == InWindow([Added(r, m[2]) EXCEPT !.sel = MenuOf(Len(r.apps) + 1)], s1)
      p  == Load(r1, s1, Len(r1.apps), ok)
  IN  IF m[1] = "error" THEN <<r, s>>
      ELSE IF found <= Len(r.apps)
      THEN IF found \in r.in THEN <<Noticed(known, "manifest app already in reu"), s>>
           ELSE Load(known, s, found, ok)
      ELSE IF ~IsRoom(r) THEN <<r, s>>
      ELSE IF Len(r1.apps) \notin p[1].in THEN RolledBack(p[1], p[2])
      ELSE <<p[1], Seeded(p[1], p[2])>>
Browse(m, ok) ==
  /\ MayDo
  /\ Does(Browsed(ram, store, Manifest(m), ok),
          [what |-> "browse", was |-> ram.apps, text |-> store.text, ok |-> ok, m |-> Manifest(m)])

\* The app returns, or one it has switched to: launcher_init with a resume payload.
Return ==
  /\ ram.phase = "app" /\ disk.what = "whole"
  /\ LET reg == store.registry
         r == [Defaults EXCEPT !.apps = reg.apps, !.cfg = [name |-> reg.name, boot |-> reg.name,
                                                         all |-> reg.all, first |-> ""],
                               !.scroll = store.resume.scroll,
                               !.sel = IF store.resume.sel < Len(reg.apps) + 2 THEN store.resume.sel
                                       ELSE 0]
         p == Settled(Prepared(r, store))
     IN  IF Valid(r, store)
         THEN /\ ram' = p[1] /\ store' = p[2]
              /\ todo' = [todo EXCEPT !.last = [what |-> "return", was |-> ram.apps]]
         ELSE /\ ram' = Defaults
              /\ store' = [store EXCEPT !.text = Fresh.text]
              /\ todo' = [todo EXCEPT !.last = [what |-> "cold",
                                             torn |-> \E i \in DOMAIN reg.apps : store.text[i].prg = ""]]
  /\ UNCHANGED disk

Stop ==
  /\ InMenu /\ ram' = [ram EXCEPT !.phase = "off"] /\ UNCHANGED <<store, disk, todo>>

Next ==
  \/ ReadLine \/ Refuse
  \/ \E good \in SUBSET (1 .. MAX_APPS - 1) : StartMenu(good) \/ LoadAllKey(good)
  \/ Up \/ Down \/ Home \/ UnloadKey \/ Return \/ Stop
  \/ \E ok \in BOOLEAN : \/ ReturnKey(ok) \/ LoadKey(ok)
                         \/ \E slot \in Slots : Hotkey(slot, ok)
                         \/ \E m \in Manifests : Browse(m, ok)

Spec == Init /\ [][Next]_vars

-----------------------------------------------------------------------------
Runs == ram.phase \in {"menu", "app"}
MeantApp(a) ==
  [drive |-> Number[a.drive] % 65536, slot |-> IF a.slot = "" THEN 0 ELSE Number[a.slot],
   res |-> SetOf([res |-> Resource[a.res].set, prg |-> a.prg])]
ReadApp(a) == [drive |-> a.drive, slot |-> a.slot, res |-> a.res]
IsApps(n) ==
  \A i \in 1 .. n : LET a == disk.of.apps[i] IN
    /\ ReadApp(ram.apps[i]) = MeantApp(a)
    /\ store.text[i] = [prg |-> a.prg, label |-> a.label, desc |-> a.desc]

\* The menu holds what was written, wherever there are blank lines, through launches and
\* returns, with the apps of manifests after it.  A drive of 65544 counts as 8.
CatalogAsWritten ==
  /\ disk.what = "whole" /\ ram.phase = "error" =>
       ram.err = "too many" /\ Len(disk.of.apps) >= MAX_APPS
  /\ Runs /\ disk.what = "whole" =>
    /\ Len(ram.apps) >= Len(disk.of.apps) /\ IsApps(Len(disk.of.apps))
    /\ ram.cfg.all = disk.of.all

\* A file with a line lost or a field spoilt is refused, whatever the place.
SpoiltRefused == disk.what = "spoilt" => ~Runs

\* When the drive fails in the file, what runs is a beginning of the catalog: its last
\* description may be cut short.  Nothing says that there was more.
CutIsBeginning ==
  Runs /\ disk.what = "cut" =>
    LET n == Len(ram.apps)
        a == disk.of.apps[n]
    IN  /\ n <= Len(disk.of.apps) /\ IsApps(n - 1)
        /\ store.text[n].prg = a.prg /\ store.text[n].label = a.label
        /\ store.text[n].desc \in {a.desc, disk.part}

\* The screen, drawn piece by piece and with names from a cache, is the menu: the
\* selected entry is on it.
ScreenShows ==
  ram.phase = "menu" =>
    /\ ram.sel \in 0 .. Count(ram) - 1
    /\ ram.sel - ram.scroll \in 0 .. APPS_HEIGHT - 1
    /\ ram.screen.rows = [row \in 1 .. APPS_HEIGHT |->
         LET k == ram.scroll + row - 1
         IN  IF k < Count(ram) THEN Item(ram, store, k, NameOf(store, k)) ELSE NoItem]
    /\ ram.screen.desc = Desc(ram, store) /\ ram.screen.notice = ram.notice
    /\ \A i \in ram.in : ram.apps[i].token \in store.loaded \cap store.valid

\* At the start the first app runs if it is there and can be loaded (when all are to be
\* loaded, if all can be), and else it is said why not; except that a first app that is
\* not in the catalog goes unnoticed when all are loaded.
StartsFirst ==
  todo.last.what = "start" /\ disk.what = "whole" /\ todo.steps = 0 =>
    LET c  == disk.of
        is == {i \in DOMAIN c.apps : c.apps[i].prg = c.first}
        n  == Len(c.apps)
        loads == IF c.all THEN 1 .. n \subseteq todo.last.good /\ n <= Banks
                 ELSE Min(is) \in todo.last.good
    IN  /\ (ram.phase = "app") = (is # {} /\ loads)
        /\ ram.phase = "app" =>
             AppOf(store.resume.sel) = Min(is) /\ Min(is) \in ram.in
        /\ ram.phase = "menu" /\ c.first # "" /\ (is = {} => ~c.all) => ram.notice # ""

\* An app that returns finds the menu as it was, with its entry selected.  It is read
\* anew only if the registry still has the app of a manifest that was rolled back.
ReturnsToMenu ==
  /\ todo.last.what = "cold" => todo.last.torn
  /\ todo.last.what = "return" =>
       /\ ram.apps = todo.last.was /\ AppOf(ram.sel) \in ram.in
       /\ ram.sel = store.resume.sel

\* A manifest adds its app only if it could be loaded.
ManifestAdds ==
  todo.last.what = "browse" =>
    LET l == todo.last
        n == Len(l.was)
        same == ram.apps = l.was /\ store.text = l.text
        known == {i \in 1 .. n : l.text[i].prg = l.m[2].prg}
    IN  IF l.m[1] = "error" THEN same
        ELSE IF known # {}
        THEN store.text = l.text /\ Len(ram.apps) = n /\ AppOf(ram.sel) = Min(known)
        ELSE IF n + 1 = Len(ram.apps)
        THEN /\ n + 1 \in ram.in /\ store.text[n + 1] = Text(l.m[2], l.m[3])
             /\ AppOf(ram.sel) = n + 1
        ELSE same /\ (n + 1 >= MAX_APPS \/ ~l.ok \/ store.used >= Banks)

Sound ==
  /\ CatalogAsWritten /\ SpoiltRefused /\ CutIsBeginning /\ ScreenShows
  /\ StartsFirst /\ ReturnsToMenu /\ ManifestAdds
=============================================================================
