---------------------------- MODULE ReadyOsBank ----------------------------
(***************************************************************************)
(* The state of ReadyOS and the tables every part of it shares.            *)
(*                                                                         *)
(* The RAM expansion (REU) holds, in the ReadyOS bank (number Skip), the   *)
(* bank-type table, the token tables, the launcher's registry and catalog  *)
(* texts, the resource records, the hotkeys and the clipboard table; every *)
(* other bank belongs to one client.  The REU keeps its contents when the  *)
(* machine is reset; the C64's memory does not.                            *)
(*                                                                         *)
(* One processor runs one program at a time, so steps interleave only with *)
(* resets, and with the choices of the user and of the disk drive.         *)
(***************************************************************************)
EXTENDS BankTable, Sequences, TLC

CONSTANTS
  Prog,         \* application programs
  DiskCatalog,  \* sequence of the programs apps.cfg lists
  Manifests,    \* programs an app manifest on a disk offers
  Owners,       \* programs that own REU banks of their own (note storage)
  Trusting,     \* those of them that trust their payload and need no bank
  NeedsBasic,   \* programs of the ReadyBASIC resource set (two banks)
  DefaultSlot,  \* [Prog -> 0..NSlots]: default hotkey, 0 for none
  NSlots,       \* hotkey slots: 9 in the code
  NTokens,      \* snapshot tokens: 254 in the code
  MaxApps,      \* app registry entries: 64 in the code
  MaxRecs,      \* resource records: 64 in the code
  MaxClips,     \* clipboard entries: 16 in the code
  NoteBanks,    \* [Owners -> banks it allocates]: quicknotes 2, readyirc 1
  Earlier,      \* sizes the REU had when earlier sessions wrote its tables
  None          \* no program

Slots  == 1 .. NSlots
Tokens == 1 .. NTokens
Apps   == 1 .. MaxApps       \* registry index; 0 is "no app" (REUCB_NULL_REC)

ASSUME CatalogAssumption ==
  /\ NSlots \in Nat /\ NTokens \in Nat /\ MaxApps \in Nat /\ MaxRecs \in Nat
  /\ MaxClips \in Nat /\ Earlier \subseteq Nat
  /\ DiskCatalog \in Seq(Prog) /\ Len(DiskCatalog) \in Apps
  /\ Manifests \subseteq Prog /\ Owners \subseteq Prog
  /\ Trusting \subseteq Owners /\ NoteBanks \in [Owners -> Nat \ {0}]
  /\ NeedsBasic \subseteq Prog
  /\ DefaultSlot \in [Prog -> 0 .. NSlots]
  /\ None \notin Prog

VARIABLES
  \* ---- the ReadyOS bank
  hdr,      \* the schema-v5 header is valid
  btype,    \* [Banks -> BankTypes]
  lookup,   \* [Tokens -> physical bank of the token's snapshot]
  tstat,    \* [Tokens -> "free" | "valid" | "loaded"]
  tapp,     \* [Tokens -> app that owns the token, or 0]
  reg,      \* published registry: [count, apps]
  file,     \* [Apps -> program file named by the catalog texts]
  recs,     \* resource records in use: set of [app, kind, bank]
  hotkey,   \* [Slots -> token, or 0]
  clip,     \* banks the clipboard table lists
  \* ---- the other banks
  image,    \* [Banks -> program whose memory image the bank holds]
  tail,     \* [Banks -> resume payload behind the image]
  \* ---- the C64
  pc,       \* what the machine is doing
  job,      \* the load or launch under way: [kind, idx]
  count,    \* launcher: apps in the catalog
  ram,      \* launcher: [Apps -> Entry]
  cur,      \* shim: token of the running app, 0 for the launcher
  saved,    \* shim: token last saved, 0 for none ($FF)
  running,  \* program running in application memory
  held,     \* banks the running program uses
  \* ---- history
  bound,    \* [Slots -> program the slot was last bound for]
  stale     \* slots not written since the last cold start

tokenVars   == <<lookup, tstat, tapp>>
catalogVars == <<reg, file>>
bankVars    == <<image, tail>>
menuVars    == <<count, ram>>
shimVars    == <<cur, saved>>
appVars     == <<running, held>>
hotkeyVars  == <<hotkey, bound, stale>>

vars == <<hdr, btype, tokenVars, catalogVars, recs, clip, bankVars, pc, job,
          menuVars, shimVars, appVars, hotkeyVars>>

-----------------------------------------------------------------------------
\* One app of the launcher's parallel arrays (app_banks, apps_loaded, ...):
\* snapshot token (0: none), loaded, ReadyBASIC banks ready, the two banks
\* (0: none), default hotkey slot, ReadyBASIC resource set.
Entry == [tok : {0} \cup Tokens, loaded : BOOLEAN, ready : BOOLEAN,
          core : {0} \cup Usable, code : {0} \cup Usable,
          slot : 0 .. NSlots, basic : BOOLEAN]

BlankEntry == [tok |-> 0, loaded |-> FALSE, ready |-> FALSE,
               core |-> 0, code |-> 0, slot |-> 0, basic |-> FALSE]

NewEntry(p) == [BlankEntry EXCEPT !.slot = DefaultSlot[p],
                                  !.basic = (p \in NeedsBasic)]

Kinds == {"alloc", "rbcore", "rbcode"}

Record == [app : Apps, kind : Kinds, bank : Usable]

\* What an application leaves in the tail of its snapshot bank; an invalid
\* header is NoPayload.  prog stands for the schema number and the length.
Payload == [tok : Tokens, prog : Prog, held : SUBSET Usable]

NoPayload == [tok |-> 0, prog |-> None, held |-> {}]

\* An image is a program's, nothing useful, or the launcher's own.
Images == Prog \cup {None, "launcher"}

NoJob == [kind |-> "none", idx |-> 0]

Job == [kind : {"load", "launch", "manifest"}, idx : Apps] \cup {NoJob}

\* An application is in memory: it starts, allocates its banks, gives them
\* back, or runs.
AppPCs == {"appinit", "notes", "giveback", "app"}

PCs == {"off", "menu", "alloc", "preload", "resources", "loaded", "failed",
        "launch", "start", "return"} \cup AppPCs

TypeOK ==
  /\ hdr \in BOOLEAN
  /\ btype \in [Banks -> BankTypes]
  /\ lookup \in [Tokens -> {0} \cup Usable]
  /\ tstat \in [Tokens -> {"free", "valid", "loaded"}]
  /\ tapp \in [Tokens -> {0} \cup Apps]
  /\ reg \in [count : 0 .. MaxApps, apps : [Apps -> Entry]]
  /\ file \in [Apps -> Prog \cup {None}]
  /\ recs \subseteq Record
  /\ hotkey \in [Slots -> {0} \cup Tokens]
  /\ clip \subseteq Usable
  /\ image \in [Banks -> Images]
  /\ tail \in [Banks -> Payload \cup {NoPayload}]
  /\ pc \in PCs
  /\ job \in Job
  /\ count \in 0 .. MaxApps
  /\ ram \in [Apps -> Entry]
  /\ cur \in {0} \cup Tokens
  /\ saved \in {0} \cup Tokens
  /\ running \in Prog \cup {None}
  /\ held \subseteq Usable
  /\ bound \in [Slots -> Prog \cup {None}]
  /\ stale \subseteq Slots

-----------------------------------------------------------------------------
(***************************************************************************)
(* The launcher's view of the tables.  n is the number of apps, r the      *)
(* launcher's entries, st a token-status table, bt a bank-type table.      *)
(***************************************************************************)
Uses(n, r, t) == \E i \in 1 .. n : r[i].tok = t

\* sync_from_readyos_state: the token last saved counts as loaded, ...
SyncedStatus(n, r, st) ==
  IF saved # 0 /\ Uses(n, r, saved) /\ st[saved] # "free"
  THEN [st EXCEPT ![saved] = "loaded"]
  ELSE st

\* Mutant: the apps are left as they are.
SyncedEntriesNot(n, r, st) == r

\* ... the token statuses decide which apps are loaded, ...
SyncedEntries(n, r, st) ==
  [i \in Apps |->
     IF i <= n /\ r[i].tok # 0
     THEN [r[i] EXCEPT !.loaded = (st[r[i].tok] = "loaded")]
     ELSE r[i]]

\* ... and launcher_mark_loaded_snapshot_banks claims their banks again.
LoadedBanks(n, r, st) ==
  {lookup[r[i].tok] : i \in {j \in 1 .. n : /\ r[j].tok # 0
                                            /\ r[j].loaded
                                            /\ st[r[j].tok] # "free"}}

\* sync_from_readyos_state as a step.
Sync(n, r, st, bt) ==
  LET st1 == SyncedStatus(n, r, st)
      r1  == SyncedEntries(n, r, st1)
  IN  /\ ram' = r1
      /\ tstat' = st1
      /\ btype' = SetType(bt, LoadedBanks(n, r1, st1), "app")
      /\ saved' = 0

\* launcher_mirror_reu_control rebuilds the token tables from the entries: a
\* token survives only if it was valid and an app of the catalog names it.
MirroredStatus(n, r, st) ==
  [t \in Tokens |->
     IF st[t] = "free" \/ ~Uses(n, r, t) THEN "free"
     ELSE IF \E i \in 1 .. n : r[i].tok = t /\ r[i].loaded THEN "loaded"
     ELSE "valid"]

MirroredApp(n, r, st) ==
  [t \in Tokens |->
     IF st[t] # "free" /\ Uses(n, r, t)
     THEN CHOOSE i \in 1 .. n : r[i].tok = t
     ELSE 0]

\* The registry and the settings record, as the mirror publishes them.
Published(n, r) == [count |-> n, apps |-> r]

\* The mirror also writes the type of the ReadyOS bank again.
Anchored(bt) == [bt EXCEPT ![Skip] = "global"]
=============================================================================
