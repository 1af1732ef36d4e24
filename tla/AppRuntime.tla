---------------------------- MODULE AppRuntime ----------------------------
(***************************************************************************)
(* A running application and the resident shim (src/boot/readyos_shim.inc) *)
(* that takes it in and out of memory: an app is stashed into the bank of  *)
(* its token when it returns to the launcher or switches to another app,   *)
(* and starts from its first instruction when its image is fetched; what   *)
(* it remembers is the resume payload it saved behind the image.           *)
(*                                                                         *)
(* A program of Owners keeps its data in banks of its own, as              *)
(* src/apps/quicknotes/quicknotes.c does: it finds them again through its  *)
(* resume payload, or allocates new ones.  src/apps/readyirc/readyirc.c    *)
(* does the same for its scrollback, but is content without a bank, trusts *)
(* the bank its payload names and leaves the payload when it quits.        *)
(***************************************************************************)
EXTENDS Launcher

\* Mutant: the token is taken for the bank.
HomeByToken == cur

\* The bank resume_init_for_app and the shim use for the running app.
Home == lookup[cur]

\* The payload resume_load_segments accepts: written for this token, with
\* this program's schema and length.
Resumable == tail[Home].tok = cur /\ tail[Home].prog = running

\* Mutant: the payload is trusted.
ValidNotesAny == tail[Home].held # {}

\* validate_note_banks looks at the banks' types only.
ValidNotes == /\ tail[Home].held # {}
              /\ \A b \in tail[Home].held : btype[b] = "alloc"

Accepted == Resumable /\ (running \in Trusting \/ ValidNotes)

\* An app that owns no banks starts.
AppInit ==
  /\ pc = "appinit" /\ running \notin Owners
  /\ GoTo("app")
  /\ UNCHANGED <<hdr, btype, tokenVars, catalogVars, recs, clip, bankVars,
                 menuVars, shimVars, appVars, hotkeyVars>>

\* An owner finds its banks in its payload.
ResumeNotes ==
  /\ pc = "appinit" /\ running \in Owners
  /\ Accepted
  /\ held' = tail[Home].held
  /\ GoTo("app")
  /\ UNCHANGED <<hdr, btype, tokenVars, catalogVars, recs, clip, bankVars,
                 menuVars, shimVars, running, hotkeyVars>>

\* An owner without banks allocates them one by one.
StartNotes ==
  /\ pc = "appinit" /\ running \in Owners
  /\ ~Accepted
  /\ held' = {}
  /\ GoTo("notes")
  /\ UNCHANGED <<hdr, btype, tokenVars, catalogVars, recs, clip, bankVars,
                 menuVars, shimVars, running, hotkeyVars>>

\* reu_alloc_owned_bank: a free bank, if there are an app to record and a
\* free record.  A bank that gets no record is given back in the same call.
NextNote == IF tapp[cur] # 0 /\ Cardinality(recs) < MaxRecs
            THEN FirstFree(btype) ELSE {}

TakeNote ==
  /\ pc = "notes"
  /\ \E b \in NextNote :
       /\ held' = held \cup {b}
       /\ btype' = SetType(btype, {b}, "alloc")
       /\ recs' = recs \cup
                    {[app |-> tapp[cur], kind |-> "alloc", bank |-> b]}
  /\ GoTo(IF Cardinality(held') = NoteBanks[running] THEN "app" ELSE "notes")
  /\ UNCHANGED <<hdr, tokenVars, catalogVars, clip, bankVars, menuVars,
                 shimVars, running, hotkeyVars>>

\* Without a bank ReadyIRC keeps its scrollback in its own memory; others
\* give back what they have.
NoteRefused ==
  /\ pc = "notes" /\ NextNote = {}
  /\ GoTo(IF running \in Trusting THEN "app" ELSE "giveback")
  /\ UNCHANGED <<hdr, btype, tokenVars, catalogVars, recs, clip, bankVars,
                 menuVars, shimVars, appVars, hotkeyVars>>

\* The records that reu_free_owned_bank leaves when it frees the banks S.
RecordsWithout(S) == {rec \in recs : ~(rec.kind = "alloc" /\ rec.bank \in S)}

\* Mutant: the record goes, the bank stays taken.
GiveBackRecord(b) ==
  /\ pc = "giveback" /\ b \in held
  /\ recs' = RecordsWithout({b})
  /\ held' = held \ {b}
  /\ GoTo("giveback")
  /\ UNCHANGED <<hdr, btype, tokenVars, catalogVars, clip, bankVars, menuVars,
                 shimVars, running, hotkeyVars>>

\* free_note_banks gives the banks back one by one.
GiveBack(b) ==
  /\ pc = "giveback" /\ b \in held
  /\ recs' = RecordsWithout({b})
  /\ btype' = FreeBank(btype, {b})
  /\ held' = held \ {b}
  /\ GoTo("giveback")
  /\ UNCHANGED <<hdr, tokenVars, catalogVars, clip, bankVars, menuVars,
                 shimVars, running, hotkeyVars>>

\* The machine is reset: the C64 forgets, the REU does not.
PowerDown ==
  /\ pc' = "off" /\ job' = NoJob
  /\ count' = 0 /\ ram' = [i \in Apps |-> BlankEntry]
  /\ cur' = 0 /\ saved' = 0 /\ running' = None /\ held' = {}

\* The user's reset, at any time.
Reset ==
  /\ pc # "off"
  /\ PowerDown
  /\ UNCHANGED <<hdr, btype, tokenVars, catalogVars, recs, clip, bankVars,
                 hotkeyVars>>

\* An owner that found no room leaves for BASIC, from where only a reset
\* leads back; its payload stays as it was.
NoRoom ==
  /\ pc = "giveback" /\ held = {}
  /\ PowerDown
  /\ UNCHANGED <<hdr, btype, tokenVars, catalogVars, recs, clip, bankVars,
                 hotkeyVars>>

\* Quitting: the payload is invalidated, owned banks are freed with their
\* records, and the app resets the machine.
Quit ==
  /\ pc = "app"
  /\ tail' = IF running \in Trusting THEN tail
             ELSE [tail EXCEPT ![Home] = NoPayload]
  /\ recs' = RecordsWithout(held)
  /\ btype' = FreeBank(btype, held)
  /\ PowerDown
  /\ UNCHANGED <<hdr, tokenVars, catalogVars, clip, image, hotkeyVars>>

-----------------------------------------------------------------------------
\* clip_copy: a bank for the data, then an entry for the bank; a full table
\* gives the bank back.
ClipCopy ==
  /\ pc = "app" /\ Cardinality(clip) < MaxClips
  /\ \E b \in FirstFree(btype) :
       /\ btype' = SetType(btype, {b}, "clip")
       /\ clip' = clip \cup {b}
  /\ UNCHANGED <<hdr, tokenVars, catalogVars, recs, bankVars, pc, job,
                 menuVars, shimVars, appVars, hotkeyVars>>

\* clip_delete for one entry, clip_clear for all of them.
ClipFree(S) ==
  /\ pc = "app" /\ S \subseteq clip
  /\ btype' = FreeBank(btype, S)
  /\ clip' = clip \ S
  /\ UNCHANGED <<hdr, tokenVars, catalogVars, recs, bankVars, pc, job,
                 menuVars, shimVars, appVars, hotkeyVars>>

\* SHIFT with a hotkey chord binds the running app to the slot.
BindHotkey(s) ==
  /\ pc = "app"
  /\ hotkey' = [hotkey EXCEPT ![s] = cur]
  /\ bound' = [bound EXCEPT ![s] = running]
  /\ stale' = stale \ {s}
  /\ UNCHANGED <<hdr, btype, tokenVars, catalogVars, recs, clip, bankVars,
                 pc, job, menuVars, shimVars, appVars>>

\* The app saves its payload; the shim stashes its memory into the bank of
\* the current token and marks the token loaded.  The payload of a program
\* that owns no banks matters only by what it overwrites.
Stash ==
  /\ tail' = [tail EXCEPT ![Home] =
                IF running \in Owners
                THEN [tok |-> cur, prog |-> running, held |-> held]
                ELSE NoPayload]
  /\ image' = [image EXCEPT ![Home] = running]
  /\ tstat' = [tstat EXCEPT ![cur] = "loaded"]

\* CTRL+B: back to the launcher, whose image is fetched and started.
Return ==
  /\ pc = "app"
  /\ Stash
  /\ saved' = cur /\ cur' = 0
  /\ running' = None /\ held' = {}
  /\ GoTo("return")
  /\ UNCHANGED <<hdr, btype, lookup, tapp, catalogVars, recs, clip, menuVars,
                 hotkeyVars>>

\* F2, F4 or a hotkey: straight to another loaded app.
SwitchTo(t) ==
  /\ pc = "app" /\ t # cur /\ tstat[t] = "loaded"
  /\ Stash
  /\ RunImage(t, image'[lookup[t]])
  /\ UNCHANGED <<hdr, btype, lookup, tapp, catalogVars, recs, clip, saved,
                 hotkeyVars>>

AppNext ==
  \/ AppInit \/ ResumeNotes \/ StartNotes \/ TakeNote \/ NoteRefused
  \/ \E b \in held : GiveBack(b)
  \/ NoRoom
  \/ ClipCopy \/ ClipFree(clip) \/ \E b \in clip : ClipFree({b})
  \/ \E s \in Slots : BindHotkey(s)
  \/ Return \/ \E t \in Tokens : SwitchTo(t)
  \/ Quit \/ Reset
=============================================================================
