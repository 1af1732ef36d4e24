---------------------------- MODULE SetupCommit ----------------------------
(***************************************************************************)
(* SETUP's rewrite of apps.cfg inside a disk image                         *)
(* (setup_backend_configure_image in setup/setup_backend.c).  The new file *)
(* is staged beside the old one, read back, renamed into place, read back  *)
(* again, and only then is the old one deleted.  Every step is a command   *)
(* to Ultimate DOS, which may refuse it or carry it out and not be heard   *)
(* (setup_uci_command times out), and the machine may be switched off      *)
(* after any of them.                                                      *)
(*                                                                         *)
(* The Ultimate is external: it creates a file only where none is (mode    *)
(* $06, "without replacing an existing file"), renames to free names only, *)
(* and each create, rename and delete happens or does not.                 *)
(***************************************************************************)
EXTENDS Naturals

CONSTANTS
  Paths,      \* host paths the image can be configured for
  Foreign,    \* marks a file that is not a copy of apps.cfg
  Size,       \* WRITE commands the file takes: 220 bytes each
  MaxFailed   \* commands that fail in one attempt (bound)

ASSUME SetupAssumption ==
  /\ Size \in Nat \ {0} /\ MaxFailed \in Nat
  /\ Foreign \notin Paths

\* How a command fails: it is not carried out, or the answer is not heard.
Failures == {"refused", "unheard"}

\* apps.cfg.seq, rdyset.seq, rdyset.bak.seq
Names == {"cfg", "stage", "bak"}

\* A file is the path it names and how much of it is there; its other
\* settings are not changed by setup_config_prepare.
File    == [path : Paths \cup {Foreign}, size : 0 .. Size]
Nothing == [path |-> Foreign, size |-> Size + 1]

Whole(f) == f # Nothing /\ f.path # Foreign /\ f.size = Size

VARIABLES
  disk,     \* [Names -> a file or nothing]
  pc,       \* the next command; "done" and "failed" when SETUP waits for a
            \* key, "off" after a power cut
  path,     \* full_path
  config,   \* the file to be written
  failures, \* commands that failed in this attempt, each way
  found     \* the disk when the attempt began (no part of the program)

vars == <<disk, pc, path, config, failures, found>>

Waiting == {"done", "failed", "off"}

NoFailures == [kind \in Failures |-> 0]

TypeOK ==
  /\ disk \in [Names -> File \cup {Nothing}]
  /\ found \in [Names -> File \cup {Nothing}]
  /\ pc \in Waiting \cup {"read", "open", "write", "close", "compare", "drop",
                          "backup", "commit", "check", "unstage", "restore",
                          "clean"}
  /\ path \in Paths /\ config \in File /\ failures \in [Failures -> 0 .. MaxFailed]

Init ==
  /\ disk \in [Names -> {Nothing} \cup
                        [path : Paths \cup {Foreign}, size : {Size}]]
  /\ Whole(disk["cfg"])
  /\ \A n \in Names \ {"cfg"} : ~Whole(disk[n])
  /\ pc = "failed" /\ found = disk /\ failures = NoFailures
  /\ path \in Paths /\ config = disk["cfg"]

-----------------------------------------------------------------------------
Fails(kind) ==
  /\ failures["refused"] + failures["unheard"] < MaxFailed
  /\ failures' = [failures EXCEPT ![kind] = @ + 1]

\* call_raw: a command that Ultimate DOS can carry out when able and that
\* leaves the disk as effect; the next step is yes or no.
Call(able, effect, yes, no) ==
  \/ able /\ disk' = effect /\ pc' = yes /\ UNCHANGED failures
  \/ ~able /\ pc' = no /\ UNCHANGED <<disk, failures>>
  \/ Fails("refused") /\ pc' = no /\ UNCHANGED disk
  \/ Fails("unheard") /\ able /\ disk' = effect /\ pc' = no

Create(n)   == [disk EXCEPT ![n] = [path |-> config.path, size |-> 0]]
Delete(n)   == [disk EXCEPT ![n] = Nothing]
Free(n)     == disk[n] = Nothing
Rename(a, b, yes, no) ==
  Call(~Free(a) /\ Free(b), [disk EXCEPT ![a] = Nothing, ![b] = disk[a]], yes, no)

\* Mutant: compares the bytes read, not the length.
MatchesPrefix(f) == f.path = config.path

\* read_named and memcmp.
Matches(f) == f = config

\* Mutant: the path is not replaced.
PreparedNot(f) == f

\* setup_config_prepare
Prepared(f) == [f EXCEPT !.path = path]

\* read_named: OPEN, READs and CLOSE of which any may fail; the disk stays.
ReadBack(n, yes, no) ==
  /\ \/ pc' = (IF ~Free(n) /\ Matches(disk[n]) THEN yes ELSE no)
        /\ UNCHANGED failures
     \/ (\E kind \in Failures : Fails(kind)) /\ pc' = no
  /\ UNCHANGED disk

Attempt == UNCHANGED <<path, config, found>>

-----------------------------------------------------------------------------
\* F7, or RETURN and Y on an image.
Choose(p) ==
  /\ pc \in Waiting
  /\ path' = p /\ found' = disk /\ failures' = NoFailures /\ pc' = "read"
  /\ UNCHANGED <<disk, config>>

\* enter_image, read_config and setup_config_prepare; each may say no, the
\* last when a key is missing or the longer path does not fit.
ReadConfig ==
  /\ pc = "read"
  /\ \/ ~Free("cfg") /\ config' = Prepared(disk["cfg"]) /\ pc' = "open"
     \/ pc' = "failed" /\ UNCHANGED config
  /\ UNCHANGED <<disk, path, failures, found>>

\* Mutant: an existing file is replaced.
OpenStageOver ==
  /\ pc = "open"
  /\ Call(TRUE, Create("stage"), "write", "failed")
  /\ Attempt

OpenStage ==
  /\ pc = "open"
  /\ Call(Free("stage"), Create("stage"), "write", "failed")
  /\ Attempt

\* One turn of the loop of write_config; on failure the file stays as it is.
WriteChunk ==
  /\ pc = "write" /\ disk["stage"].size < Size
  /\ Call(TRUE, [disk EXCEPT !["stage"].size = @ + 1], "write", "failed")
  /\ Attempt

WriteEnds ==
  /\ pc = "write" /\ disk["stage"].size = Size
  /\ pc' = "close"
  /\ UNCHANGED <<disk, failures>> /\ Attempt

\* close_file ignores the answer: a refused CLOSE may leave the file short.
CloseStage ==
  /\ pc = "close" /\ pc' = "compare"
  /\ \/ UNCHANGED <<disk, failures>>
     \/ \E kind \in Failures, n \in 0 .. Size :
          /\ Fails(kind)
          /\ disk' = [disk EXCEPT !["stage"].size = n]
  /\ Attempt

CompareStaged ==
  pc = "compare" /\ ReadBack("stage", "backup", "drop") /\ Attempt

DropStaged ==
  pc = "drop" /\ Call(~Free("stage"), Delete("stage"), "failed", "failed") /\ Attempt

\* Mutant: the answer to the first rename is ignored.
BackupIgnored ==
  pc = "backup" /\ Rename("cfg", "bak", "commit", "commit") /\ Attempt

Backup ==
  pc = "backup" /\ Rename("cfg", "bak", "commit", "failed") /\ Attempt

\* Mutant: no rollback when the second rename fails.
CommitNoRollback ==
  pc = "commit" /\ Rename("stage", "cfg", "check", "failed") /\ Attempt

Commit ==
  pc = "commit" /\ Rename("stage", "cfg", "check", "restore") /\ Attempt

CheckCommitted ==
  pc = "check" /\ ReadBack("cfg", "clean", "unstage") /\ Attempt

Unstage ==
  pc = "unstage" /\ Rename("cfg", "stage", "restore", "restore") /\ Attempt

Restore ==
  pc = "restore" /\ Rename("bak", "cfg", "failed", "failed") /\ Attempt

\* The answer is ignored: SETUP reports success and the backup may remain.
Clean ==
  pc = "clean" /\ Call(~Free("bak"), Delete("bak"), "done", "done") /\ Attempt

\* Power off; a file being written may be left short.  SETUP starts again.
SwitchOff ==
  /\ pc \notin Waiting
  /\ pc' = "off"
  /\ IF pc \in {"write", "close"}
     THEN \E n \in 0 .. disk["stage"].size : disk' = [disk EXCEPT !["stage"].size = n]
     ELSE UNCHANGED disk
  /\ UNCHANGED failures /\ Attempt

Next ==
  \/ \E p \in Paths : Choose(p)
  \/ ReadConfig \/ OpenStage \/ WriteChunk \/ WriteEnds \/ CloseStage
  \/ CompareStaged \/ DropStaged \/ Backup \/ Commit \/ CheckCommitted
  \/ Unstage \/ Restore \/ Clean \/ SwitchOff

Spec == Init /\ [][Next]_vars

-----------------------------------------------------------------------------
\* What holds at each step of the commit, which makes the properties below
\* inductive.
Staged == {"write", "close", "compare", "drop", "backup"}
Moved  == {"commit", "check", "unstage", "restore", "clean"}

\* The file to be written is whole and names the path; its staged copy is
\* SETUP's own.
StagedOK ==
  /\ pc \in {"open"} \cup Staged \cup Moved => Whole(config) /\ config.path = path
  /\ pc \in {"write", "close"} => ~Free("stage") /\ disk["stage"].path = config.path
  /\ pc \in {"backup", "commit"} => disk["stage"] = config

\* What was on the disk before is still there, under its name or, once moved,
\* under the backup's.
OldKept ==
  /\ pc \in {"read", "open"} => disk = found
  /\ pc \in {"open"} \cup Staged => Whole(disk["cfg"])
  /\ pc \in Staged \cup Moved => found["stage"] = Nothing
  /\ pc \in Moved => Whole(disk["bak"]) /\ found["bak"] = Nothing
  /\ pc \in {"check", "unstage", "clean"} => ~Free("cfg")
  /\ pc = "clean" => disk["cfg"] = config

\* Whatever fails and whenever the machine goes off, in any sequence of
\* attempts, some file on the disk is a whole copy of the configuration.
CopyKept == \E n \in Names : Whole(disk[n])

\* "CONFIGURED" is only said when apps.cfg is whole and names the path.
ConfiguredMeansWritten ==
  pc = "done" => Whole(disk["cfg"]) /\ disk["cfg"].path = path

\* A file that had a staging name before the attempt is left alone: SETUP
\* does not replace or delete it to make progress.
PreexistingKept ==
  \A n \in {"stage", "bak"} : found[n] # Nothing => disk[n] = found[n]

\* At most one command of an attempt was refused, all answers were heard, and
\* apps.cfg was there when it began.
Gentle ==
  /\ failures["unheard"] = 0 /\ failures["refused"] <= 1
  /\ Whole(found["cfg"])

\* One refused command, wherever it comes and whatever earlier attempts have
\* left, is rolled back: apps.cfg is in place when the attempt ends.  (Two
\* refusals, or a rename that happened and was not heard, can leave it under
\* its backup name.)
InPlace == pc \in {"done", "failed"} /\ Gentle => Whole(disk["cfg"])

\* What makes InPlace inductive: the rollback starts only after the one
\* refusal, and finds the names it needs free.
PlaceInv ==
  Gentle =>
    /\ pc \notin Moved \cup {"off"} => Whole(disk["cfg"])
    /\ pc \in {"commit", "restore"} => Free("cfg")
    /\ pc \in {"check", "unstage"} => Free("stage")
    /\ pc = "check" => disk["cfg"] = config
    /\ pc \in {"unstage", "restore"} => failures["refused"] = 1

\* The inductive invariant: apps.cfg, when it is there, is whole, and every
\* step knows where the old file and the new one are.
CommitInv ==
  /\ TypeOK /\ CopyKept /\ ConfiguredMeansWritten /\ PreexistingKept
  /\ ~Free("cfg") => Whole(disk["cfg"])
  /\ StagedOK /\ OldKept
=============================================================================
