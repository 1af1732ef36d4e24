---------------------------- MODULE SetupProofs ----------------------------
(***************************************************************************)
(* SETUP's commit of apps.cfg keeps a whole copy, for every file length,   *)
(* every number of failed commands and every sequence of attempts.         *)
(***************************************************************************)
EXTENDS SetupCommit, TLAPS

LEMMA InitCommit == ASSUME Init PROVE CommitInv
<1> USE SetupAssumption DEF Init
<1>1. TypeOK
  BY SMT DEF TypeOK, Names, File, Nothing, Waiting, Whole, Failures, NoFailures
<1>2. CopyKept
  BY DEF CopyKept, Names
<1>3. ConfiguredMeansWritten /\ PreexistingKept
  BY DEF ConfiguredMeansWritten, PreexistingKept
<1>4. StagedOK /\ OldKept
  BY SMT DEF StagedOK, OldKept, Staged, Moved
<1> QED
  BY <1>1, <1>2, <1>3, <1>4 DEF CommitInv

\* The step that names the new file apps.cfg: it, or the backup, is whole,
\* whether the command was carried out, refused or not heard.
LEMMA CommitStep == ASSUME CommitInv, Commit PROVE CommitInv'
<1> USE DEF CommitInv, Commit, Attempt
<1>1. /\ disk \in [Names -> File \cup {Nothing}]
      /\ disk["stage"] = config /\ Whole(config) /\ Whole(disk["bak"])
      /\ found["stage"] = Nothing /\ found["bak"] = Nothing
  BY DEF TypeOK, StagedOK, OldKept, Moved
<1>2. \/ disk' = [disk EXCEPT !["stage"] = Nothing, !["cfg"] = config]
      \/ disk' = disk
  BY <1>1 DEF Rename, Call
<1>3. TypeOK'
  BY <1>1, <1>2, SetupAssumption, SMT
     DEF TypeOK, Rename, Call, Fails, Failures, Waiting, Names
<1>4. Whole(disk["bak"])' /\ CopyKept'
  BY <1>1, <1>2 DEF CopyKept, Names, Whole
<1>5. (~Free("cfg") => Whole(disk["cfg"]))'
  BY <1>1, <1>2 DEF Free, Names, Whole
<1>6. PreexistingKept' /\ ConfiguredMeansWritten'
  BY <1>1, <1>2, SMT
     DEF PreexistingKept, ConfiguredMeansWritten, Rename, Call, Names
<1>7. StagedOK' /\ OldKept'
  BY <1>1, <1>2, <1>4, SMT
     DEF StagedOK, OldKept, Staged, Moved, Rename, Call, Free, Names, Whole, Nothing
<1> QED
  BY <1>3, <1>4, <1>5, <1>6, <1>7

LEMMA NextCommit == ASSUME CommitInv, [Next]_vars PROVE CommitInv'
<1> USE SetupAssumption
    DEF CommitInv, TypeOK, CopyKept, ConfiguredMeansWritten, PreexistingKept,
        StagedOK, OldKept, Staged, Moved, Waiting, Whole, Free, Names, File,
        Nothing, Attempt, Failures, NoFailures
<1>1. ASSUME NEW p \in Paths, Choose(p) PROVE CommitInv'
  BY <1>1, SMT DEF Choose
<1>2. CASE ReadConfig
  BY <1>2, SMTT(20) DEF ReadConfig, Prepared
<1>3. CASE OpenStage
  BY <1>3, SMTT(20) DEF OpenStage, Call, Fails, Create
<1>4. CASE WriteChunk
  BY <1>4, SMTT(20) DEF WriteChunk, Call, Fails
<1>5. CASE WriteEnds
  BY <1>5, SMTT(20) DEF WriteEnds
<1>6. CASE CloseStage
  BY <1>6, SMTT(20) DEF CloseStage, Fails
<1>7. CASE CompareStaged
  BY <1>7, SMTT(20) DEF CompareStaged, ReadBack, Matches, Fails
<1>8. CASE DropStaged
  BY <1>8, SMTT(20) DEF DropStaged, Call, Fails, Delete
<1>9. CASE Backup
  BY <1>9, SMTT(20) DEF Backup, Rename, Call, Fails
<1>10. CASE Commit
  BY <1>10, CommitStep
<1>11. CASE CheckCommitted
  BY <1>11, SMTT(20) DEF CheckCommitted, ReadBack, Matches, Fails
<1>12. CASE Unstage
  BY <1>12, SMTT(20) DEF Unstage, Rename, Call, Fails
<1>13. CASE Restore
  BY <1>13, SMTT(20) DEF Restore, Rename, Call, Fails
<1>14. CASE Clean
  BY <1>14, SMTT(20) DEF Clean, Call, Fails, Delete
<1>15. CASE SwitchOff
  BY <1>15, SMTT(20) DEF SwitchOff
<1>16. CASE UNCHANGED vars
  BY <1>16 DEF vars
<1> QED
  BY <1>1, <1>2, <1>3, <1>4, <1>5, <1>6, <1>7, <1>8, <1>9, <1>10,
     <1>11, <1>12, <1>13, <1>14, <1>15, <1>16 DEF Next

\* The invariant of the commit of write_config and configure_image, whatever
\* fails.
THEOREM CommitInvariant == Spec => []CommitInv
<1>1. Init => CommitInv
  BY InitCommit
<1>2. CommitInv /\ [Next]_vars => CommitInv'
  BY NextCommit
<1> QED
  BY <1>1, <1>2, PTL DEF Spec

\* A whole copy of apps.cfg is on the disk, for every length of the file and
\* any number of failures, attempts and power cuts.
THEOREM CopyAlwaysKept == Spec => []CopyKept
<1>1. CommitInv => CopyKept
  BY DEF CommitInv
<1> QED
  BY <1>1, CommitInvariant, PTL

\* SETUP reports success only when apps.cfg is whole and names the path.
THEOREM SuccessIsTrue == Spec => []ConfiguredMeansWritten
<1>1. CommitInv => ConfiguredMeansWritten
  BY DEF CommitInv
<1> QED
  BY <1>1, CommitInvariant, PTL

\* A file that was there under a staging name is left alone.
THEOREM StagingNamesKept == Spec => []PreexistingKept
<1>1. CommitInv => PreexistingKept
  BY DEF CommitInv
<1> QED
  BY <1>1, CommitInvariant, PTL

-----------------------------------------------------------------------------
LEMMA InitPlace == ASSUME Init PROVE PlaceInv
BY DEF Init, PlaceInv, Moved, Gentle

LEMMA NextPlace ==
  ASSUME CommitInv, PlaceInv, [Next]_vars PROVE PlaceInv'
<1> USE SetupAssumption
    DEF CommitInv, PlaceInv, Gentle, TypeOK, StagedOK, OldKept,
        Staged, Moved, Waiting, Whole, Free, Names, File, Nothing, Attempt, Failures, NoFailures
<1>1. ASSUME NEW p \in Paths, Choose(p) PROVE PlaceInv'
  BY <1>1, SMT DEF Choose
<1>2. CASE ReadConfig
  BY <1>2, SMTT(20) DEF ReadConfig, Prepared
<1>3. CASE OpenStage
  BY <1>3, SMTT(20) DEF OpenStage, Call, Fails, Create
<1>4. CASE WriteChunk
  BY <1>4, SMTT(20) DEF WriteChunk, Call, Fails
<1>5. CASE WriteEnds
  BY <1>5, SMTT(20) DEF WriteEnds
<1>6. CASE CloseStage
  BY <1>6, SMTT(20) DEF CloseStage, Fails
<1>7. CASE CompareStaged
  BY <1>7, SMTT(20) DEF CompareStaged, ReadBack, Matches, Fails
<1>8. CASE DropStaged
  BY <1>8, SMTT(20) DEF DropStaged, Call, Fails, Delete
<1>9. CASE Backup
  BY <1>9, SMTT(20) DEF Backup, Rename, Call, Fails
<1>10. CASE Commit
  BY <1>10, SMTT(20) DEF Commit, Rename, Call, Fails
<1>11. CASE CheckCommitted
  BY <1>11, SMTT(20) DEF CheckCommitted, ReadBack, Matches, Fails
<1>12. CASE Unstage
  BY <1>12, SMTT(20) DEF Unstage, Rename, Call, Fails
<1>13. CASE Restore
  BY <1>13, SMTT(20) DEF Restore, Rename, Call, Fails
<1>14. CASE Clean
  BY <1>14, SMTT(20) DEF Clean, Call, Fails, Delete
<1>15. CASE SwitchOff
  BY <1>15, SMTT(20) DEF SwitchOff
<1>16. CASE UNCHANGED vars
  BY <1>16 DEF vars
<1> QED
  BY <1>1, <1>2, <1>3, <1>4, <1>5, <1>6, <1>7, <1>8, <1>9, <1>10,
     <1>11, <1>12, <1>13, <1>14, <1>15, <1>16 DEF Next

\* An attempt in which at most one command is refused and nothing else fails
\* leaves apps.cfg in place, by the rollback of configure_image.
THEOREM RollbackWorks == Spec => []InPlace
<1>1. Init => PlaceInv
  BY InitPlace
<1>2. CommitInv /\ PlaceInv /\ [Next]_vars => PlaceInv'
  BY NextPlace
<1>3. CommitInv /\ PlaceInv => InPlace
  BY DEF PlaceInv, InPlace, Moved
<1> QED
  BY <1>1, <1>2, <1>3, CommitInvariant, PTL DEF Spec
=============================================================================
