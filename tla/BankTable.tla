----------------------------- MODULE BankTable -----------------------------
(***************************************************************************)
(* The bank-type table of the ReadyOS bank: one byte per physical bank of  *)
(* the RAM expansion, telling who uses the bank.  Every allocator of       *)
(* ReadyOS (launcher, applications, clipboard) reads and writes this one   *)
(* table, so its operators are shared by all the modules.                  *)
(*                                                                         *)
(* Code: src/lib/reu_mgr_alloc.c, src/lib/reu_control_bank.c and the       *)
(* allocation helpers of src/apps/launcher/launcher.c.                     *)
(***************************************************************************)
EXTENDS Naturals, FiniteSets

CONSTANTS
  NBanks,   \* banks a bank number can name: 256 in the code
  Skip,     \* physical number of the ReadyOS bank
  Phys      \* banks the size probe found: bank Phys and above do not exist

ASSUME BankAssumption ==
  /\ NBanks \in Nat /\ Skip \in Nat /\ Phys \in Nat
  /\ Skip < Phys /\ Phys <= NBanks

Banks == 0 .. NBanks - 1

\* Bank 255 is never handed out: $FF is the allocators' failure value.
Dynamic == {b \in Banks : b > Skip /\ b < NBanks - 1}

\* The banks a client can ever be given.
Usable == {b \in Dynamic : b < Phys}

\* REU_LAUNCHER, which no code writes any more, is left out.
FixedTypes == {"global", "skipped", "unavail"}

ClientTypes == {"app", "clip", "alloc", "rbcore", "rbcode"}

BankTypes == FixedTypes \cup ClientTypes \cup {"free"}

-----------------------------------------------------------------------------
\* Mutant: the scan runs to the last bank.
FreeBanksToLast(bt) == {b \in Banks : b > Skip /\ bt[b] = "free"}

FreeBanks(bt) == {b \in Dynamic : bt[b] = "free"}

\* What an upward scan for a free bank finds: one bank, or none.
FirstFree(bt) == {b \in FreeBanks(bt) : \A c \in FreeBanks(bt) : b <= c}

SetType(bt, S, type) == [b \in Banks |-> IF b \in S THEN type ELSE bt[b]]

\* launcher_free_physical_bank for every bank of S: banks up to the ReadyOS
\* bank are left alone.
FreePhysical(bt, S) ==
  [b \in Banks |-> IF b \in S /\ b > Skip THEN "free" ELSE bt[b]]

FixedType(b) ==
  IF b = Skip THEN "global" ELSE IF b < Skip THEN "skipped" ELSE "free"

\* Mutants: the bank keeps its type; any bank becomes free.
FreeBankNot(bt, S) == bt
FreeBankPlain(bt, S) == SetType(bt, S, "free")

\* reu_free_bank for every bank of S: a fixed bank gets its fixed type back.
FreeBank(bt, S) == [b \in Banks |-> IF b \in S THEN FixedType(b) ELSE bt[b]]

\* Mutant: banks that were missing stay out of reach.
PrepareOldSize(valid, bt) ==
  [b \in Banks |->
     IF b <= Skip THEN FixedType(b)
     ELSE IF b >= Phys THEN "unavail"
     ELSE IF valid THEN bt[b]
     ELSE "free"]

\* reu_control_bank_prepare: fixed and missing banks get their types, a
\* client's bank keeps the type found in a valid table, and a bank that was
\* fixed or missing when the table was written is free.
Prepare(valid, bt) ==
  [b \in Banks |->
     IF b <= Skip THEN FixedType(b)
     ELSE IF b >= Phys THEN "unavail"
     ELSE IF valid /\ bt[b] \notin FixedTypes THEN bt[b]
     ELSE "free"]

\* The banks up to the ReadyOS bank and the missing ones have their types,
\* and no other bank is out of the allocators' reach.
Fixed(bt) ==
  \A b \in Banks :
    /\ b <= Skip => bt[b] = FixedType(b)
    /\ b > Skip /\ b >= Phys => bt[b] = "unavail"
    /\ b > Skip /\ b < Phys => bt[b] \notin FixedTypes
=============================================================================
