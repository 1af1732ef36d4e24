----------------------------- MODULE Clipboard -----------------------------
(***************************************************************************)
(* The clipboard (src/lib/clipboard_*.c), one step per access to the REU:  *)
(* the bank-type table, the clipboard's table and count in the ReadyOS     *)
(* bank, and a bank of data for each item.  ReadyOs takes each operation   *)
(* as one step; this module looks inside.                                  *)
(*                                                                         *)
(* An access is one DMA transfer and happens or does not; a reset may come *)
(* between two accesses and loses what the operation had in the C64's      *)
(* memory.                                                                 *)
(***************************************************************************)
EXTENDS BankTable, Sequences

CONSTANTS
  Item,       \* what a user can copy
  Foreign,    \* data of another client
  MaxClips    \* entries of the table: 16 in the code

ASSUME ClipboardAssumption ==
  MaxClips \in Nat /\ Foreign \notin Item

VARIABLES
  btype,   \* [Banks -> BankTypes]
  count,   \* the count byte
  table,   \* [0..MaxClips-1 -> bank of the entry], 0 when blank
  store,   \* [Banks -> data of the bank]
  pc,      \* the operation under way, at its next access
  idx,     \* its loop index
  bank,    \* its bank, for a copy
  data,    \* what it copies
  cut      \* whether the machine was reset during an operation

vars == <<btype, count, table, store, pc, idx, bank, data, cut>>

Index == 0 .. MaxClips - 1

TypeOK ==
  /\ btype \in [Banks -> BankTypes]
  /\ count \in 0 .. MaxClips
  /\ table \in [Index -> Usable \cup {0}]
  /\ store \in [Banks -> Item \cup {Foreign}]
  /\ pc \in {"idle", "copy", "shift", "commit", "close", "drop", "free",
             "blank"}
  /\ idx \in 0 .. MaxClips
  /\ bank \in Usable \cup {0}
  /\ data \in Item \cup {Foreign}
  /\ cut \in BOOLEAN

Init ==
  /\ btype = Prepare(FALSE, [b \in Banks |-> "free"])
  /\ count = 0 /\ table = [i \in Index |-> 0]
  /\ store = [b \in Banks |-> Foreign]
  /\ pc = "idle" /\ idx = 0 /\ bank = 0 /\ data = Foreign
  /\ cut = FALSE

\* The operation returns, or is forgotten: its locals are gone.
Done == pc' = "idle" /\ idx' = 0 /\ bank' = 0 /\ data' = Foreign

-----------------------------------------------------------------------------
\* clip_copy: a bank for the data; ...
StartCopy(x) ==
  /\ pc = "idle"
  /\ \E b \in FirstFree(btype) :
       btype' = SetType(btype, {b}, "clip") /\ bank' = b
  /\ data' = x /\ pc' = "copy"
  /\ UNCHANGED <<count, table, store, idx>>

\* ... a full table gives the bank back, ...
CopyFull ==
  /\ pc = "copy" /\ count >= MaxClips
  /\ btype' = FreeBank(btype, {bank})
  /\ Done
  /\ UNCHANGED <<count, table, store>>

\* ... else the data goes into the bank, ...
CopyStash ==
  /\ pc = "copy" /\ count < MaxClips
  /\ store' = [store EXCEPT ![bank] = data]
  /\ pc' = "shift" /\ idx' = count
  /\ UNCHANGED <<btype, count, table, bank, data>>

\* Mutant: the entries move from the first one up.
CopyShiftUp ==
  /\ pc = "shift" /\ idx > 0
  /\ table' = [table EXCEPT ![count - idx + 1] = table[count - idx]]
  /\ idx' = idx - 1
  /\ UNCHANGED <<btype, count, store, pc, bank, data>>

\* ... and clip_insert_bank_item moves the entries up by one, the last one
\* first, ...
CopyShift ==
  /\ pc = "shift" /\ idx > 0
  /\ table' = [table EXCEPT ![idx] = table[idx - 1]]
  /\ idx' = idx - 1
  /\ UNCHANGED <<btype, count, store, pc, bank, data>>

\* ... writes the new one, ...
CopyInsert ==
  /\ pc = "shift" /\ idx = 0
  /\ table' = [table EXCEPT ![0] = bank]
  /\ pc' = "commit"
  /\ UNCHANGED <<btype, count, store, idx, bank, data>>

\* ... and commits the count.
CopyCommit ==
  /\ pc = "commit"
  /\ count' = count + 1
  /\ Done
  /\ UNCHANGED <<btype, table, store>>

-----------------------------------------------------------------------------
\* Mutant: the bank is not freed.
StartDeleteKeepsBank(i) ==
  /\ pc = "idle" /\ i < count
  /\ pc' = "close" /\ idx' = i
  /\ UNCHANGED <<btype, count, table, store, bank, data>>

\* clip_delete: the bank is freed, ...
StartDelete(i) ==
  /\ pc = "idle" /\ i < count
  /\ btype' = FreeBank(btype, {table[i]})
  /\ pc' = "close" /\ idx' = i
  /\ UNCHANGED <<count, table, store, bank, data>>

\* Mutant: the loop does not advance.
DeleteShiftInPlace ==
  /\ pc = "close" /\ idx + 1 < count
  /\ table' = [table EXCEPT ![idx] = table[idx + 1]]
  /\ UNCHANGED <<btype, count, store, pc, idx, bank, data>>

\* ... the entries behind it move down, ...
DeleteShift ==
  /\ pc = "close" /\ idx + 1 < count
  /\ table' = [table EXCEPT ![idx] = table[idx + 1]]
  /\ idx' = idx + 1
  /\ UNCHANGED <<btype, count, store, pc, bank, data>>

\* ... the last entry becomes blank, ...
DeleteBlank ==
  /\ pc = "close" /\ idx + 1 >= count
  /\ table' = [table EXCEPT ![count - 1] = 0]
  /\ pc' = "drop"
  /\ UNCHANGED <<btype, count, store, idx, bank, data>>

\* ... and the count goes down.
DeleteCommit ==
  /\ pc = "drop"
  /\ count' = count - 1
  /\ Done
  /\ UNCHANGED <<btype, table, store>>

-----------------------------------------------------------------------------
\* clip_clear: every bank is freed, ...
StartClear ==
  /\ pc = "idle"
  /\ pc' = "free"
  /\ UNCHANGED <<btype, count, table, store, idx, bank, data>>

ClearFree ==
  /\ pc = "free" /\ idx < count
  /\ btype' = FreeBank(btype, {table[idx]})
  /\ idx' = idx + 1
  /\ UNCHANGED <<count, table, store, pc, bank, data>>

\* ... every entry becomes blank, ...
ClearFreed ==
  /\ pc = "free" /\ idx >= count
  /\ pc' = "blank" /\ idx' = 0
  /\ UNCHANGED <<btype, count, table, store, bank, data>>

ClearBlank ==
  /\ pc = "blank" /\ idx < MaxClips
  /\ table' = [table EXCEPT ![idx] = 0]
  /\ idx' = idx + 1
  /\ UNCHANGED <<btype, count, store, pc, bank, data>>

\* ... and the count becomes zero.
ClearCommit ==
  /\ pc = "blank" /\ idx >= MaxClips
  /\ count' = 0
  /\ Done
  /\ UNCHANGED <<btype, table, store>>

-----------------------------------------------------------------------------
\* Another client of the REU, between two operations: it takes the next free
\* bank and writes it, writes a bank it has, or frees one.
OtherAlloc ==
  /\ pc = "idle"
  /\ \E b \in FirstFree(btype) :
       /\ btype' = SetType(btype, {b}, "alloc")
       /\ store' = [store EXCEPT ![b] = Foreign]
  /\ UNCHANGED <<count, table, pc, idx, bank, data>>

OtherFree(b) ==
  /\ pc = "idle" /\ btype[b] = "alloc"
  /\ btype' = FreeBank(btype, {b})
  /\ UNCHANGED <<count, table, store, pc, idx, bank, data>>

\* A reset in the middle of an operation; the launcher's start finds a valid
\* ReadyOS bank and leaves the clipboard as it is.
Reset ==
  /\ pc # "idle" /\ ~cut      \* bound: one reset
  /\ Done /\ cut' = TRUE
  /\ UNCHANGED <<btype, count, table, store>>

\* The operation under way goes on.
Step ==
  \/ CopyFull \/ CopyStash \/ CopyShift \/ CopyInsert \/ CopyCommit
  \/ DeleteShift \/ DeleteBlank \/ DeleteCommit
  \/ ClearFree \/ ClearFreed \/ ClearBlank \/ ClearCommit

Begin ==
  \/ \E x \in Item : StartCopy(x)
  \/ \E i \in Index : StartDelete(i)
  \/ StartClear

Other == OtherAlloc \/ \E b \in Banks : OtherFree(b)

Next == \/ (Begin \/ Step \/ Other) /\ UNCHANGED cut
        \/ Reset

\* The processor runs an operation it has begun to its end.
Spec == Init /\ [][Next]_vars /\ WF_vars(Step /\ UNCHANGED cut)

-----------------------------------------------------------------------------
\* clip_paste
Paste(k) == store[table[k]]

\* What clip_paste returns for each index the count allows.
Visible == [k \in 1 .. count |-> Paste(k - 1)]

\* The list as if the operation under way had not begun (a copy) or were
\* complete (a delete or clear): the entry at idx is a copy of a neighbour.
\* A reset during an operation forfeits the list: it counts as a Clear.
Items ==
  LET Skipping(n) == [k \in 1 .. n |-> Paste(IF k - 1 < idx THEN k - 1 ELSE k)]
  IN  IF cut THEN <<>>
      ELSE CASE pc \in {"idle", "copy"}    -> Visible
             [] pc \in {"shift", "commit"} -> Skipping(count)
             [] pc = "close"               -> Skipping(count - 1)
             [] pc = "drop"                -> SubSeq(Visible, 1, count - 1)
             [] pc \in {"free", "blank"}   -> <<>>

List == INSTANCE ItemList WITH items <- Items, Max <- MaxClips

\* The clipboard is the list its header file promises: every copy, delete or
\* clear, with its shifting of entries and its banks shared with other
\* clients, changes the list in one step as the operation should.
IsItemList == List!Spec

\* Between operations the banks typed as clipboard banks are the ones the
\* table lists, each once: a copy that fails and a delete lose no bank.
Listed == {table[k] : k \in 0 .. count - 1}

BanksListed ==
  pc = "idle" /\ ~cut =>
    /\ Listed = {b \in Banks : btype[b] = "clip"}
    /\ Cardinality(Listed) = count

\* An interrupted operation may leave a blank entry, or one bank listed twice;
\* deleting such an entry never makes the ReadyOS bank, a bank below it or a
\* missing bank allocatable.
FixedBanks == Fixed(btype)

\* Every operation ends: the shifting loops reach their bounds.
OperationEnds == (pc # "idle") ~> (pc = "idle")
=============================================================================
