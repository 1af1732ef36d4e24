-------------------------- MODULE ClipboardProofs --------------------------
(***************************************************************************)
(* The clipboard loses no bank and is the list it promises, for every      *)
(* number of banks and of entries, every item and every interleaving with  *)
(* other clients and with resets.                                          *)
(***************************************************************************)
EXTENDS Clipboard, SequenceTheorems, FiniteSetTheorems, TLAPS

\* Where each operation is in its loop.
PcOK ==
  /\ pc \in {"idle", "copy"} => idx = 0
  /\ pc = "copy" => bank \in Usable
  /\ pc \in {"shift", "commit"} => idx <= count /\ count < MaxClips /\ bank \in Usable
  /\ pc = "commit" => idx = 0
  /\ pc = "close" => idx < count
  /\ pc = "drop" => idx = count - 1
  /\ pc = "free" => idx <= count

\* The positions of the table that hold an entry: the hole that a copy opens
\* and a delete closes is at idx.
Live ==
  CASE pc \in {"idle", "copy"}    -> 0 .. count - 1
    [] pc \in {"shift", "commit"} -> (0 .. count) \ {idx}
    [] pc \in {"close", "drop"}   -> (0 .. count - 1) \ {idx}
    [] pc = "free"                -> idx .. count - 1
    [] pc = "blank"               -> {}

\* The bank that the copy under way has taken and not yet listed.
Held == IF pc \in {"copy", "shift", "commit"} THEN {bank} ELSE {}

\* Every clipboard bank is listed once, or held by the copy under way.
Accounted ==
  /\ \A i \in Live : btype[table[i]] = "clip" /\ table[i] \in Usable \ Held
  /\ \A i, j \in Live : table[i] = table[j] => i = j
  /\ \A b \in Held : btype[b] = "clip"
  /\ \A b \in Banks : btype[b] = "clip" =>
       b \in Held \/ \E i \in Live : table[i] = b

\* The copy under way has the item, and from its stash on so has its bank.
Stashed ==
  /\ pc \in {"copy", "shift", "commit"} => data \in Item
  /\ pc \in {"shift", "commit"} => store[bank] = data
  /\ pc = "commit" => table[0] = bank

\* TypeOK but for the table and the flag of the reset.
Typed ==
  /\ count \in 0 .. MaxClips
  /\ table \in [Index -> Usable \cup {0}]
  /\ store \in [Banks -> Item \cup {Foreign}]
  /\ pc \in {"idle", "copy", "shift", "commit", "close", "drop", "free",
             "blank"}
  /\ idx \in 0 .. MaxClips
  /\ bank \in Usable \cup {0}
  /\ data \in Item \cup {Foreign}

TInv == btype \in [Banks -> BankTypes] /\ Typed /\ FixedBanks /\ PcOK

ClipInv == TInv /\ (~cut => Accounted /\ Stashed)

USE BankAssumption, ClipboardAssumption

-----------------------------------------------------------------------------
\* A free bank that a scan finds can be given to a client.
LEMMA FirstFreeUsable ==
  ASSUME NEW bt \in [Banks -> BankTypes], Fixed(bt), NEW b \in FirstFree(bt)
  PROVE  b \in Usable /\ bt[b] = "free"
BY SMTT(30) DEF FirstFree, FreeBanks, Dynamic, Usable, Fixed, Banks

\* Marking a usable bank changes no fixed bank's type.
LEMMA SetTypeKeeps ==
  ASSUME NEW bt \in [Banks -> BankTypes], Fixed(bt), NEW b \in Usable,
         NEW t \in BankTypes \ FixedTypes
  PROVE  /\ SetType(bt, {b}, t) \in [Banks -> BankTypes]
         /\ Fixed(SetType(bt, {b}, t))
BY SMTT(30) DEF SetType, Fixed, Usable, Dynamic, Banks

\* Nor does freeing a bank, or the bank 0 of a blank entry.
LEMMA FreeBankKeeps ==
  ASSUME NEW bt \in [Banks -> BankTypes], Fixed(bt), NEW b \in Usable \cup {0}
  PROVE  /\ FreeBank(bt, {b}) \in [Banks -> BankTypes]
         /\ Fixed(FreeBank(bt, {b}))
BY SMTT(30) DEF FreeBank, FixedType, Fixed, Usable, Dynamic, Banks, BankTypes, FixedTypes

LEMMA UsableBanks == Usable \subseteq Banks /\ 0 \notin Usable /\ 0 \in Banks
BY SMTT(30) DEF Usable, Dynamic, Banks

-----------------------------------------------------------------------------
LEMMA InitTypes == ASSUME Init PROVE TInv
<1> USE DEF Init
<1>1. btype \in [Banks -> BankTypes]
  BY SMTT(30) DEF Prepare, Fixed, FixedType, Banks, BankTypes, FixedTypes
<1>2. FixedBanks
  BY SMTT(30) DEF FixedBanks, Prepare, Fixed, FixedType, Banks, FixedTypes
<1>3. Typed
  BY SMTT(30) DEF Typed, Index
<1>4. PcOK
  BY SMTT(30) DEF PcOK
<1> QED
  BY <1>1, <1>2, <1>3, <1>4 DEF TInv

LEMMA NextTypes == ASSUME TInv, [Next]_vars PROVE TInv'
<1> USE DEF TInv, FixedBanks
<1>0. /\ btype \in [Banks -> BankTypes] /\ Fixed(btype)
      /\ \A i \in Index : table[i] \in Usable \cup {0}
  BY DEF Typed
<1>a. {"clip", "alloc"} \subseteq BankTypes \ FixedTypes
  BY DEF BankTypes, ClientTypes, FixedTypes
<1>1. ASSUME NEW x \in Item, StartCopy(x) PROVE TInv'
  <2>1. PICK b \in FirstFree(btype) :
          btype' = SetType(btype, {b}, "clip") /\ bank' = b
    BY <1>1 DEF StartCopy
  <2>2. b \in Usable /\ btype' \in [Banks -> BankTypes] /\ Fixed(btype')
    BY <1>0, <1>a, <2>1, FirstFreeUsable, SetTypeKeeps
  <2> QED
    BY <1>1, <2>1, <2>2, SMTT(30) DEF StartCopy, Typed, PcOK
<1>2. ASSUME CopyFull PROVE TInv'
  <2>1. btype' \in [Banks -> BankTypes] /\ Fixed(btype')
    BY <1>0, <1>2, FreeBankKeeps DEF CopyFull, Typed
  <2> QED
    BY <1>2, <2>1, SMTT(30) DEF CopyFull, Done, Typed, PcOK
<1>3. ASSUME NEW i \in Index, StartDelete(i) PROVE TInv'
  <2>1. btype' \in [Banks -> BankTypes] /\ Fixed(btype')
    BY <1>0, <1>3, FreeBankKeeps DEF StartDelete
  <2> QED
    <3>1. Typed'
      BY <1>3, <2>1, SMTT(30) DEF StartDelete, Typed, Index
    <3>2. PcOK'
      BY <1>3, <2>1, SMTT(30) DEF StartDelete, PcOK, Index
    <3> QED
      BY <2>1, <3>1, <3>2
<1>4. ASSUME ClearFree PROVE TInv'
  <2>1. idx \in Index
    BY <1>4, SMTT(30) DEF ClearFree, Typed, Index
  <2>2. btype' \in [Banks -> BankTypes] /\ Fixed(btype')
    BY <1>0, <1>4, <2>1, FreeBankKeeps DEF ClearFree
  <2> QED
    <3>1. Typed' /\ PcOK'
      BY <1>4, SMTT(30) DEF ClearFree, Typed, PcOK
    <3> QED
      BY <2>2, <3>1
<1>5. ASSUME OtherAlloc PROVE TInv'
  <2>a. /\ \E b \in Banks : store' = [store EXCEPT ![b] = Foreign]
        /\ UNCHANGED <<count, table, pc, idx, bank, data>>
    BY <1>5 DEF OtherAlloc, FirstFree, FreeBanks, Dynamic
  <2>0. Typed'
    BY <2>a, SMTT(30) DEF Typed
  <2>1. PICK b \in FirstFree(btype) :
          /\ btype' = SetType(btype, {b}, "alloc")
          /\ store' = [store EXCEPT ![b] = Foreign]
    BY <1>5 DEF OtherAlloc
  <2>2. btype' \in [Banks -> BankTypes] /\ Fixed(btype')
    BY <1>0, <1>a, <2>1, FirstFreeUsable, SetTypeKeeps
  <2> QED
    <3>2. PcOK /\ pc = "idle" /\ UNCHANGED <<count, pc, idx, bank>>
      BY <1>5 DEF OtherAlloc
    <3>3. PcOK'
      BY <3>2 DEF PcOK
    <3> QED
      BY <2>0, <2>2, <3>3
<1>6. ASSUME NEW b \in Banks, OtherFree(b) PROVE TInv'
  <2>1. btype[b] = "alloc" /\ btype' = FreeBank(btype, {b})
    BY <1>6 DEF OtherFree
  <2>2. btype' \in [Banks -> BankTypes]
    BY <1>0, <2>1, SMTT(30) DEF FreeBank, FixedType, Banks, BankTypes, FixedTypes
  <2>3. Fixed(btype')
    BY <1>0, <2>1, SMTT(30) DEF FreeBank, FixedType, Fixed, Banks, FixedTypes
  <2> QED
    BY <1>6, <2>2, <2>3, SMTT(30) DEF OtherFree, Typed, PcOK
<1>7. ASSUME CopyStash \/ CopyShift \/ CopyInsert \/ CopyCommit PROVE TInv'
  BY <1>7, SMTT(30) DEF CopyStash, CopyShift, CopyInsert, CopyCommit, Done, Typed, PcOK, Index
<1>8. ASSUME DeleteShift \/ DeleteBlank \/ DeleteCommit PROVE TInv'
  BY <1>8, SMTT(30) DEF DeleteShift, DeleteBlank, DeleteCommit, Done, Typed, PcOK, Index
<1>9. ASSUME StartClear \/ ClearFreed \/ ClearBlank \/ ClearCommit PROVE TInv'
  BY <1>9, SMTT(30) DEF StartClear, ClearFreed, ClearBlank, ClearCommit, Done, Typed, PcOK, Index
<1>10. CASE Reset \/ UNCHANGED vars
  <2>1. Typed'
    BY <1>10, SMTT(30) DEF Reset, Done, vars, Typed
  <2>2. PcOK'
    BY <1>10, SMTT(30) DEF Reset, Done, vars, PcOK
  <2>3. btype' = btype
    BY <1>10 DEF Reset, vars
  <2> QED
    BY <1>0, <2>1, <2>2, <2>3
<1> QED
  BY <1>1, <1>2, <1>3, <1>4, <1>5, <1>6, <1>7, <1>8, <1>9, <1>10
     DEF Next, Begin, Step, Other

\* Types, the fixed banks and the loops' bounds hold with resets too.
LEMMA TypesHold == Spec => []TInv
BY InitTypes, NextTypes, PTL DEF Spec

LEMMA CutTyped == Spec => [](cut \in BOOLEAN)
<1>1. Init => cut \in BOOLEAN
  BY DEF Init
<1>2. cut \in BOOLEAN /\ [Next]_vars => (cut \in BOOLEAN)'
  BY DEF Next, Reset, vars
<1> QED
  BY <1>1, <1>2, PTL DEF Spec

\* The types of the clipboard's state.
THEOREM ClipboardTypes == Spec => []TypeOK
<1>1. TInv /\ cut \in BOOLEAN => TypeOK
  BY DEF TInv, Typed, TypeOK
<1> QED
  BY <1>1, TypesHold, CutTyped, PTL

\* Whatever a reset interrupts, no delete, clear or failed copy gives away the
\* ReadyOS bank, a bank below it or a missing bank.
THEOREM ClipboardFixedBanks == Spec => []FixedBanks
<1>1. TInv => FixedBanks
  BY DEF TInv
<1> QED
  BY <1>1, TypesHold, PTL

-----------------------------------------------------------------------------
LEMMA NextAccounted ==
  ASSUME TInv, Accounted, Stashed, Next, ~cut, ~cut' PROVE Accounted'
<1> USE DEF Typed
<1>0. /\ btype \in [Banks -> BankTypes] /\ Fixed(btype) /\ Typed /\ PcOK
      /\ \A i \in Index : table[i] \in Usable \cup {0}
  BY DEF TInv, FixedBanks
<1>b. btype \in [Banks -> BankTypes] /\ Fixed(btype)
  BY <1>0
<1>1. ASSUME NEW x \in Item, StartCopy(x) PROVE Accounted'
  <2>1. PICK b \in FirstFree(btype) :
          btype' = SetType(btype, {b}, "clip") /\ bank' = b
    BY <1>1 DEF StartCopy
  <2>2. b \in Usable /\ btype[b] = "free"
    BY <1>b, FirstFreeUsable
  <2>4. /\ btype'[b] = "clip"
        /\ \A c \in Banks \ {b} : btype'[c] = btype[c]
    BY <2>1, <2>2, UsableBanks, SMTT(30) DEF SetType
  <2>3. Live' = Live /\ Held = {} /\ Held' = {b} /\ table' = table
    BY <1>1, <2>1 DEF StartCopy, Live, Held
  <2> QED
    BY <2>2, <2>3, <2>4, UsableBanks DEF Accounted
<1>2. ASSUME CopyFull PROVE Accounted'
  <2>1. /\ bank \in Usable /\ btype'[bank] = "free"
        /\ \A c \in Banks \ {bank} : btype'[c] = btype[c]
    BY <1>0, <1>2, SMTT(30) DEF CopyFull, PcOK, FreeBank, FixedType, Usable, Dynamic, Banks
  <2>2. Live' = Live /\ Held = {bank} /\ Held' = {} /\ table' = table
    BY <1>2 DEF CopyFull, Done, Live, Held
  <2> QED
    BY <2>1, <2>2, UsableBanks DEF Accounted
<1>3. ASSUME NEW i \in Index, StartDelete(i) PROVE Accounted'
  <2>1. /\ Live = 0 .. count - 1 /\ Live' = Live \ {i} /\ i \in Live
        /\ Held = {} /\ Held' = {} /\ table' = table
    BY <1>0, <1>3, SMTT(30) DEF StartDelete, Live, Held, Index
  <2>2. table[i] \in Usable
    BY <2>1 DEF Accounted
  <2>3. /\ btype'[table[i]] = "free"
        /\ \A c \in Banks \ {table[i]} : btype'[c] = btype[c]
    BY <1>3, <2>2, SMTT(30) DEF StartDelete, FreeBank, FixedType, Usable, Dynamic, Banks
  <2> QED
    BY <2>1, <2>2, <2>3, UsableBanks DEF Accounted
<1>4. ASSUME ClearFree PROVE Accounted'
  <2>1. /\ idx \in Live /\ Live' = Live \ {idx}
        /\ Held = {} /\ Held' = {} /\ table' = table
    BY <1>0, <1>4, SMTT(30) DEF ClearFree, Live, Held
  <2>2. table[idx] \in Usable
    BY <2>1 DEF Accounted
  <2>3. /\ btype'[table[idx]] = "free"
        /\ \A c \in Banks \ {table[idx]} : btype'[c] = btype[c]
    BY <1>4, <2>2, SMTT(30) DEF ClearFree, FreeBank, FixedType, Usable, Dynamic, Banks
  <2> QED
    BY <2>1, <2>2, <2>3, UsableBanks DEF Accounted
<1>5. ASSUME OtherAlloc PROVE Accounted'
  <2>1. PICK b \in FirstFree(btype) : btype' = SetType(btype, {b}, "alloc")
    BY <1>5 DEF OtherAlloc
  <2>2. b \in Usable /\ btype[b] = "free"
    BY <1>b, FirstFreeUsable
  <2>4. /\ btype'[b] = "alloc"
        /\ \A c \in Banks \ {b} : btype'[c] = btype[c]
    BY <2>1, <2>2, UsableBanks, SMTT(30) DEF SetType
  <2>3. Live' = Live /\ Held = {} /\ Held' = {} /\ table' = table
    BY <1>5 DEF OtherAlloc, Live, Held
  <2> QED
    BY <2>2, <2>3, <2>4, UsableBanks DEF Accounted
<1>6. ASSUME NEW b \in Banks, OtherFree(b) PROVE Accounted'
  <2>1. btype[b] = "alloc" /\ btype'[b] # "clip" /\ \A c \in Banks \ {b} : btype'[c] = btype[c]
    BY <1>6 DEF OtherFree, FreeBank, FixedType
  <2>2. Live' = Live /\ Held = {} /\ Held' = {} /\ table' = table
    BY <1>6 DEF OtherFree, Live, Held
  <2> QED
    BY <2>1, <2>2, UsableBanks DEF Accounted
<1>7. ASSUME CopyStash PROVE Accounted'
  <2>1. Live' = Live /\ Held' = Held /\ table' = table /\ btype' = btype
    BY <1>0, <1>7, SMTT(30) DEF CopyStash, Live, Held
  <2> QED
    BY <2>1 DEF Accounted
<1>8. ASSUME CopyShift PROVE Accounted'
  <2>1. /\ Live = (0 .. count) \ {idx} /\ Live' = (0 .. count) \ {idx - 1}
        /\ idx \in 1 .. count /\ count < MaxClips
        /\ Held' = Held /\ btype' = btype
    BY <1>0, <1>8, SMTT(30) DEF CopyShift, Live, Held, PcOK
  <2>2. /\ table'[idx] = table[idx - 1]
        /\ \A k \in Live \ {idx - 1} : table'[k] = table[k]
    BY <1>0, <1>8, <2>1, SMTT(30) DEF CopyShift, Index
  <2>3. Live' = (Live \ {idx - 1}) \cup {idx} /\ idx - 1 \in Live
    BY <2>1, <1>0, SMTT(30)
  <2> QED
    BY <2>1, <2>2, <2>3 DEF Accounted
<1>9. ASSUME CopyInsert PROVE Accounted'
  <2>1. /\ Live' = Live /\ Held' = Held /\ btype' = btype
        /\ 0 \notin Live
    BY <1>0, <1>9, SMTT(30) DEF CopyInsert, Live, Held, PcOK
  <2>2. \A k \in Live : table'[k] = table[k]
    BY <1>0, <1>9, <2>1, SMTT(30) DEF CopyInsert, Index, Live, PcOK
  <2> QED
    BY <2>1, <2>2 DEF Accounted
<1>10. ASSUME CopyCommit PROVE Accounted'
  <2>1. /\ Live' = Live \cup {0} /\ 0 \notin Live
        /\ btype' = btype /\ table' = table
    BY <1>0, <1>10, SMTT(30) DEF CopyCommit, Live, PcOK, Done
  <2>2. Held = {bank} /\ Held' = {} /\ bank \in Usable
    BY <1>0, <1>10 DEF CopyCommit, Held, PcOK, Done
  <2>3. table[0] = bank
    BY <1>10 DEF CopyCommit, Stashed
  <2> QED
    BY <2>1, <2>2, <2>3 DEF Accounted
<1>11. ASSUME DeleteShift PROVE Accounted'
  <2>1. /\ Live' = (Live \ {idx + 1}) \cup {idx} /\ idx + 1 \in Live /\ idx \notin Live
        /\ Held' = Held /\ btype' = btype
    BY <1>0, <1>11, SMTT(30) DEF DeleteShift, Live, Held, PcOK
  <2>2. /\ table'[idx] = table[idx + 1]
        /\ \A k \in Live \ {idx + 1} : table'[k] = table[k]
    BY <1>0, <1>11, SMTT(30) DEF DeleteShift, Index, Live
  <2> QED
    BY <2>1, <2>2 DEF Accounted
<1>12. ASSUME DeleteBlank PROVE Accounted'
  <2>1. /\ Live' = Live /\ Held' = Held /\ btype' = btype
        /\ \A k \in Live : table'[k] = table[k]
    BY <1>0, <1>12, SMTT(30) DEF DeleteBlank, Live, Held, PcOK, Index
  <2> QED
    BY <2>1 DEF Accounted
<1>13. ASSUME DeleteCommit PROVE Accounted'
  <2>1. Live' = Live /\ Held' = Held /\ btype' = btype /\ table' = table
    BY <1>0, <1>13, SMTT(30) DEF DeleteCommit, Live, Held, PcOK, Done
  <2> QED
    BY <2>1 DEF Accounted
<1>14. ASSUME StartClear \/ ClearFreed \/ ClearCommit PROVE Accounted'
  <2>1. Live' = Live /\ Held' = Held /\ btype' = btype /\ table' = table
    BY <1>0, <1>14, SMTT(30) DEF StartClear, ClearFreed, ClearCommit, Live, Held, PcOK, Done
  <2> QED
    BY <2>1 DEF Accounted
<1>15. ASSUME ClearBlank PROVE Accounted'
  <2>1. Live' = {} /\ Live = {} /\ Held' = Held /\ btype' = btype
    BY <1>15 DEF ClearBlank, Live, Held
  <2> QED
    BY <2>1 DEF Accounted
<1> QED
  BY <1>1, <1>2, <1>3, <1>4, <1>5, <1>6, <1>7, <1>8, <1>9, <1>10, <1>11,
     <1>12, <1>13, <1>14, <1>15 DEF Next, Begin, Step, Other, Reset

LEMMA NextStashed ==
  ASSUME TInv, Stashed, Next PROVE Stashed'
<1>0. Typed /\ PcOK
  BY DEF TInv
<1>1. ASSUME NEW x \in Item, StartCopy(x) PROVE Stashed'
  BY <1>1 DEF StartCopy, Stashed
<1>2. ASSUME CopyStash PROVE Stashed'
  BY <1>0, <1>2, UsableBanks, SMTT(30) DEF CopyStash, Stashed, PcOK, Typed
<1>3. ASSUME CopyShift PROVE Stashed'
  BY <1>3 DEF CopyShift, Stashed
<1>4. ASSUME CopyInsert PROVE Stashed'
  BY <1>0, <1>4, SMTT(30) DEF CopyInsert, Stashed, PcOK, Typed, Index
<1>5. CASE pc' \notin {"copy", "shift", "commit"}
  BY <1>5 DEF Stashed
<1>6. ASSUME pc' \in {"copy", "shift", "commit"}
      PROVE  (\E x \in Item : StartCopy(x)) \/ CopyStash \/ CopyShift \/ CopyInsert
  BY <1>6 DEF Next, Begin, Step, Other, Reset, Done, StartDelete, StartClear, OtherAlloc, OtherFree,
     CopyFull, CopyCommit, DeleteShift, DeleteBlank, DeleteCommit, ClearFree, ClearFreed, ClearBlank, ClearCommit
<1> QED
  BY <1>1, <1>2, <1>3, <1>4, <1>5, <1>6

\* The inductive invariant of the clipboard.
THEOREM ClipboardInvariant == Spec => []ClipInv
<1>1. Init => ClipInv
  <2> SUFFICES ASSUME Init PROVE ClipInv
    OBVIOUS
  <2>1. Accounted
    <3>1. Live = {} /\ Held = {}
      BY SMTT(30) DEF Init, Live, Held
    <3>2. \A b \in Banks : btype[b] # "clip"
      BY DEF Init, Prepare, FixedType
    <3> QED
      BY <3>1, <3>2 DEF Accounted
  <2>2. Stashed
    BY DEF Init, Stashed
  <2> QED
    BY <2>1, <2>2, InitTypes DEF ClipInv
<1>2. ClipInv /\ [Next]_vars => ClipInv'
  <2> SUFFICES ASSUME ClipInv, [Next]_vars PROVE ClipInv'
    OBVIOUS
  <2>1. TInv'
    BY NextTypes DEF ClipInv
  <2>2. CASE cut'
    BY <2>1, <2>2 DEF ClipInv
  <2>3. CASE ~cut' /\ Next
    <3>1. ~cut
      BY <2>3 DEF Next, Reset
    <3> QED
      BY <2>1, <2>3, <3>1, NextAccounted, NextStashed DEF ClipInv
  <2>4. CASE UNCHANGED vars
    BY <2>1, <2>4 DEF ClipInv, vars, Accounted, Stashed, Live, Held
  <2> QED
    BY <2>2, <2>3, <2>4
<1> QED
  BY <1>1, <1>2, PTL DEF Spec

\* n different entries list n banks.
LEMMA ListedCardinality ==
  ASSUME NEW n \in Nat, NEW f, NEW T, T = {f[k] : k \in 0 .. n - 1},
         \A i, j \in 0 .. n - 1 : f[i] = f[j] => i = j
  PROVE  Cardinality(T) = n
<1> DEFINE S == 0 .. n - 1
           g == [k \in S |-> f[k]]
<1>1. IsFiniteSet(S) /\ Cardinality(S) = n
  BY FS_Interval, SMT
<1>2. g \in Surjection(S, T)
  BY DEF Surjection
<1>3. g \in Injection(S, T)
  <2>1. \A i, j \in S : g[i] = g[j] => i = j
    OBVIOUS
  <2> QED
    BY <1>2, <2>1 DEF Injection, Surjection, IsInjective
<1>4. Cardinality(T) = Cardinality(S)
  BY <1>1, <1>2, <1>3, FS_Surjection
<1> QED
  BY <1>1, <1>4

LEMMA ListedOnce ==
  ASSUME count \in Nat, \A i, j \in 0 .. count - 1 : table[i] = table[j] => i = j
  PROVE  Cardinality(Listed) = count
BY ListedCardinality, SMTT(30) DEF Listed

\* A copy that fails, a delete and a clear lose no bank, and no bank is listed
\* twice, whatever other clients take and free.
THEOREM ClipboardLosesNoBank == Spec => []BanksListed
<1>1. ClipInv => BanksListed
  <2> SUFFICES ASSUME ClipInv, pc = "idle", ~cut
               PROVE  /\ Listed = {b \in Banks : btype[b] = "clip"}
                      /\ Cardinality(Listed) = count
    BY DEF BanksListed
  <2>1. Accounted /\ Live = 0 .. count - 1 /\ Held = {} /\ count \in Nat
    BY SMT DEF ClipInv, TInv, Typed, Live, Held
  <2>2. Listed = {b \in Banks : btype[b] = "clip"}
    BY <2>1, UsableBanks DEF Accounted, Listed
  <2>3. Cardinality(Listed) = count
    <3>0. count \in Nat
      BY <2>1
    <3>1. \A i, j \in 0 .. count - 1 : table[i] = table[j] => i = j
      BY <2>1 DEF Accounted
    <3> QED
      BY <3>0, <3>1, ListedOnce
  <2> QED
    BY <2>2, <2>3
<1> QED
  BY <1>1, ClipboardInvariant, PTL

-----------------------------------------------------------------------------
\* How many items the list has, ...
Size ==
  IF cut \/ pc \in {"free", "blank"} THEN 0
  ELSE IF pc \in {"close", "drop"} THEN count - 1 ELSE count

\* ... and where the table has the k-th one, behind the hole or not.
Place(k) ==
  IF pc \in {"shift", "commit", "close"} /\ k > idx THEN k ELSE k - 1

\* Elements make a sequence.
LEMMA ElementsSeq ==
  ASSUME NEW S, NEW n \in Nat, NEW f \in [1 .. n -> S]
  PROVE  f \in Seq(S) /\ Len(f) = n
<1>1. f \in Seq(S)
  BY SeqDef
<1>2. f \in [1 .. Len(f) -> S] /\ Len(f) \in Nat
  BY <1>1, LenProperties
<1> QED
  BY <1>1, <1>2, SMT

\* The list, element by element.
LEMMA ItemsAre ==
  ASSUME ClipInv
  PROVE  /\ Items \in Seq(Item \cup {Foreign}) /\ Len(Items) = Size /\ Size \in Nat
         /\ \A k \in 1 .. Size : Items[k] = store[table[Place(k)]]
<1> DEFINE S == Item \cup {Foreign}
           Skipping(n) == [k \in 1 .. n |-> Paste(IF k - 1 < idx THEN k - 1 ELSE k)]
<1>0. TInv /\ Typed /\ PcOK
  BY DEF ClipInv, TInv
<1>1. \A k \in Index : Paste(k) \in S
  BY <1>0, UsableBanks DEF Typed, Paste
<1>2. CASE cut \/ pc \in {"free", "blank"}
  <2>1. Items = <<>> /\ Size = 0
    BY <1>2 DEF Items, Size
  <2> QED
    BY <2>1, EmptySeq, SMT
<1>3. CASE ~cut /\ pc \in {"idle", "copy"}
  <2>1. Items = Visible /\ Size = count /\ count \in Nat
    BY <1>0, <1>3, SMT DEF Items, Size, Typed
  <2>2. Visible \in [1 .. count -> S]
    BY <1>0, <1>1, SMT DEF Visible, Typed, Index
  <2>3. \A k \in 1 .. count : Visible[k] = store[table[Place(k)]]
    BY <1>3, SMT DEF Visible, Paste, Place
  <2> QED
    BY <2>1, <2>2, <2>3, ElementsSeq
<1>4. CASE ~cut /\ pc \in {"shift", "commit"}
  <2>1. Items = Skipping(count) /\ Size = count /\ count \in Nat
    BY <1>0, <1>4, SMT DEF Items, Size, Typed
  <2>2. Skipping(count) \in [1 .. count -> S]
    BY <1>0, <1>1, <1>4, SMT DEF Typed, Index, PcOK
  <2>3. \A k \in 1 .. count : Skipping(count)[k] = store[table[Place(k)]]
    BY <1>0, <1>4, SMT DEF Paste, Place, Typed
  <2> QED
    BY <2>1, <2>2, <2>3, ElementsSeq
<1>5. CASE ~cut /\ pc = "close"
  <2>1. Items = Skipping(count - 1) /\ Size = count - 1 /\ count - 1 \in Nat
    BY <1>0, <1>5, SMT DEF Items, Size, Typed, PcOK
  <2>2. Skipping(count - 1) \in [1 .. count - 1 -> S]
    BY <1>0, <1>1, <1>5, SMT DEF Typed, Index, PcOK
  <2>3. \A k \in 1 .. count - 1 : Skipping(count - 1)[k] = store[table[Place(k)]]
    BY <1>0, <1>5, SMT DEF Paste, Place, Typed
  <2> QED
    BY <2>1, <2>2, <2>3, ElementsSeq
<1>6. CASE ~cut /\ pc = "drop"
  <2>1. Items = SubSeq(Visible, 1, count - 1) /\ Size = count - 1 /\ count - 1 \in Nat
    BY <1>0, <1>6, SMT DEF Items, Size, Typed, PcOK
  <2>2. \A k \in 1 .. count : Visible[k] \in S
    BY <1>0, <1>1, SMT DEF Visible, Typed, Index
  <2>3. \A k \in 1 .. count - 1 : Visible[k] = store[table[Place(k)]]
    BY <1>0, <1>6, SMT DEF Visible, Paste, Place, Typed
  <2>4. \A k \in 1 .. count - 1 : Visible[k] \in S
    BY <1>0, <2>2, SMT DEF Typed
  <2>5. /\ Items \in Seq(S) /\ Len(Items) = Size
        /\ \A k \in 1 .. count - 1 : Items[k] = Visible[k]
    BY <2>1, <2>4, SubSeqProperties, SMT
  <2> QED
    BY <2>1, <2>3, <2>5
<1> QED
  BY <1>0, <1>2, <1>3, <1>4, <1>5, <1>6 DEF Typed

ItemsPlaced ==
  /\ Items \in Seq(Item \cup {Foreign}) /\ Len(Items) = Size /\ Size \in Nat
  /\ \A k \in 1 .. Size : Items[k] = store[table[Place(k)]]

LEMMA ItemsAfter == ClipInv' => ItemsPlaced'
<1>1. ClipInv => ItemsPlaced
  BY ItemsAre DEF ItemsPlaced
<1> QED
  BY <1>1, PTL

\* A step that leaves the data behind every place leaves the list.
LEMMA SameItems ==
  ASSUME ClipInv, ClipInv', Size' = Size,
         \A k \in 1 .. Size : store'[table'[Place(k)']] = store[table[Place(k)]]
  PROVE  Items' = Items
<1>1. /\ Items \in Seq(Item \cup {Foreign}) /\ Len(Items) = Size /\ Size \in Nat
      /\ \A k \in 1 .. Size : Items[k] = store[table[Place(k)]]
  BY ItemsAre
<1>2. /\ Items' \in Seq(Item \cup {Foreign}) /\ Len(Items') = Size
      /\ \A k \in 1 .. Size : Items'[k] = store[table[Place(k)]]
  BY ItemsAfter DEF ItemsPlaced
<1> QED
  BY <1>1, <1>2, SeqEqual

\* The steps of a copy up to its commit: the list stays.
LEMMA CopyStutters ==
  ASSUME ClipInv, ClipInv', ~cut, ~cut',
         \/ \E x \in Item : StartCopy(x)
         \/ CopyFull \/ CopyStash \/ CopyShift \/ CopyInsert
  PROVE  Items' = Items
<1>0. Typed /\ PcOK /\ Accounted
  BY DEF ClipInv, TInv
<1>1. CASE (\E x \in Item : StartCopy(x)) \/ CopyFull
  <2>1. Size' = Size /\ \A k \in 1 .. Size : Place(k)' = Place(k)
    BY <1>0, <1>1, SMT DEF StartCopy, CopyFull, Done, Size, Place
  <2>2. UNCHANGED <<store, table>>
    BY <1>1 DEF StartCopy, CopyFull
  <2> QED
    BY <2>1, <2>2, SameItems
<1>2. CASE CopyStash
  <2>1. Size' = Size /\ Size = count /\ \A k \in 1 .. Size : Place(k)' = k - 1 /\ Place(k) = k - 1
    BY <1>0, <1>2, SMT DEF CopyStash, Size, Place, Typed
  <2>2. \A k \in 1 .. count : table[k - 1] \in Usable /\ table[k - 1] # bank
    BY <1>0, <1>2, SMT DEF CopyStash, Accounted, Live, Held, Typed
  <2>3. \A k \in 1 .. count : store'[table[k - 1]] = store[table[k - 1]] /\ table' = table
    BY <1>0, <1>2, <2>2, UsableBanks, SMT DEF CopyStash, Typed
  <2> QED
    BY <2>1, <2>3, SameItems
<1>3. CASE CopyShift
  <2>1. Size' = Size /\ Size = count /\ store' = store
    BY <1>3, SMT DEF CopyShift, Size
  <2>2. \A k \in 1 .. count : table'[Place(k)'] = table[Place(k)]
    BY <1>0, <1>3, SMT DEF CopyShift, Place, Typed, Index, PcOK
  <2> QED
    BY <2>1, <2>2, SameItems
<1>4. CASE CopyInsert
  <2>1. Size' = Size /\ Size = count /\ store' = store
    BY <1>4, SMT DEF CopyInsert, Size
  <2>2. \A k \in 1 .. count : table'[Place(k)'] = table[Place(k)]
    BY <1>0, <1>4, SMT DEF CopyInsert, Place, Typed, Index, PcOK
  <2> QED
    BY <2>1, <2>2, SameItems
<1> QED
  BY <1>1, <1>2, <1>3, <1>4

\* The steps of a delete after the first: the list stays.
LEMMA DeleteStutters ==
  ASSUME ClipInv, ClipInv', ~cut, ~cut', DeleteShift \/ DeleteBlank \/ DeleteCommit
  PROVE  Items' = Items
<1>0. Typed /\ PcOK
  BY DEF ClipInv, TInv
<1>1. Size' = Size /\ Size = count - 1 /\ store' = store
  BY <1>0, SMT DEF DeleteShift, DeleteBlank, DeleteCommit, Size, Done, Typed
<1>2. \A k \in 1 .. count - 1 : table'[Place(k)'] = table[Place(k)]
  <2>1. CASE DeleteShift
    BY <1>0, <2>1, SMT DEF DeleteShift, Place, Typed, Index, PcOK
  <2>2. CASE DeleteBlank
    BY <1>0, <2>2, SMT DEF DeleteBlank, Place, Typed, Index, PcOK
  <2>3. CASE DeleteCommit
    BY <1>0, <2>3, SMT DEF DeleteCommit, Place, Typed, PcOK, Done
  <2> QED
    BY <2>1, <2>2, <2>3
<1> QED
  BY <1>1, <1>2, SameItems

\* Another client's bank is not the list's.
LEMMA OtherStutters ==
  ASSUME ClipInv, ClipInv', ~cut, ~cut', Other
  PROVE  Items' = Items
<1>0. Typed /\ PcOK /\ Accounted /\ btype \in [Banks -> BankTypes] /\ Fixed(btype)
  BY DEF ClipInv, TInv, FixedBanks
<1>a. pc = "idle" /\ UNCHANGED <<count, table, pc, idx>>
  BY DEF Other, OtherAlloc, OtherFree
<1>1. /\ Size' = Size /\ Size = count /\ table' = table
      /\ \A k \in 1 .. Size : Place(k)' = k - 1 /\ Place(k) = k - 1
  BY <1>a DEF Size, Place
<1>b. Live = 0 .. count - 1 /\ count \in Nat
  BY <1>0, <1>a, SMT DEF Live, Typed
<1>2. \A k \in 1 .. count : table[k - 1] \in Usable /\ btype[table[k - 1]] = "clip"
  <2>1. \A k \in 1 .. count : k - 1 \in Live
    BY <1>b, SMT
  <2> QED
    BY <1>0, <2>1 DEF Accounted
<1>3. \A b \in Banks : btype[b] = "clip" => store'[b] = store[b]
  <2>1. CASE OtherAlloc
    BY <1>0, <2>1, SMT DEF OtherAlloc, FirstFree, FreeBanks, Dynamic, Typed
  <2>2. CASE \E b \in Banks : OtherFree(b)
    BY <2>2 DEF OtherFree
  <2> QED
    BY <2>1, <2>2 DEF Other
<1> QED
  BY <1>1, <1>2, <1>3, UsableBanks, SameItems

\* The commit of a copy puts its item in front.
LEMMA CommitCopies ==
  ASSUME ClipInv, ClipInv', ~cut, ~cut', CopyCommit
  PROVE  \E x \in Item : List!Copy(x)
<1> DEFINE S == Item \cup {Foreign}
<1>0. Typed /\ PcOK /\ Stashed
  BY DEF ClipInv, TInv
<1>1. data \in Item /\ store[table[0]] = data
  BY <1>0 DEF CopyCommit, Stashed
<1>2. /\ Items \in Seq(S) /\ Len(Items) = count
      /\ \A k \in 1 .. count : Items[k] = store[table[k]]
  BY <1>0, ItemsAre, SMT DEF CopyCommit, Size, Place, PcOK, Typed
<1>3. /\ Items' \in Seq(S) /\ Len(Items') = count + 1
      /\ \A k \in 1 .. count + 1 : Items'[k] = store[table[k - 1]]
  BY <1>0, ItemsAfter, SMT DEF ItemsPlaced, CopyCommit, Done, Size, Place, PcOK, Typed
<1>4. /\ <<data>> \in Seq(S) /\ Len(<<data>>) = 1 /\ <<data>>[1] = data
  BY <1>1
<1>5. /\ <<data>> \o Items \in Seq(S) /\ Len(<<data>> \o Items) = count + 1
      /\ \A k \in 1 .. count + 1 :
           (<<data>> \o Items)[k] = IF k <= 1 THEN data ELSE Items[k - 1]
  BY <1>0, <1>2, <1>4, ConcatProperties, SMT DEF Typed
<1> DEFINE C == <<data>> \o Items
<1>c. \A k \in 1 .. count + 1 : C[k] = IF k <= 1 THEN data ELSE Items[k - 1]
  BY <1>5
<1>6. \A k \in 1 .. count + 1 : Items'[k] = C[k]
  <2> HIDE DEF C
  <2> SUFFICES ASSUME NEW k \in 1 .. count + 1 PROVE Items'[k] = C[k]
    OBVIOUS
  <2>1. k <= 1 => k = 1 /\ k - 1 = 0
    BY <1>0, SMT DEF Typed
  <2>2. ~(k <= 1) => k - 1 \in 1 .. count
    BY <1>0, SMT DEF Typed
  <2> QED
    BY <1>1, <1>2, <1>3, <1>c, <2>1, <2>2
<1>7. Items' = <<data>> \o Items
  BY <1>3, <1>5, <1>6, SeqEqual
<1>8. Len(Items) < MaxClips
  BY <1>0, <1>2, SMT DEF CopyCommit, PcOK
<1> QED
  BY <1>1, <1>7, <1>8 DEF List!Copy

\* The first step of a delete takes its item out.
LEMMA StartDeletes ==
  ASSUME ClipInv, ClipInv', ~cut, ~cut', NEW i \in Index, StartDelete(i)
  PROVE  \E d \in DOMAIN Items : List!Delete(d)
<1> DEFINE S == Item \cup {Foreign}
           A == SubSeq(Items, 1, i)
           B == SubSeq(Items, i + 2, count)
<1>0. Typed /\ PcOK /\ i \in Nat /\ i < count /\ count \in Nat
  BY SMT DEF ClipInv, TInv, Typed, Index, StartDelete
<1>1. /\ Items \in Seq(S) /\ Len(Items) = count
      /\ \A k \in 1 .. count : Items[k] = store[table[k - 1]]
  BY <1>0, ItemsAre, SMT DEF StartDelete, Size, Place
<1>2. /\ Items' \in Seq(S) /\ Len(Items') = count - 1
      /\ \A k \in 1 .. count - 1 : Items'[k] = store[table[IF k > i THEN k ELSE k - 1]]
  BY <1>0, ItemsAfter, SMT DEF ItemsPlaced, StartDelete, Size, Place
<1>3. \A k \in 1 .. count : Items[k] \in S
  BY <1>1, ElementOfSeq
<1>4. A \in Seq(S) /\ Len(A) = i /\ \A k \in 1 .. i : A[k] = Items[k]
  <2>1. \A k \in 1 .. i : Items[k] \in S
    BY <1>0, <1>3, SMT
  <2> QED
    BY <1>0, <2>1, SubSeqProperties, SMT
<1>5. /\ B \in Seq(S) /\ Len(B) = count - i - 1
      /\ \A k \in 1 .. count - i - 1 : B[k] = Items[i + 1 + k]
  <2>1. \A k \in i + 2 .. count : Items[k] \in S
    BY <1>0, <1>3, SMT
  <2> QED
    BY <1>0, <2>1, SubSeqProperties, SMT
<1>6. /\ A \o B \in Seq(S) /\ Len(A \o B) = count - 1
      /\ \A k \in 1 .. count - 1 : (A \o B)[k] = IF k <= i THEN A[k] ELSE B[k - i]
  BY <1>0, <1>4, <1>5, ConcatProperties, SMT
<1>7. \A k \in 1 .. count - 1 : Items'[k] = (A \o B)[k]
  <2> HIDE DEF A, B
  <2> SUFFICES ASSUME NEW k \in 1 .. count - 1 PROVE Items'[k] = (A \o B)[k]
    OBVIOUS
  <2>1. CASE k <= i
    <3>1. k \in 1 .. i /\ k \in 1 .. count /\ ~(k > i)
      BY <1>0, <2>1, SMT
    <3> QED
      BY <1>1, <1>2, <1>4, <1>6, <2>1, <3>1
  <2>2. CASE ~(k <= i)
    <3>1. /\ k > i /\ k - i \in 1 .. count - i - 1 /\ k + 1 \in 1 .. count
          /\ i + 1 + (k - i) = k + 1 /\ (k + 1) - 1 = k
      BY <1>0, <2>2, SMT
    <3> QED
      <4>1. Items'[k] = store[table[k]]
        BY <1>2, <3>1
      <4>2. (A \o B)[k] = B[k - i]
        BY <1>6, <2>2
      <4>3. B[k - i] = Items[k + 1]
        BY <1>5, <3>1
      <4>4. Items[k + 1] = store[table[k]]
        BY <1>1, <3>1
      <4> QED
        BY <4>1, <4>2, <4>3, <4>4
  <2> QED
    BY <2>1, <2>2
<1>8. Items' = A \o B
  BY <1>2, <1>6, <1>7, SeqEqual
<1>9. i + 1 \in DOMAIN Items
  BY <1>0, <1>1, LenProperties, SMT
<1>10. (i + 1) - 1 = i /\ (i + 1) + 1 = i + 2
  BY <1>0, SMT
<1> QED
  BY <1>1, <1>8, <1>9, <1>10 DEF List!Delete

\* The steps of a clear: the list becomes empty at the first and stays so.
LEMMA ClearClears ==
  ASSUME ClipInv, ClipInv', ~cut, ~cut',
         StartClear \/ ClearFree \/ ClearFreed \/ ClearBlank \/ ClearCommit
  PROVE  Items' = <<>>
<1>1. Size' = 0
  BY DEF StartClear, ClearFree, ClearFreed, ClearBlank, ClearCommit, Done, Size
<1>2. Items' \in Seq(Item \cup {Foreign}) /\ Len(Items') = 0
  BY <1>1, ItemsAfter DEF ItemsPlaced
<1> QED
  BY <1>2, EmptySeq, SMT

\* Every step of the clipboard is a step of the list, or leaves it.
LEMMA StepRefines ==
  ASSUME ClipInv, ClipInv', [Next]_vars
  PROVE  [List!Next]_Items
<1>1. CASE cut'
  <2>1. Items' = <<>>
    BY <1>1 DEF Items
  <2> QED
    BY <2>1 DEF List!Next, List!Clear
<1>2. CASE UNCHANGED vars
  BY <1>2 DEF vars, Items, Visible, Paste
<1>3. CASE Next /\ ~cut'
  <2>0. ~cut
    BY <1>3 DEF Next, Reset
  <2>1. CASE \E i \in Index : StartDelete(i)
    BY <1>3, <2>0, <2>1, StartDeletes DEF List!Next
  <2>2. CASE CopyCommit
    BY <1>3, <2>0, <2>2, CommitCopies DEF List!Next
  <2>3. CASE StartClear \/ ClearFree \/ ClearFreed \/ ClearBlank \/ ClearCommit
    BY <1>3, <2>0, <2>3, ClearClears DEF List!Next, List!Clear
  <2>4. CASE Other
    BY <1>3, <2>0, <2>4, OtherStutters
  <2>5. CASE DeleteShift \/ DeleteBlank \/ DeleteCommit
    BY <1>3, <2>0, <2>5, DeleteStutters
  <2>6. CASE (\E x \in Item : StartCopy(x)) \/ CopyFull \/ CopyStash \/ CopyShift \/ CopyInsert
    BY <1>3, <2>0, <2>6, CopyStutters
  <2> QED
    BY <1>3, <2>1, <2>2, <2>3, <2>4, <2>5, <2>6 DEF Next, Begin, Step, Reset
<1> QED
  BY <1>1, <1>2, <1>3

\* The clipboard implements the list its header promises: shifting entries one
\* access at a time, sharing the expansion with other clients, forfeiting the
\* list to a reset.
THEOREM ClipboardIsItemList == Spec => IsItemList
<1>1. Init => List!Init
  <2> SUFFICES ASSUME Init PROVE Items = <<>>
    BY DEF List!Init
  <2>1. Items = Visible /\ Visible = [k \in 1 .. 0 |-> Paste(k - 1)]
    BY DEF Init, Items, Visible
  <2> QED
    BY <2>1, SMT
<1>2. ClipInv /\ ClipInv' /\ [Next]_vars => [List!Next]_Items
  BY StepRefines
<1> QED
  BY <1>1, <1>2, ClipboardInvariant, PTL DEF Spec, IsItemList, List!Spec
=============================================================================
