---------------------------- MODULE FilesProofs ----------------------------
(***************************************************************************)
(* Proofs about the copies of Simple Files, for every name, every number   *)
(* of slots and entries of a pane, whatever is on the disks, whichever     *)
(* drive command fails: a copy loses no file, is equal to its source when  *)
(* it is reported as made, and is made when nothing fails.                 *)
(***************************************************************************)
EXTENDS SimpleFiles, Integers, SequenceTheorems, FiniteSetTheorems,
        WellFoundedInduction, TLAPS

-----------------------------------------------------------------------------
(***************************************************************************)
(* Directories                                                             *)
(***************************************************************************)

LEMMA LeastOf ==
  ASSUME NEW S \in SUBSET Nat, S # {}
  PROVE  Min(S) \in S /\ \A c \in S : Min(S) <= c
<1> DEFINE R == OpToRel(<, Nat)
<1>1. IsWellFoundedOn(R, Nat)
  BY NatLessThanWellFounded
<1>2. \A x, y \in Nat : <<x, y>> \in R <=> x < y
  BY DEF OpToRel
<1> HIDE DEF R
<1>3. PICK b \in S : \A y \in S : ~(<<y, b>> \in R)
  BY <1>1, WFMin
<1>4. \A y \in S : ~(y < b)
  BY <1>2, <1>3
<1>5. \A y \in S : b <= y
  BY <1>4
<1> QED
  BY <1>5 DEF Min

\* The file of a name is one file, with one content.
LEMMA TheFile ==
  ASSUME NEW dir \in Dirs, NEW i \in Used(dir)
  PROVE  Has(dir, dir[i].name) /\ DataOf(dir, dir[i].name) = dir[i].data
         /\ dir[i] \in Files
<1> DEFINE name == dir[i].name
<1>1. i \in File(dir, name) /\ \A j \in File(dir, name) : j = i
  BY DEF File, Used, Dirs
<1> HIDE DEF name
<1>2. (CHOOSE j \in File(dir, name) : TRUE) = i
  BY <1>1
<1>3. dir[i] \in Files
  BY DEF Used, Dirs
<1> QED
  BY <1>1, <1>2, <1>3 DEF Has, DataOf, name

LEMMA HasFile ==
  ASSUME NEW dir \in Dirs, NEW name, Has(dir, name)
  PROVE  \E i \in Used(dir) : dir[i].name = name /\ dir[i].data = DataOf(dir, name)
<1>1. PICK i \in 1 .. Slots : dir[i] # NoFile /\ dir[i].name = name
  BY DEF Has, File
<1>2. i \in Used(dir)
  BY <1>1 DEF Used
<1> QED
  BY <1>1, <1>2, TheFile

LEMMA WithoutDir ==
  ASSUME NoFile \notin Files, NEW dir \in Dirs, NEW name
  PROVE  /\ Without(dir, name) \in Dirs
         /\ Used(Without(dir, name)) = {i \in Used(dir) : dir[i].name # name}
         /\ \A i \in Used(dir) : dir[i].name # name => Without(dir, name)[i] = dir[i]
<1> DEFINE new == Without(dir, name)
<1>1. new \in [1 .. Slots -> Files \cup {NoFile}]
  BY DEF Without, Dirs
<1>2. \A i \in 1 .. Slots :
        new[i] = IF dir[i] # NoFile /\ dir[i].name = name THEN NoFile ELSE dir[i]
  BY DEF Without
<1> HIDE DEF new
<1>3. Used(new) = {i \in Used(dir) : dir[i].name # name}
  BY <1>2 DEF Used
<1>4. \A i \in Used(dir) : dir[i].name # name => new[i] = dir[i]
  BY <1>2 DEF Used
<1>5. new \in Dirs
  BY <1>1, <1>3, <1>4 DEF Dirs
<1> QED
  BY <1>3, <1>4, <1>5 DEF new

LEMMA WithoutHas ==
  ASSUME NoFile \notin Files, NEW dir \in Dirs, NEW name, NEW n
  PROVE  /\ Has(Without(dir, name), n) <=> Has(dir, n) /\ n # name
         /\ Has(dir, n) /\ n # name => DataOf(Without(dir, name), n) = DataOf(dir, n)
<1> DEFINE new == Without(dir, name)
<1>1. /\ new \in Dirs /\ Used(new) = {i \in Used(dir) : dir[i].name # name}
      /\ \A i \in Used(dir) : dir[i].name # name => new[i] = dir[i]
  BY WithoutDir
<1> HIDE DEF new
<1>2. ASSUME Has(new, n) PROVE Has(dir, n) /\ n # name
  <2>1. PICK i \in Used(new) : new[i].name = n
    BY <1>1, <1>2, HasFile
  <2> QED
    BY <1>1, <2>1, TheFile
<1>3. ASSUME Has(dir, n), n # name PROVE Has(new, n) /\ DataOf(new, n) = DataOf(dir, n)
  <2>1. PICK i \in Used(dir) : dir[i].name = n /\ dir[i].data = DataOf(dir, n)
    BY <1>3, HasFile
  <2>2. i \in Used(new) /\ new[i] = dir[i]
    BY <1>1, <1>3, <2>1
  <2> QED
    BY <1>1, <2>1, <2>2, TheFile
<1> QED
  BY <1>2, <1>3 DEF new

LEMMA WithoutAbsent ==
  ASSUME NEW dir \in Dirs, NEW name, ~Has(dir, name)
  PROVE  Without(dir, name) = dir
<1>1. \A i \in 1 .. Slots : ~(dir[i] # NoFile /\ dir[i].name = name)
  BY DEF Has, File
<1> QED
  BY <1>1 DEF Without, Dirs

Free(dir) == (1 .. Slots) \ Used(dir)
LEMMA WithFree ==
  ASSUME Slots \in Nat, NEW dir \in Dirs, NEW name, NEW data, Free(dir) # {}
  PROVE  /\ Min(Free(dir)) \in Free(dir) /\ \A j \in Free(dir) : Min(Free(dir)) <= j
         /\ With(dir, name, data) = [dir EXCEPT ![Min(Free(dir))] = [name |-> name, data |-> data]]
<1>1. Free(dir) \in SUBSET Nat
  BY DEF Free
<1> QED
  BY <1>1, LeastOf DEF With, Free

LEMMA WithFull ==
  ASSUME NEW dir, NEW name, NEW data, Free(dir) = {}
  PROVE  With(dir, name, data) = dir
BY DEF With, Free

\* A new file changes one free slot.
LEMMA WithDir ==
  ASSUME Slots \in Nat, NoFile \notin Files, NEW dir \in Dirs, NEW name \in AllNames,
         NEW data \in Data \cup {Part}, ~Has(dir, name), Free(dir) # {}
  PROVE  /\ With(dir, name, data) \in Dirs
         /\ Used(With(dir, name, data)) = Used(dir) \cup {Min(Free(dir))}
         /\ Min(Free(dir)) \notin Used(dir) /\ Min(Free(dir)) \in 1 .. Slots
         /\ With(dir, name, data)[Min(Free(dir))] = [name |-> name, data |-> data]
         /\ \A i \in Used(dir) : With(dir, name, data)[i] = dir[i]
<1> DEFINE m   == Min(Free(dir))
           new == With(dir, name, data)
           f   == [name |-> name, data |-> data]
<1>1. m \in 1 .. Slots /\ m \notin Used(dir) /\ new = [dir EXCEPT ![m] = f]
  BY WithFree DEF Free
<1>2. f \in Files /\ f # NoFile /\ f.name = name
  BY DEF Files
<1> HIDE DEF m, new, f
<1>3. dir \in [1 .. Slots -> Files \cup {NoFile}]
  BY DEF Dirs
<1>4. /\ new \in [1 .. Slots -> Files \cup {NoFile}]
      /\ new[m] = f /\ \A i \in 1 .. Slots : i # m => new[i] = dir[i]
  BY <1>1, <1>2, <1>3
<1>5. Used(new) = Used(dir) \cup {m}
  BY <1>1, <1>2, <1>4 DEF Used
<1>6. \A i \in Used(dir) : new[i] = dir[i] /\ dir[i].name # name
  <2>1. \A i \in Used(dir) : i # m /\ i \in 1 .. Slots
    BY <1>1 DEF Used
  <2> QED
    BY <1>4, <2>1, TheFile
<1>7. \A i, j \in Used(new) : new[i].name = new[j].name => i = j
  BY <1>2, <1>4, <1>5, <1>6 DEF Dirs
<1> QED
  BY <1>1, <1>4, <1>5, <1>6, <1>7 DEF m, new, f, Dirs

LEMMA WithHas ==
  ASSUME Slots \in Nat, NoFile \notin Files, NEW dir \in Dirs, NEW name \in AllNames,
         NEW data \in Data \cup {Part}, ~Has(dir, name), NEW n
  PROVE  /\ With(dir, name, data) \in Dirs
         /\ Has(With(dir, name, data), n) <=>
              Has(dir, n) \/ (n = name /\ Free(dir) # {})
         /\ Has(dir, n) => DataOf(With(dir, name, data), n) = DataOf(dir, n)
         /\ Free(dir) # {} => DataOf(With(dir, name, data), name) = data
<1> DEFINE new == With(dir, name, data)
           m   == Min(Free(dir))
<1>1. CASE Free(dir) = {}
  BY <1>1, WithFull
<1>2. CASE Free(dir) # {}
  <2>1. /\ new \in Dirs /\ Used(new) = Used(dir) \cup {m} /\ m \in Used(new)
        /\ new[m] = [name |-> name, data |-> data]
        /\ \A i \in Used(dir) : new[i] = dir[i]
    BY <1>2, WithDir
  <2>2. new[m].name = name /\ new[m].data = data
    BY <2>1
  <2> HIDE DEF new, m
  <2>3. Has(new, name) /\ DataOf(new, name) = data
    BY <2>1, <2>2, TheFile
  <2>4. ASSUME Has(dir, n) PROVE Has(new, n) /\ DataOf(new, n) = DataOf(dir, n)
    <3>1. PICK i \in Used(dir) : dir[i].name = n /\ dir[i].data = DataOf(dir, n)
      BY <2>4, HasFile
    <3> QED
      BY <2>1, <3>1, TheFile
  <2>5. ASSUME Has(new, n) PROVE Has(dir, n) \/ n = name
    <3>1. PICK i \in Used(new) : new[i].name = n
      BY <2>1, <2>5, HasFile
    <3> QED
      BY <2>1, <2>2, <3>1, TheFile
  <2> QED
    BY <1>2, <2>1, <2>3, <2>4, <2>5 DEF new
<1> QED
  BY <1>1, <1>2

\* A file that was added and is scratched leaves the directory as it was.
LEMMA WithWithout ==
  ASSUME Slots \in Nat, NoFile \notin Files, NEW dir \in Dirs, NEW name \in AllNames,
         NEW data \in Data \cup {Part}, ~Has(dir, name)
  PROVE  Without(With(dir, name, data), name) = dir
<1> DEFINE new == With(dir, name, data)
           old == Without(new, name)
           m   == Min(Free(dir))
<1>1. CASE Free(dir) = {}
  BY <1>1, WithFull, WithoutAbsent
<1>2. CASE Free(dir) # {}
  <2>1. /\ new \in Dirs /\ Used(new) = Used(dir) \cup {m} /\ m \notin Used(dir)
        /\ new[m] = [name |-> name, data |-> data] /\ m \in 1 .. Slots
        /\ \A i \in Used(dir) : new[i] = dir[i]
    BY <1>2, WithDir
  <2>2. /\ old \in Dirs /\ Used(old) = {i \in Used(new) : new[i].name # name}
        /\ \A i \in Used(new) : new[i].name # name => old[i] = new[i]
    BY <2>1, WithoutDir
  <2>3. new[m].name = name
    BY <2>1
  <2> HIDE DEF new, old, m
  <2>4. \A i \in Used(dir) : dir[i].name # name
    BY TheFile
  <2>5. Used(old) = Used(dir) /\ \A i \in Used(dir) : old[i] = dir[i]
    BY <2>1, <2>2, <2>3, <2>4
  <2>6. \A i \in 1 .. Slots : old[i] = dir[i]
    <3>1. ASSUME NEW i \in 1 .. Slots, i \notin Used(dir) PROVE old[i] = dir[i]
      <4>1. dir[i] = NoFile /\ old[i] = NoFile
        BY <2>5, <3>1 DEF Used
      <4> QED
        BY <4>1
    <3> QED
      BY <2>5, <3>1
  <2> QED
    BY <2>2, <2>6 DEF Dirs, old, new
<1> QED
  BY <1>1, <1>2

-----------------------------------------------------------------------------
(***************************************************************************)
(* What a pane shows                                                       *)
(***************************************************************************)

LEMMA UsedFinite ==
  ASSUME Slots \in Nat, NEW dir
  PROVE  /\ IsFiniteSet(Used(dir)) /\ Cardinality(Used(dir)) \in Nat
         /\ Used(dir) \subseteq 1 .. Slots
<1>1. IsFiniteSet(1 .. Slots) /\ Used(dir) \in SUBSET (1 .. Slots)
  BY FS_Interval DEF Used
<1>2. IsFiniteSet(Used(dir))
  BY <1>1, FS_Subset
<1> QED
  BY <1>1, <1>2, FS_CardinalityType

UpTo(dir, i) == {j \in Used(dir) : j <= i}

LEMMA PlaceType ==
  ASSUME Slots \in Nat, NEW dir, NEW i \in Used(dir)
  PROVE  Place(dir, i) \in 1 .. Cardinality(Used(dir))
<1>1. IsFiniteSet(Used(dir)) /\ UpTo(dir, i) \in SUBSET Used(dir) /\ i \in Nat
      /\ Cardinality(Used(dir)) \in Nat
  BY UsedFinite DEF UpTo
<1>2. /\ IsFiniteSet(UpTo(dir, i)) /\ Cardinality(UpTo(dir, i)) <= Cardinality(Used(dir))
      /\ Cardinality(UpTo(dir, i)) \in Nat
  BY <1>1, FS_Subset, FS_CardinalityType
<1>3. i \in UpTo(dir, i)
  BY <1>1 DEF UpTo
<1>4. Cardinality(UpTo(dir, i)) # 0
  BY <1>2, <1>3, FS_EmptySet
<1> QED
  BY <1>1, <1>2, <1>4 DEF Place, UpTo

\* Places are in the order of the slots.
LEMMA PlaceOrder ==
  ASSUME Slots \in Nat, NEW dir, NEW i \in Used(dir), NEW j \in Used(dir), i < j
  PROVE  Place(dir, i) < Place(dir, j)
<1>1. IsFiniteSet(Used(dir)) /\ UpTo(dir, j) \in SUBSET Used(dir) /\ i \in Nat /\ j \in Nat
      /\ Used(dir) \subseteq Nat
  BY UsedFinite DEF UpTo
<1>2. IsFiniteSet(UpTo(dir, j)) /\ UpTo(dir, i) \in SUBSET UpTo(dir, j)
  BY <1>1, FS_Subset DEF UpTo
<1>3. j \in UpTo(dir, j) /\ j \notin UpTo(dir, i)
  BY <1>1 DEF UpTo
<1>4. /\ Cardinality(UpTo(dir, i)) <= Cardinality(UpTo(dir, j))
      /\ Cardinality(UpTo(dir, i)) # Cardinality(UpTo(dir, j))
  BY <1>2, <1>3, FS_Subset
<1>5. Place(dir, i) \in Nat /\ Place(dir, j) \in Nat
  BY PlaceType, UsedFinite
<1> QED
  BY <1>4, <1>5 DEF Place, UpTo

LEMMA PlaceOnce ==
  ASSUME Slots \in Nat, NEW dir, NEW i \in Used(dir), NEW j \in Used(dir),
         Place(dir, i) = Place(dir, j)
  PROVE  i = j
<1>1. i \in Nat /\ j \in Nat /\ Place(dir, i) \in Nat
  BY UsedFinite, PlaceType
<1>2. ~(i < j) /\ ~(j < i)
  BY <1>1, PlaceOrder
<1> QED
  BY <1>1, <1>2

\* There is a file at each place.
LEMMA PlaceTaken ==
  ASSUME Slots \in Nat, NEW dir, NEW k \in 1 .. Cardinality(Used(dir))
  PROVE  \E i \in Used(dir) : Place(dir, i) = k
<1> DEFINE S == Used(dir)
           n == Cardinality(S)
           T == 1 .. n
           f == [i \in S |-> Place(dir, i)]
<1>1. IsFiniteSet(S) /\ n \in Nat
  BY UsedFinite
<1>2. f \in [S -> T] /\ \A i \in S : f[i] = Place(dir, i)
  BY PlaceType
<1>3. IsFiniteSet(T) /\ Cardinality(T) = n
  BY <1>1, FS_Interval
<1>4. \A i, j \in S : f[i] = f[j] => i = j
  BY <1>2, PlaceOnce
<1>5. k \in T
  OBVIOUS
<1> HIDE DEF f, T, n, S
<1>6. f \in Injection(S, T)
  BY <1>2, <1>4 DEF Injection, IsInjective
<1>7. f \in Surjection(S, T)
  BY <1>1, <1>3, <1>6, FS_Injection DEF n
<1>8. \E i \in S : f[i] = k
  BY <1>5, <1>7 DEF Surjection
<1> QED
  BY <1>2, <1>8 DEF S

LEMMA ShownType ==
  ASSUME Slots \in Nat, MaxEntries \in Nat, NEW dir
  PROVE  /\ Shown(dir) \in Nat /\ Shown(dir) <= Cardinality(Used(dir))
         /\ Cardinality(Used(dir)) <= MaxEntries => Shown(dir) = Cardinality(Used(dir))
BY UsedFinite DEF Shown

LEMMA ListingAt ==
  ASSUME Slots \in Nat, MaxEntries \in Nat, NEW dir, NEW i \in Used(dir),
         Place(dir, i) <= Shown(dir)
  PROVE  Place(dir, i) \in 1 .. Shown(dir) /\ Listing(dir)[Place(dir, i)] = dir[i]
<1>1. Place(dir, i) \in 1 .. Shown(dir)
  BY PlaceType, ShownType
<1>2. \A j \in Used(dir) : Place(dir, j) = Place(dir, i) => j = i
  BY PlaceOnce
<1>3. (CHOOSE j \in Used(dir) : Place(dir, j) = Place(dir, i)) = i
  BY <1>2
<1> QED
  BY <1>1, <1>3 DEF Listing

LEMMA ListingFiles ==
  ASSUME Slots \in Nat, MaxEntries \in Nat, NEW dir \in Dirs
  PROVE  /\ Listing(dir) \in Seq(Files) /\ DOMAIN Listing(dir) = 1 .. Shown(dir)
         /\ \A k \in 1 .. Shown(dir) :
              \E i \in Used(dir) : Place(dir, i) = k /\ Listing(dir)[k] = dir[i]
<1>1. \A k \in 1 .. Shown(dir) :
        \E i \in Used(dir) : Place(dir, i) = k /\ Listing(dir)[k] = dir[i]
  <2> SUFFICES ASSUME NEW k \in 1 .. Shown(dir)
               PROVE  \E i \in Used(dir) : Place(dir, i) = k /\ Listing(dir)[k] = dir[i]
    OBVIOUS
  <2>1. k \in 1 .. Cardinality(Used(dir)) /\ k <= Shown(dir)
    BY ShownType, UsedFinite
  <2>2. PICK i \in Used(dir) : Place(dir, i) = k
    BY <2>1, PlaceTaken
  <2> QED
    BY <2>1, <2>2, ListingAt
<1>2. DOMAIN Listing(dir) = 1 .. Shown(dir) /\ Shown(dir) \in Nat
  BY ShownType DEF Listing
<1>3. \A k \in 1 .. Shown(dir) : Listing(dir)[k] \in Files
  BY <1>1, TheFile
<1>4. Listing(dir) = [k \in 1 .. Shown(dir) |-> Listing(dir)[k]]
  BY DEF Listing
<1> DEFINE T == Files
           s == Listing(dir)
<1> HIDE DEF T, s
<1>5. s \in [1 .. Shown(dir) -> T]
  BY <1>3, <1>4 DEF T, s
<1>6. s \in Seq(T)
  BY <1>2, <1>5
<1> QED
  BY <1>1, <1>2, <1>6 DEF T, s

\* pane_find_name finds a name that is there, and only one that is.
LEMMA Found ==
  ASSUME NEW T, NEW entries \in Seq(T), NEW name
  PROVE  /\ Find(entries, name) \in Nat
         /\ Find(entries, name) # 0 =>
              /\ Find(entries, name) \in DOMAIN entries
              /\ entries[Find(entries, name)].name = name
         /\ \A k \in DOMAIN entries : entries[k].name = name => Find(entries, name) # 0
<1> DEFINE hits == {i \in DOMAIN entries : entries[i].name = name}
<1>1. DOMAIN entries = 1 .. Len(entries) /\ Len(entries) \in Nat
  OBVIOUS
<1>2. hits \in SUBSET Nat /\ 0 \notin hits
  BY <1>1
<1>3. hits # {} => Min(hits) \in hits
  BY <1>2, LeastOf
<1>4. Find(entries, name) = IF hits = {} THEN 0 ELSE Min(hits)
  BY DEF Find
<1>5. \A i : i \in hits <=> i \in DOMAIN entries /\ entries[i].name = name
  OBVIOUS
<1> DEFINE k == Find(entries, name)
<1> HIDE DEF hits, k
<1>6. k = IF hits = {} THEN 0 ELSE Min(hits)
  BY <1>4 DEF k
<1>7. /\ k \in Nat
      /\ k # 0 => k \in DOMAIN entries /\ entries[k].name = name
      /\ \A j \in DOMAIN entries : entries[j].name = name => k # 0
  <2>1. CASE hits = {}
    BY <1>5, <1>6, <2>1
  <2>2. CASE hits # {}
    <3>1. k \in hits
      BY <1>3, <1>6, <2>2
    <3> QED
      BY <1>2, <1>5, <3>1
  <2> QED
    BY <2>1, <2>2
<1> QED
  BY <1>7 DEF k

\* A pane that shows a directory shows only files of it, as they are, and all of
\* them if they fit.
LEMMA FoundInListing ==
  ASSUME Slots \in Nat, MaxEntries \in Nat, NEW dir \in Dirs, NEW name
  PROVE  /\ Find(Listing(dir), name) \in Nat
         /\ Find(Listing(dir), name) # 0 =>
              /\ Has(dir, name)
              /\ Listing(dir)[Find(Listing(dir), name)].data = DataOf(dir, name)
         /\ Cardinality(Used(dir)) <= MaxEntries /\ Has(dir, name) =>
              Find(Listing(dir), name) # 0
<1> DEFINE e == Listing(dir)
           k == Find(e, name)
<1>1. /\ e \in Seq(Files) /\ DOMAIN e = 1 .. Shown(dir)
      /\ \A j \in 1 .. Shown(dir) : \E i \in Used(dir) : Place(dir, i) = j /\ e[j] = dir[i]
  BY ListingFiles
<1> DEFINE T == Files
<1> HIDE DEF e
<1>2. /\ k \in Nat
      /\ k # 0 => k \in DOMAIN e /\ e[k].name = name
      /\ \A j \in DOMAIN e : e[j].name = name => k # 0
  <2> HIDE DEF T, k
  <2>1. e \in Seq(T)
    BY <1>1 DEF T
  <2> QED
    BY <2>1, Found DEF k
<1> HIDE DEF k
<1>3. ASSUME k # 0 PROVE Has(dir, name) /\ e[k].data = DataOf(dir, name)
  <2>1. PICK i \in Used(dir) : Place(dir, i) = k /\ e[k] = dir[i]
    BY <1>1, <1>2, <1>3
  <2> QED
    BY <1>2, <1>3, <2>1, TheFile
<1>4. ASSUME Cardinality(Used(dir)) <= MaxEntries, Has(dir, name) PROVE k # 0
  <2>1. PICK i \in Used(dir) : dir[i].name = name
    BY <1>4, HasFile
  <2>2. Place(dir, i) <= Shown(dir)
    BY <1>4, PlaceType, ShownType, UsedFinite
  <2>3. Place(dir, i) \in DOMAIN e /\ e[Place(dir, i)] = dir[i]
    BY <1>1, <2>2, ListingAt DEF e
  <2> QED
    BY <1>2, <2>1, <2>3
<1>5. /\ k # 0 => Has(dir, name) /\ e[k].data = DataOf(dir, name)
      /\ Cardinality(Used(dir)) <= MaxEntries /\ Has(dir, name) => k # 0
      /\ k \in Nat
  BY <1>2, <1>3, <1>4
<1> QED
  BY <1>5 DEF e, k

-----------------------------------------------------------------------------
(***************************************************************************)
(* The inductive invariant                                                 *)
(***************************************************************************)

PaneType == [drive : Drives, entries : Seq(Files), sel : Nat]
Disk     == [Drives -> Dirs]
JobOf(D) ==
  [pc : {"overwrite", "copy", "unstage", "unstaged", "verify", "done"},
   pane : Panes, idx : Nat, src : AllNames, from : Drives, dst : Drives,
   name : Names, dup : BOOLEAN, temp : AllNames, confirmed : BOOLEAN,
   before : D, current : BOOLEAN,
   result : {"none", "refused", "stage verify", "copied", "verify"}]
JobType  == JobOf(Disk)

StoreTyped == store \in Disk
RamTyped   == ram \in [panes : [Panes -> PaneType], active : Panes]
Typed      == StoreTyped /\ RamTyped /\ (todo = NoJob \/ todo \in JobType)

\* The drive that is not the source's; what is copied; what the target may get
Other  == Toggle(todo.from)
Source == DataOf(todo.before[todo.from], todo.src)
Pieces == {Source, Part}

\* The directories after the old file of the name was scratched, if there was one
Cleared(d) ==
  IF todo.confirmed /\ d = todo.dst THEN Without(todo.before[d], todo.name)
  ELSE todo.before[d]

\* A directory that a copy was written to, in full or in part, or to which it was not.
Copies(dir, name) == {dir} \cup {With(dir, name, x) : x \in Pieces}

Shows(p, dir) == ram.panes[p].entries = Listing(dir)

\* What was found when the job began
Setup ==
  /\ todo.dst = IF todo.dup THEN todo.from ELSE Other
  /\ todo.dup => todo.name # todo.src
  /\ ~todo.confirmed => ~Has(todo.before[todo.dst], todo.name)
  /\ \E i \in Used(todo.before[todo.from]) :
       /\ todo.before[todo.from][i].name = todo.src
       /\ Place(todo.before[todo.from], i) = todo.idx
  /\ \A d \in Drives : Cardinality(Used(todo.before[d])) <= MaxEntries

\* The panes are those that the job began with.
PanesStay ==
  todo.pc # "done" =>
    ram.active = todo.pane /\ Active.drive = todo.from /\ Passive.drive = Other

\* The temporary file is new.
Staged ==
  todo.pc \in {"unstage", "unstaged"} =>
    /\ todo.dup /\ todo.temp \in ToSet(Temps) /\ todo.temp # todo.name
    /\ ~Has(todo.before[Other], todo.temp)

\* What the drives have, and what the panes show of it
AtStart ==
  /\ todo.pc = "overwrite" => todo.confirmed /\ store = todo.before
  /\ todo.pc = "copy" => \A d \in Drives : store[d] = Cleared(d)
  /\ todo.pc \in {"overwrite", "copy"} =>
       \A p \in Panes : Shows(p, todo.before[ram.panes[p].drive])
AtStage ==
  /\ todo.pc \in {"unstage", "unstaged"} =>
       store[Other] \in Copies(Cleared(Other), todo.temp)
  /\ todo.pc = "unstage" =>
       /\ store[todo.from] = Cleared(todo.from)
       /\ Shows(todo.pane, todo.before[todo.from])
       /\ Shows(3 - todo.pane, store[Other])
AtCopy ==
  /\ todo.pc \in {"unstaged", "verify"} =>
       /\ store[todo.dst] \in Copies(Cleared(todo.dst), todo.name)
       /\ Shows(todo.pane, store[todo.from])
  /\ todo.pc = "verify" =>
       /\ \A d \in Drives : d # todo.dst => store[d] = Cleared(d)
       /\ ~todo.dup => Shows(3 - todo.pane, store[Other])

\* A copy that was verified has as many blocks as the entry next to which it was seen.
Seen == ~todo.dup \/ EntryStays
AtEnd ==
  todo.pc = "done" =>
    IF todo.result = "copied"
    THEN /\ store[todo.dst] \in Copies(Cleared(todo.dst), todo.name)
         /\ Has(store[todo.dst], todo.name)
         /\ Seen => Blocks[DataOf(store[todo.dst], todo.name)] = Blocks[Source]
         /\ \A d \in Drives : d # todo.dst => store[d] = Cleared(d)
    ELSE store = todo.before \/ \A d \in Drives : store[d] = Cleared(d)

JobOK == Setup /\ PanesStay /\ Staged /\ AtStart /\ AtStage /\ AtCopy /\ AtEnd

FInv == Typed /\ (Job /\ todo.current => JobOK)

-----------------------------------------------------------------------------
(***************************************************************************)
(* Panes                                                                   *)
(***************************************************************************)

LEMMA PaneLoaded ==
  ASSUME FilesAssumption, NEW pane \in PaneType, NEW dirs \in Disk, NEW prefer
  PROVE  /\ PaneLoad(pane, dirs, prefer) \in PaneType
         /\ PaneLoad(pane, dirs, prefer).drive = pane.drive
         /\ PaneLoad(pane, dirs, prefer).entries = Listing(dirs[pane.drive])
<1> DEFINE entries == Listing(dirs[pane.drive])
           own     == IF pane.sel \in DOMAIN pane.entries
                      THEN {pane.entries[pane.sel].name} ELSE {}
           wanted  == IF prefer # {} THEN prefer ELSE own
           found   == {Find(entries, n) : n \in wanted} \ {0}
           sel     == IF found = {} THEN pane.sel ELSE CHOOSE i \in found : TRUE
           T       == Files
<1>1. pane.drive \in Drives /\ dirs[pane.drive] \in Dirs /\ pane.sel \in Nat
  BY DEF PaneType, Disk
<1>2. entries \in Seq(T)
  BY <1>1, ListingFiles DEF FilesAssumption
<1>3. \A n : Find(entries, n) \in Nat
  <2> HIDE DEF entries, T
  <2> QED
    BY <1>2, Found
<1> HIDE DEF entries, wanted
<1>4. found \subseteq Nat
  BY <1>3
<1> HIDE DEF found
<1>5. sel \in Nat
  BY <1>1, <1>4
<1>6. Len(entries) \in Nat
  <2> HIDE DEF T
  <2> QED
    BY <1>2
<1> HIDE DEF sel
<1>7. Clamp(sel, entries) \in Nat
  BY <1>5, <1>6 DEF Clamp
<1>8. PaneLoad(pane, dirs, prefer)
        = [pane EXCEPT !.entries = entries, !.sel = Clamp(sel, entries)]
  BY DEF PaneLoad, entries, wanted, found, sel
<1> DEFINE s == Clamp(sel, entries)
           SeqT == Seq(T)
<1> HIDE DEF s
<1>9. pane \in [drive : Drives, entries : SeqT, sel : Nat] /\ entries \in SeqT /\ s \in Nat
  BY <1>2, <1>7 DEF PaneType, s
<1> HIDE DEF SeqT
<1>10. /\ [pane EXCEPT !.entries = entries, !.sel = s]
            \in [drive : Drives, entries : SeqT, sel : Nat]
       /\ [pane EXCEPT !.entries = entries, !.sel = s].drive = pane.drive
       /\ [pane EXCEPT !.entries = entries, !.sel = s].entries = entries
  BY <1>9
<1> QED
  BY <1>8, <1>10 DEF s, SeqT, T, PaneType, entries

LEMMA Reloaded ==
  ASSUME FilesAssumption, NEW panes \in [Panes -> PaneType], NEW dirs \in Disk,
         NEW d \in Drives, NEW prefer
  PROVE  /\ Reload(panes, dirs, d, prefer) \in [Panes -> PaneType]
         /\ \A p \in Panes :
              /\ Reload(panes, dirs, d, prefer)[p].drive = panes[p].drive
              /\ Reload(panes, dirs, d, prefer)[p].entries =
                   IF panes[p].drive = d THEN Listing(dirs[d]) ELSE panes[p].entries
<1>1. \A p \in Panes :
        /\ panes[p] \in PaneType
        /\ PaneLoad(panes[p], dirs, prefer) \in PaneType
        /\ PaneLoad(panes[p], dirs, prefer).drive = panes[p].drive
        /\ PaneLoad(panes[p], dirs, prefer).entries = Listing(dirs[panes[p].drive])
  BY PaneLoaded
<1> QED
  BY <1>1 DEF Reload

LEMMA LoadedBoth ==
  ASSUME FilesAssumption, NEW panes \in [Panes -> PaneType], NEW dirs \in Disk
  PROVE  LoadBoth(panes, dirs) \in [Panes -> PaneType]
<1>1. \A p \in Panes : PaneLoad(panes[p], dirs, {}) \in PaneType
  BY PaneLoaded
<1> QED
  BY <1>1 DEF LoadBoth

LEMMA NormalizedTyped ==
  ASSUME NEW panes \in [Panes -> PaneType]
  PROVE  Normalized(panes) \in [Panes -> PaneType]
<1>1. Toggle(panes[1].drive) \in Drives
  BY DEF Toggle, Drives
<1> DEFINE S == Seq(Files)
<1>2. panes \in [Panes -> [drive : Drives, entries : S, sel : Nat]]
  BY DEF PaneType
<1> HIDE DEF S
<1>3. Normalized(panes) \in [Panes -> [drive : Drives, entries : S, sel : Nat]]
  BY <1>1, <1>2 DEF Normalized, Panes
<1> QED
  BY <1>3 DEF PaneType, S

\* Cold starts read both drives.
LEMMA ColdTyped ==
  ASSUME FilesAssumption, NEW dirs \in Disk
  PROVE  Cold(dirs) \in [panes : [Panes -> PaneType], active : Panes]
<1> DEFINE panes == [p \in Panes |-> [drive |-> 7 + p, entries |-> <<>>, sel |-> 1]]
           S == Seq(Files)
<1>1. <<>> \in S
  OBVIOUS
<1>2. \A p \in Panes : 7 + p \in Drives
  BY DEF Panes, Drives
<1>3. panes \in [Panes -> PaneType]
  <2> HIDE DEF S
  <2>1. \A p \in Panes : [drive |-> 7 + p, entries |-> <<>>, sel |-> 1]
                          \in [drive : Drives, entries : S, sel : Nat]
    BY <1>1, <1>2
  <2> QED
    BY <2>1 DEF PaneType, S
<1> HIDE DEF panes
<1>4. LoadBoth(panes, dirs) \in [Panes -> PaneType]
  BY <1>3, LoadedBoth
<1> QED
  BY <1>4 DEF Cold, panes, Panes

-----------------------------------------------------------------------------
(***************************************************************************)
(* Drive commands                                                          *)
(***************************************************************************)

LEMMA ScratchedDisk ==
  ASSUME FilesAssumption, NEW dirs \in Disk, NEW d \in Drives, NEW name
  PROVE  /\ Scratched(dirs, d, name) \in Disk
         /\ \A e \in Drives : Scratched(dirs, d, name)[e] =
              IF e = d THEN Without(dirs[d], name) ELSE dirs[e]
<1>1. Without(dirs[d], name) \in Dirs
  BY WithoutDir DEF Disk, FilesAssumption
<1> QED
  BY <1>1 DEF Scratched, Disk

LEMMA AddedDisk ==
  ASSUME FilesAssumption, NEW dirs \in Disk, NEW d \in Drives, NEW name \in AllNames,
         NEW data \in Data \cup {Part}, ~Has(dirs[d], name)
  PROVE  /\ Added(dirs, d, name, data) \in Disk
         /\ \A e \in Drives : Added(dirs, d, name, data)[e] =
              IF e = d THEN With(dirs[d], name, data) ELSE dirs[e]
<1>1. With(dirs[d], name, data) \in Dirs
  BY WithHas DEF Disk, FilesAssumption
<1> QED
  BY <1>1 DEF Added, Disk

LEMMA DataTyped ==
  ASSUME NEW dir \in Dirs, NEW name, Has(dir, name)
  PROVE  DataOf(dir, name) \in Data \cup {Part}
<1>1. PICK i \in Used(dir) : dir[i].data = DataOf(dir, name)
  BY HasFile
<1>2. dir[i] \in Files
  BY TheFile
<1> QED
  BY <1>1, <1>2 DEF Files

\* A copy that is sent changes at most the target's drive, and only by a new file.
LEMMA Streaming ==
  ASSUME FilesAssumption, NEW dirs \in Disk, NEW from \in Drives, NEW to \in Drives,
         NEW src, NEW dst \in AllNames, NEW ds, Streams(ds, dirs, from, src, to, dst)
  PROVE  /\ ds \in Disk /\ \A e \in Drives : e # to => ds[e] = dirs[e]
         /\ Has(dirs[to], dst) => ds = dirs
         /\ ~Has(dirs[to], dst) /\ Has(dirs[from], src) =>
              \/ ds[to] = dirs[to]
              \/ \E x \in {DataOf(dirs[from], src), Part} : ds[to] = With(dirs[to], dst, x)
         /\ ~Has(dirs[to], dst) /\ Has(dirs[from], src) /\ mode = "calm" =>
              /\ ds[to] = With(dirs[to], dst, DataOf(dirs[from], src))
              /\ mode' = mode
<1> DEFINE what == IF Has(dirs[from], src) THEN DataOf(dirs[from], src) ELSE Part
           full == Added(dirs, to, dst, what)
           part == Added(dirs, to, dst, Part)
<1>1. dirs[from] \in Dirs
  BY DEF Disk
<1>2. what \in Data \cup {Part} /\ Part \in Data \cup {Part}
  BY <1>1, DataTyped
<1>3. CASE Has(dirs[to], dst)
  <2>1. ds = dirs
    BY <1>3 DEF Streams, Streamed, BrokenOff
  <2> QED
    BY <1>3, <2>1
<1>4. CASE ~Has(dirs[to], dst)
  <2>1. /\ ds = full \/ (mode = "copying" /\ ds \in {dirs, part})
        /\ mode = "calm" => ds = full /\ mode' = mode
    BY <1>4 DEF Streams, Streamed, BrokenOff
  <2> HIDE DEF what
  <2>2. /\ full \in Disk
        /\ \A e \in Drives : full[e] = IF e = to THEN With(dirs[to], dst, what) ELSE dirs[e]
    BY <1>2, <1>4, AddedDisk
  <2>3. /\ part \in Disk
        /\ \A e \in Drives : part[e] = IF e = to THEN With(dirs[to], dst, Part) ELSE dirs[e]
    BY <1>2, <1>4, AddedDisk
  <2>4. Has(dirs[from], src) => what = DataOf(dirs[from], src)
    BY DEF what
  <2> HIDE DEF full, part
  <2> QED
    BY <1>4, <2>1, <2>2, <2>3, <2>4
<1> QED
  BY <1>3, <1>4

-----------------------------------------------------------------------------
(***************************************************************************)
(* Steps without a copy                                                    *)
(***************************************************************************)

LEMMA QuietOK ==
  ASSUME todo' = NoJob, StoreTyped', RamTyped'
  PROVE  FInv'
BY DEF FInv, Typed, Job

LEMMA PanesNow ==
  ASSUME RamTyped
  PROVE  /\ ram.panes \in [Panes -> PaneType] /\ ram.active \in Panes
         /\ 3 - ram.active \in Panes /\ Active \in PaneType /\ Passive \in PaneType
<1>1. ram.panes \in [Panes -> PaneType] /\ ram.active \in Panes
  BY DEF RamTyped
<1> QED
  BY <1>1 DEF Active, Passive, Panes

LEMMA PanesSet ==
  ASSUME RamTyped, NEW panes \in [Panes -> PaneType], SetPanes(panes)
  PROVE  RamTyped' /\ ram'.panes = panes /\ ram'.active = ram.active
BY DEF RamTyped, SetPanes

LEMMA TypedPane ==
  ASSUME NEW pane \in PaneType
  PROVE  /\ \A d \in Drives : [pane EXCEPT !.drive = d] \in PaneType
         /\ \A i \in Nat : [pane EXCEPT !.sel = i] \in PaneType
         /\ pane.drive \in Drives /\ pane.sel \in Nat /\ pane.entries \in Seq(Files)
<1> DEFINE S == Seq(Files)
<1>1. pane \in [drive : Drives, entries : S, sel : Nat]
  BY DEF PaneType
<1> HIDE DEF S
<1>2. /\ \A d \in Drives : [pane EXCEPT !.drive = d] \in [drive : Drives, entries : S, sel : Nat]
      /\ \A i \in Nat : [pane EXCEPT !.sel = i] \in [drive : Drives, entries : S, sel : Nat]
      /\ pane.drive \in Drives /\ pane.sel \in Nat /\ pane.entries \in S
  BY <1>1
<1> QED
  BY <1>2 DEF S, PaneType

LEMMA SwitchActiveOK ==
  ASSUME FInv, SwitchActive
  PROVE  FInv'
<1>1. StoreTyped' /\ todo' = NoJob
  BY DEF FInv, Typed, StoreTyped, SwitchActive, Quiet
<1>2. RamTyped'
  BY DEF FInv, Typed, RamTyped, SwitchActive, Panes
<1> QED
  BY <1>1, <1>2, QuietOK

LEMMA MoveOK ==
  ASSUME FInv, NEW i \in 1 .. MaxEntries, Move(i)
  PROVE  FInv'
<1>1. StoreTyped' /\ todo' = NoJob /\ RamTyped
  BY DEF FInv, Typed, StoreTyped, Move, Quiet
<1>2. i \in Nat
  OBVIOUS
<1>3. ram.panes \in [Panes -> PaneType] /\ ram.active \in Panes
  BY <1>1, PanesNow
<1> DEFINE a == ram.active
           p == [ram.panes EXCEPT ![a] = [@ EXCEPT !.sel = i]]
<1>4. p \in [Panes -> PaneType]
  BY <1>2, <1>3, TypedPane
<1>5. ram' = [ram EXCEPT !.panes = p]
  BY DEF Move
<1> HIDE DEF p
<1>6. RamTyped'
  BY <1>1, <1>4, <1>5 DEF RamTyped
<1> QED
  BY <1>1, <1>6, QuietOK

LEMMA CycleDriveOK ==
  ASSUME FilesAssumption, FInv, CycleDrive
  PROVE  FInv'
<1>1. StoreTyped' /\ StoreTyped /\ todo' = NoJob /\ RamTyped
  BY DEF FInv, Typed, StoreTyped, CycleDrive, Quiet
<1> DEFINE n == Normalized(ram.panes)
           a == ram.active
           t == [n EXCEPT ![a].drive = Toggle(@)]
           p == [t EXCEPT ![a] = PaneLoad(@, store, {})]
<1>2. n \in [Panes -> PaneType] /\ a \in Panes
  BY <1>1, PanesNow, NormalizedTyped
<1>3. Toggle(n[a].drive) \in Drives
  BY DEF Toggle, Drives
<1> HIDE DEF n, a
<1>4. t \in [Panes -> PaneType]
  BY <1>2, <1>3, TypedPane
<1> HIDE DEF t
<1>5. p \in [Panes -> PaneType]
  <2>1. PaneLoad(t[a], store, {}) \in PaneType
    BY <1>1, <1>2, <1>4, PaneLoaded DEF StoreTyped
  <2> QED
    BY <1>2, <1>4, <2>1
<1>6. SetPanes(p)
  BY DEF CycleDrive, p, t, n, a
<1> HIDE DEF p
<1>7. RamTyped'
  BY <1>1, <1>5, <1>6, PanesSet
<1> QED
  BY <1>1, <1>7, QuietOK

LEMMA SwapDrivesOK ==
  ASSUME FilesAssumption, FInv, SwapDrives
  PROVE  FInv'
<1>1. StoreTyped' /\ StoreTyped /\ todo' = NoJob /\ RamTyped
  BY DEF FInv, Typed, StoreTyped, SwapDrives, Quiet
<1> DEFINE t == [p \in Panes |-> [ram.panes[p] EXCEPT !.drive = ram.panes[3 - p].drive]]
<1>2. ram.panes \in [Panes -> PaneType] /\ \A p \in Panes : 3 - p \in Panes
  BY <1>1, PanesNow DEF Panes
<1>3. t \in [Panes -> PaneType]
  BY <1>2, TypedPane
<1>4. SetPanes(LoadBoth(t, store))
  BY DEF SwapDrives
<1> HIDE DEF t
<1>5. RamTyped'
  BY <1>1, <1>3, <1>4, PanesSet, LoadedBoth DEF StoreTyped
<1> QED
  BY <1>1, <1>5, QuietOK

LEMMA RefreshAllOK ==
  ASSUME FilesAssumption, FInv, RefreshAll
  PROVE  FInv'
<1>1. StoreTyped' /\ StoreTyped /\ todo' = NoJob /\ RamTyped
  BY DEF FInv, Typed, StoreTyped, RefreshAll, Quiet
<1>2. Normalized(ram.panes) \in [Panes -> PaneType]
  BY <1>1, PanesNow, NormalizedTyped
<1>3. SetPanes(LoadBoth(Normalized(ram.panes), store))
  BY DEF RefreshAll
<1>4. RamTyped'
  BY <1>1, <1>2, <1>3, PanesSet, LoadedBoth DEF StoreTyped
<1> QED
  BY <1>1, <1>4, QuietOK

LEMMA ChosenEntry ==
  ASSUME RamTyped, Chosen
  PROVE  /\ Entry \in Files /\ Active.drive \in Drives
         /\ Active.sel \in DOMAIN Active.entries /\ Active.sel \in Nat
<1> DEFINE T == Files
<1>1. Active.entries \in Seq(T) /\ Active.drive \in Drives /\ Active.sel \in Nat
  BY PanesNow, TypedPane
<1>2. Active.sel \in DOMAIN Active.entries
  BY DEF Chosen
<1> HIDE DEF T
<1>3. Active.entries[Active.sel] \in T
  BY <1>1, <1>2
<1> QED
  BY <1>1, <1>2, <1>3 DEF Entry, T

LEMMA DeleteEntryOK ==
  ASSUME FilesAssumption, FInv, DeleteEntry
  PROVE  FInv'
<1>1. StoreTyped /\ todo' = NoJob /\ RamTyped /\ Chosen
  BY DEF FInv, Typed, DeleteEntry, Quiet
<1>2. ram.panes \in [Panes -> PaneType] /\ Active.drive \in Drives
  BY <1>1, PanesNow, TypedPane
<1>3. /\ store' = Scratched(store, Active.drive, Entry.name)
      /\ SetPanes(Reload(ram.panes, store', Active.drive, {}))
  BY DEF DeleteEntry
<1>4. store' \in Disk
  BY <1>1, <1>2, <1>3, ScratchedDisk DEF StoreTyped
<1>5. RamTyped'
  BY <1>1, <1>2, <1>3, <1>4, PanesSet, Reloaded
<1> QED
  BY <1>1, <1>4, <1>5, QuietOK DEF StoreTyped

\* A directory in which a file has a new name.
LEMMA RenamedDir ==
  ASSUME FilesAssumption, NEW dir \in Dirs, NEW old, NEW new \in AllNames,
         ~Has(dir, new)
  PROVE  [i \in 1 .. Slots |-> IF i \in File(dir, old) THEN [dir[i] EXCEPT !.name = new]
                               ELSE dir[i]] \in Dirs
<1> DEFINE r == [i \in 1 .. Slots |-> IF i \in File(dir, old) THEN [dir[i] EXCEPT !.name = new]
                                      ELSE dir[i]]
<1>1. \A i \in 1 .. Slots : r[i] = IF i \in File(dir, old) THEN [dir[i] EXCEPT !.name = new]
                                   ELSE dir[i]
  OBVIOUS
<1>2. DOMAIN r = 1 .. Slots /\ r = [i \in 1 .. Slots |-> r[i]]
  OBVIOUS
<1> HIDE DEF r
<1>3. \A f \in Files : [f EXCEPT !.name = new] \in Files /\ [f EXCEPT !.name = new].name = new
  BY DEF Files
<1>4. File(dir, old) \subseteq Used(dir) /\ Used(dir) \subseteq 1 .. Slots
  BY DEF File, Used
<1>5. \A i \in Used(dir) : dir[i] \in Files /\ dir[i].name # new
  BY TheFile
<1>6. \A i \in 1 .. Slots : dir[i] \in Files \cup {NoFile}
  BY DEF Dirs
<1>7. \A i \in 1 .. Slots : r[i] \in Files \cup {NoFile}
  BY <1>1, <1>3, <1>4, <1>5, <1>6
<1>8. Used(r) = Used(dir)
  <2>1. \A i \in 1 .. Slots : i \in File(dir, old) => r[i] \in Files /\ dir[i] \in Files
    BY <1>1, <1>3, <1>4, <1>5
  <2>2. \A i \in 1 .. Slots : r[i] # NoFile <=> dir[i] # NoFile
    BY <1>1, <2>1 DEF FilesAssumption
  <2> QED
    BY <2>2 DEF Used
<1>9. \A i, j \in Used(dir) : dir[i].name = dir[j].name => i = j
  BY DEF Dirs
<1>10. \A i \in Used(dir) : r[i].name = IF dir[i].name = old THEN new ELSE dir[i].name
  BY <1>1, <1>3, <1>4, <1>5 DEF File, Used
<1>11. \A i, j \in Used(r) : r[i].name = r[j].name => i = j
  BY <1>5, <1>8, <1>9, <1>10
<1>12. r \in [1 .. Slots -> Files \cup {NoFile}]
  BY <1>2, <1>7
<1> QED
  BY <1>11, <1>12 DEF Dirs, r

LEMMA RenameEntryOK ==
  ASSUME FilesAssumption, FInv, NEW new \in Names, RenameEntry(new)
  PROVE  FInv'
<1> DEFINE d == Active.drive
           dir == store[d]
           r == [i \in 1 .. Slots |-> IF i \in File(dir, Entry.name)
                                      THEN [dir[i] EXCEPT !.name = new] ELSE dir[i]]
<1>1. StoreTyped /\ todo' = NoJob /\ RamTyped
  BY DEF FInv, Typed, RenameEntry, Quiet
<1>2. ram.panes \in [Panes -> PaneType] /\ d \in Drives
  BY <1>1, PanesNow, TypedPane
<1>3. /\ store' = [store EXCEPT ![d] = r] /\ ~Has(dir, new)
      /\ SetPanes(Reload(ram.panes, store', d, {new}))
  BY DEF RenameEntry
<1>4. dir \in Dirs /\ new \in AllNames
  BY <1>1, <1>2 DEF StoreTyped, Disk, AllNames
<1>5. r \in Dirs
  BY <1>3, <1>4, RenamedDir
<1> HIDE DEF r, dir
<1>6. store' \in Disk
  BY <1>1, <1>2, <1>3, <1>5 DEF StoreTyped, Disk
<1> HIDE DEF d
<1>7. RamTyped'
  BY <1>1, <1>2, <1>3, <1>6, PanesSet, Reloaded
<1> QED
  BY <1>1, <1>6, <1>7, QuietOK DEF StoreTyped

LEMMA ChangeDiskOK ==
  ASSUME FilesAssumption, FInv, NEW d \in Drives, NEW disk \in Disks, ChangeDisk(d, disk)
  PROVE  FInv'
<1>1. StoreTyped /\ RamTyped /\ disk \in Dirs
  BY DEF FInv, Typed, FilesAssumption
<1>2. store' = [store EXCEPT ![d] = disk] /\ ram' = ram /\ todo' = NoJob
  BY DEF ChangeDisk, Quiet
<1>3. StoreTyped' /\ RamTyped'
  BY <1>1, <1>2 DEF StoreTyped, Disk, RamTyped
<1> QED
  BY <1>2, <1>3, QuietOK

LEMMA RestartOK ==
  ASSUME FilesAssumption, FInv, Restart
  PROVE  FInv'
<1>1. StoreTyped /\ store' = store /\ todo' = NoJob /\ ram' = Cold(store)
  BY DEF FInv, Typed, Restart
<1>2. StoreTyped' /\ RamTyped'
  BY <1>1, ColdTyped DEF StoreTyped, RamTyped
<1> QED
  BY <1>1, <1>2, QuietOK

LEMMA FilesInit ==
  ASSUME FilesAssumption, Init
  PROVE  FInv
<1>1. store \in Disk /\ ram = Cold(store) /\ todo = NoJob
  BY DEF Init, Disk, FilesAssumption
<1> QED
  BY <1>1, ColdTyped DEF FInv, Typed, StoreTyped, RamTyped, Job

-----------------------------------------------------------------------------
(***************************************************************************)
(* Steps of a copy                                                         *)
(***************************************************************************)

\* The job goes on: what it was begun with stays.
Same ==
  /\ todo'.pane = todo.pane /\ todo'.idx = todo.idx /\ todo'.src = todo.src
  /\ todo'.from = todo.from /\ todo'.dst = todo.dst /\ todo'.name = todo.name
  /\ todo'.before = todo.before
  /\ (todo'.dup <=> todo.dup) /\ (todo'.confirmed <=> todo.confirmed)
  /\ (todo'.current <=> todo.current)

LEMMA GoesOn ==
  ASSUME todo \in JobType, NEW pc, Goto(pc),
         pc \in {"overwrite", "copy", "unstage", "unstaged", "verify", "done"}
  PROVE  todo' \in JobType /\ Same /\ todo'.pc = pc /\ todo'.temp = todo.temp
<1> DEFINE D == Disk
<1>1. JobType = JobOf(D)
  BY DEF JobType
<1> HIDE DEF D
<1> QED
  BY <1>1 DEF JobOf, Same, Goto

LEMMA GoesToStage ==
  ASSUME todo \in JobType, NEW t \in AllNames,
         todo' = [todo EXCEPT !.temp = t, !.pc = "unstage"]
  PROVE  todo' \in JobType /\ Same /\ todo'.pc = "unstage" /\ todo'.temp = t
<1> DEFINE D == Disk
<1>1. JobType = JobOf(D)
  BY DEF JobType
<1> HIDE DEF D
<1> QED
  BY <1>1 DEF JobOf, Same

LEMMA GoesToEnd ==
  ASSUME todo \in JobType, NEW r, Ends(r),
         r \in {"none", "refused", "stage verify", "copied", "verify"}
  PROVE  todo' \in JobType /\ Same /\ todo'.pc = "done" /\ todo'.result = r
<1> DEFINE D == Disk
<1>1. JobType = JobOf(D)
  BY DEF JobType
<1> HIDE DEF D
<1> QED
  BY <1>1 DEF JobOf, Same, Ends

LEMMA SameSetup ==
  ASSUME Same, Setup
  PROVE  Setup'
BY DEF Same, Setup, Other

LEMMA SameTargets ==
  ASSUME Same
  PROVE  /\ Other' = Other /\ Source' = Source /\ Pieces' = Pieces
         /\ \A d : Cleared(d)' = Cleared(d)
         /\ \A dir, n : Copies(dir, n)' = Copies(dir, n)
         /\ Seen' <=> Seen
<1>1. Other' = Other /\ Source' = Source
  BY DEF Same, Other, Source
<1>2. Pieces' = Pieces
  BY <1>1 DEF Pieces
<1>3. \A d : Cleared(d)' = Cleared(d)
  BY DEF Same, Cleared
<1>4. Seen' <=> Seen
  BY DEF Same, Seen, EntryStays
<1> QED
  BY <1>1, <1>2, <1>3, <1>4 DEF Copies

LEMMA JobNow ==
  ASSUME FInv, todo.pc # "done" \/ Job
  PROVE  /\ todo \in JobType /\ StoreTyped /\ RamTyped /\ Job
         /\ todo.from \in Drives /\ todo.dst \in Drives /\ Other \in Drives
         /\ Other # todo.from /\ todo.name \in AllNames /\ todo.src \in AllNames
         /\ todo.temp \in AllNames /\ todo.pane \in Panes /\ todo.before \in Disk
         /\ \A d \in Drives : d = todo.from \/ d = Other
<1>1. NoJob.pc = "done"
  BY DEF NoJob
<1>2. todo \in JobType /\ Job
  BY <1>1 DEF FInv, Typed, Job
<1>3. StoreTyped /\ RamTyped
  BY DEF FInv, Typed
<1> DEFINE D == Disk
<1>4. todo \in JobOf(D)
  BY <1>2 DEF JobType
<1> HIDE DEF D
<1>5. /\ todo.from \in Drives /\ todo.dst \in Drives /\ todo.name \in Names
      /\ todo.src \in AllNames /\ todo.temp \in AllNames /\ todo.pane \in Panes
      /\ todo.before \in D
  BY <1>4 DEF JobOf
<1>6. /\ Other \in Drives /\ Other # todo.from
      /\ \A d \in Drives : d = todo.from \/ d = Other
  BY <1>5 DEF Other, Toggle, Drives
<1> QED
  BY <1>2, <1>3, <1>5, <1>6 DEF D, AllNames

\* The source is on its drive, at the place of the entry that was chosen.
LEMMA SourceThere ==
  ASSUME FilesAssumption, todo \in JobType, Setup
  PROVE  /\ todo.before[todo.from] \in Dirs /\ todo.before[todo.dst] \in Dirs
         /\ Has(todo.before[todo.from], todo.src) /\ Source \in Data \cup {Part}
         /\ \E i \in Used(todo.before[todo.from]) :
              /\ todo.before[todo.from][i].name = todo.src
              /\ todo.before[todo.from][i].data = Source
              /\ Place(todo.before[todo.from], i) = todo.idx
              /\ Listing(todo.before[todo.from])[todo.idx] = todo.before[todo.from][i]
              /\ todo.idx \in DOMAIN Listing(todo.before[todo.from])
<1> DEFINE dir == todo.before[todo.from]
<1>1. todo.before \in Disk /\ todo.from \in Drives /\ todo.dst \in Drives
  BY DEF JobType, JobOf
<1>2. dir \in Dirs /\ todo.before[todo.dst] \in Dirs
  BY <1>1 DEF Disk
<1>3. PICK i \in Used(dir) : dir[i].name = todo.src /\ Place(dir, i) = todo.idx
  BY DEF Setup
<1>4. Cardinality(Used(dir)) <= MaxEntries
  BY <1>1 DEF Setup
<1>5. Slots \in Nat /\ MaxEntries \in Nat
  BY DEF FilesAssumption
<1> DEFINE b == todo.before
<1> HIDE DEF dir
<1>6. Has(dir, todo.src) /\ DataOf(dir, todo.src) = dir[i].data
  BY <1>2, <1>3, TheFile
<1>7. Source = DataOf(dir, todo.src)
  BY DEF Source, dir
<1>8. Place(dir, i) <= Shown(dir)
  BY <1>4, <1>5, PlaceType, ShownType, UsedFinite
<1>9. Listing(dir)[todo.idx] = dir[i] /\ todo.idx \in DOMAIN Listing(dir)
  <2>1. DOMAIN Listing(dir) = 1 .. Shown(dir)
    BY <1>2, <1>5, ListingFiles
  <2>2. todo.idx \in 1 .. Shown(dir) /\ Listing(dir)[todo.idx] = dir[i]
    BY <1>3, <1>5, <1>8, ListingAt
  <2> QED
    BY <2>1, <2>2
<1>10. Source \in Data \cup {Part}
  BY <1>2, <1>6, <1>7, DataTyped
<1> QED
  BY <1>2, <1>3, <1>6, <1>7, <1>9, <1>10 DEF dir

\* The cleared directories have no file of the target's name.
LEMMA ClearedDir ==
  ASSUME FilesAssumption, todo \in JobType, Setup
  PROVE  /\ \A d \in Drives : Cleared(d) \in Dirs
         /\ ~Has(Cleared(todo.dst), todo.name)
         /\ \A d \in Drives : \A n : Has(Cleared(d), n) => Has(todo.before[d], n)
         /\ Has(Cleared(todo.from), todo.src)
         /\ DataOf(Cleared(todo.from), todo.src) = Source
<1>1. NoFile \notin Files /\ todo.before \in Disk /\ todo.dst \in Drives /\ todo.from \in Drives
  BY DEF FilesAssumption, JobType, JobOf
<1>2. \A d \in Drives : todo.before[d] \in Dirs
  BY <1>1 DEF Disk
<1>3. \A d \in Drives : Cleared(d) \in Dirs
  BY <1>1, <1>2, WithoutDir DEF Cleared
<1>4. ~Has(Cleared(todo.dst), todo.name)
  BY <1>1, <1>2, WithoutHas DEF Cleared, Setup
<1>5. \A d \in Drives : \A n : Has(Cleared(d), n) => Has(todo.before[d], n)
  BY <1>1, <1>2, WithoutHas DEF Cleared
<1>6. Has(todo.before[todo.from], todo.src)
  BY SourceThere
<1>7. Has(Cleared(todo.from), todo.src) /\ DataOf(Cleared(todo.from), todo.src) = Source
  <2>1. CASE todo.confirmed /\ todo.from = todo.dst
    <3>1. todo.name # todo.src
      <4>1. todo.from # Toggle(todo.from)
        BY <1>1 DEF Toggle, Drives
      <4> QED
        BY <2>1, <4>1 DEF Setup, Other, JobType, JobOf
    <3> QED
      BY <1>1, <1>2, <1>6, <2>1, <3>1, WithoutHas DEF Cleared, Source
  <2>2. CASE ~(todo.confirmed /\ todo.from = todo.dst)
    BY <1>6, <2>2 DEF Cleared, Source
  <2> QED
    BY <2>1, <2>2
<1> QED
  BY <1>3, <1>4, <1>5, <1>7

\* The panes of a job under way
LEMMA PanesAre ==
  ASSUME FInv, todo.pc # "done", todo.current
  PROVE  /\ JobOK /\ ram.active = todo.pane
         /\ ram.panes[todo.pane].drive = todo.from
         /\ ram.panes[3 - todo.pane].drive = Other
         /\ Active = ram.panes[todo.pane] /\ Passive = ram.panes[3 - todo.pane]
         /\ 3 - todo.pane \in Panes /\ todo.pane # 3 - todo.pane
         /\ \A p \in Panes : p = todo.pane \/ p = 3 - todo.pane
<1>1. Job /\ todo.pane \in Panes
  BY JobNow
<1>2. JobOK
  BY <1>1 DEF FInv
<1>3. ram.active = todo.pane /\ Active.drive = todo.from /\ Passive.drive = Other
  BY <1>2 DEF JobOK, PanesStay
<1>4. 3 - todo.pane \in Panes /\ todo.pane # 3 - todo.pane
      /\ \A p \in Panes : p = todo.pane \/ p = 3 - todo.pane
  BY <1>1 DEF Panes
<1> QED
  BY <1>2, <1>3, <1>4 DEF Active, Passive

\* The panes stay when drives and active pane do.
LEMMA PanesGoOn ==
  ASSUME FInv, todo.pc # "done", todo.current, Same, ram'.active = ram.active,
         \A p \in Panes : ram'.panes[p].drive = ram.panes[p].drive
  PROVE  PanesStay'
<1>1. /\ ram.active = todo.pane /\ ram.panes[todo.pane].drive = todo.from
      /\ ram.panes[3 - todo.pane].drive = Other /\ 3 - todo.pane \in Panes
  BY PanesAre
<1>2. todo.pane \in Panes
  BY JobNow
<1>3. Other' = Other
  BY SameTargets
<1> QED
  BY <1>1, <1>2, <1>3 DEF PanesStay, Active, Passive, Same

LEMMA OverwriteOK ==
  ASSUME FilesAssumption, FInv, Overwrite
  PROVE  FInv'
<1>1. /\ todo.pc = "overwrite" /\ ram' = ram /\ Goto("copy")
      /\ store' = Scratched(store, todo.dst, todo.name)
  BY DEF Overwrite
<1>2. todo \in JobType /\ StoreTyped /\ RamTyped /\ todo.dst \in Drives
  BY <1>1, JobNow
<1>3. todo' \in JobType /\ Same /\ todo'.pc = "copy"
  BY <1>1, <1>2, GoesOn
<1>4. /\ StoreTyped' /\ RamTyped'
      /\ \A e \in Drives : store'[e] = IF e = todo.dst THEN Without(store[e], todo.name)
                                       ELSE store[e]
  BY <1>1, <1>2, ScratchedDisk DEF StoreTyped, RamTyped
<1>5. ASSUME todo.current PROVE JobOK'
  <2>1. JobOK
    BY <1>1, <1>5, PanesAre
  <2>2. Setup' /\ PanesStay'
    BY <1>1, <1>3, <1>5, <2>1, SameSetup, PanesGoOn DEF JobOK
  <2>3. \A d \in Drives : Cleared(d)' = Cleared(d)
    BY <1>3, SameTargets
  <2>4. \A d \in Drives : store'[d] = Cleared(d)
    BY <1>1, <1>4, <2>1 DEF JobOK, AtStart, Cleared
  <2>5. AtStart'
    BY <1>1, <1>3, <2>1, <2>3, <2>4 DEF JobOK, AtStart, Shows, Same
  <2> QED
    BY <1>3, <2>2, <2>5 DEF JobOK, Staged, AtStage, AtCopy, AtEnd
<1> QED
  BY <1>3, <1>4, <1>5 DEF FInv, Typed, Same

LEMMA CancelOK ==
  ASSUME FInv, Cancel
  PROVE  FInv'
<1>1. todo.pc = "overwrite" /\ ram' = ram /\ Ends("refused") /\ store' = store
  BY DEF Cancel
<1>2. todo \in JobType /\ StoreTyped /\ RamTyped
  BY <1>1, JobNow
<1>3. todo' \in JobType /\ Same /\ todo'.pc = "done" /\ todo'.result = "refused"
  BY <1>1, <1>2, GoesToEnd
<1>4. StoreTyped' /\ RamTyped'
  BY <1>1, <1>2 DEF StoreTyped, RamTyped
<1>5. ASSUME todo.current PROVE JobOK'
  <2>1. JobOK
    BY <1>1, <1>5, PanesAre
  <2>2. Setup'
    BY <1>3, <2>1, SameSetup DEF JobOK
  <2>3. store' = todo'.before
    BY <1>1, <1>3, <2>1 DEF JobOK, AtStart, Same
  <2> QED
    BY <1>3, <2>2, <2>3 DEF JobOK, PanesStay, Staged, AtStart, AtStage, AtCopy, AtEnd
<1> QED
  BY <1>3, <1>4, <1>5 DEF FInv, Typed, Same

LEMMA RefuseOK ==
  ASSUME FInv, Refuse
  PROVE  FInv'
<1>1. todo.pc = "copy" /\ ram' = ram /\ Ends("refused") /\ store' = store
  BY DEF Refuse
<1>2. todo \in JobType /\ StoreTyped /\ RamTyped
  BY <1>1, JobNow
<1>3. todo' \in JobType /\ Same /\ todo'.pc = "done" /\ todo'.result = "refused"
  BY <1>1, <1>2, GoesToEnd
<1>4. StoreTyped' /\ RamTyped'
  BY <1>1, <1>2 DEF StoreTyped, RamTyped
<1>5. ASSUME todo.current PROVE JobOK'
  <2>1. JobOK
    BY <1>1, <1>5, PanesAre
  <2>2. Setup'
    BY <1>3, <2>1, SameSetup DEF JobOK
  <2>3. \A d \in Drives : store'[d] = Cleared(d)'
    BY <1>1, <1>3, <2>1, SameTargets DEF JobOK, AtStart
  <2> QED
    BY <1>3, <2>2, <2>3 DEF JobOK, PanesStay, Staged, AtStart, AtStage, AtCopy, AtEnd
<1> QED
  BY <1>3, <1>4, <1>5 DEF FInv, Typed, Same

\* What a command sends makes one of the copies of its target.
LEMMA SentCopies ==
  ASSUME FilesAssumption, NEW dirs \in Disk, NEW from \in Drives, NEW to \in Drives,
         NEW src, NEW dst \in AllNames, NEW ds, Streams(ds, dirs, from, src, to, dst),
         ~Has(dirs[to], dst), Has(dirs[from], src), DataOf(dirs[from], src) \in Pieces
  PROVE  ds[to] \in Copies(dirs[to], dst)
<1> DEFINE y == DataOf(dirs[from], src)
<1>1. ds[to] = dirs[to] \/ \E x \in {y, Part} : ds[to] = With(dirs[to], dst, x)
  BY Streaming
<1>2. y \in Pieces /\ Part \in Pieces
  BY DEF Pieces
<1> HIDE DEF y
<1>3. ds[to] = dirs[to] \/ \E x \in Pieces : ds[to] = With(dirs[to], dst, x)
  BY <1>1, <1>2
<1> QED
  BY <1>3 DEF Copies

LEMMA CopyOK ==
  ASSUME FilesAssumption, FInv, Copy
  PROVE  FInv'
<1> DEFINE p1 == Reload(ram.panes, store', todo.dst, {todo.name})
           p2 == Reload(p1, store', todo.from, {todo.src})
<1>1. /\ todo.pc = "copy" /\ ~todo.dup /\ Goto("verify") /\ SetPanes(p2)
      /\ Streams(store', store, todo.from, todo.src, todo.dst, todo.name)
  BY DEF Copy
<1>2. /\ todo \in JobType /\ StoreTyped /\ RamTyped /\ todo.dst \in Drives
      /\ todo.from \in Drives /\ todo.name \in AllNames /\ store \in Disk
  BY <1>1, JobNow DEF StoreTyped
<1>3. todo' \in JobType /\ Same /\ todo'.pc = "verify"
  BY <1>1, <1>2, GoesOn
<1>4. store' \in Disk
  BY <1>1, <1>2, Streaming
<1>5. /\ p1 \in [Panes -> PaneType]
      /\ \A p \in Panes :
           /\ p1[p].drive = ram.panes[p].drive
           /\ p1[p].entries = IF ram.panes[p].drive = todo.dst THEN Listing(store'[todo.dst])
                              ELSE ram.panes[p].entries
  BY <1>2, <1>4, PanesNow, Reloaded
<1> HIDE DEF p1
<1>6. /\ p2 \in [Panes -> PaneType]
      /\ \A p \in Panes :
           /\ p2[p].drive = p1[p].drive
           /\ p2[p].entries = IF p1[p].drive = todo.from THEN Listing(store'[todo.from])
                              ELSE p1[p].entries
  BY <1>2, <1>4, <1>5, Reloaded
<1> HIDE DEF p2
<1>7. RamTyped' /\ ram'.panes = p2 /\ ram'.active = ram.active
  BY <1>1, <1>2, <1>6, PanesSet
<1>8. ASSUME todo.current PROVE JobOK'
  <2>1. JobOK /\ ram.panes[todo.pane].drive = todo.from
        /\ ram.panes[3 - todo.pane].drive = Other /\ 3 - todo.pane \in Panes
        /\ todo.pane \in Panes /\ Other # todo.from
    BY <1>1, <1>8, PanesAre, JobNow
  <2>2. Setup' /\ PanesStay'
    BY <1>1, <1>3, <1>5, <1>6, <1>7, <1>8, <2>1, SameSetup, PanesGoOn DEF JobOK
  <2>3. todo.dst = Other /\ \A d \in Drives : store[d] = Cleared(d)
    BY <1>1, <2>1 DEF JobOK, Setup, AtStart
  <2>4. /\ ~Has(store[todo.dst], todo.name) /\ Has(store[todo.from], todo.src)
        /\ DataOf(store[todo.from], todo.src) = Source
    BY <1>2, <2>1, <2>3, ClearedDir DEF JobOK
  <2>5. /\ \A d \in Drives : d # todo.dst => store'[d] = Cleared(d)
        /\ store'[todo.dst] \in Copies(Cleared(todo.dst), todo.name)
    <3>1. \A d \in Drives : d # todo.dst => store'[d] = store[d]
      BY <1>1, <1>2, Streaming
    <3>2. store'[todo.dst] \in Copies(store[todo.dst], todo.name)
      <4>1. Source \in Pieces
        BY DEF Pieces
      <4> QED
        BY <1>1, <1>2, <2>4, <4>1, SentCopies
    <3> QED
      BY <1>2, <2>3, <3>1, <3>2
  <2>6. /\ ram'.panes[todo.pane].entries = Listing(store'[todo.from])
        /\ ram'.panes[3 - todo.pane].entries = Listing(store'[Other])
    BY <1>5, <1>6, <1>7, <2>1, <2>3
  <2>7. /\ Other' = Other /\ \A d : Cleared(d)' = Cleared(d)
        /\ \A dir, n : Copies(dir, n)' = Copies(dir, n)
    BY <1>3, SameTargets
  <2>8. AtCopy'
    BY <1>3, <2>5, <2>6, <2>7 DEF AtCopy, Shows, Same
  <2> QED
    BY <1>3, <2>2, <2>8 DEF JobOK, Staged, AtStart, AtStage, AtEnd
<1> QED
  BY <1>3, <1>4, <1>7, <1>8 DEF FInv, Typed, StoreTyped, Same

\* What a job is begun with
LEMMA Begins ==
  ASSUME FInv, NEW name \in Names, NEW dup \in BOOLEAN, CopyEntry(dup, name)
  PROVE  LET dst == IF dup THEN Active.drive ELSE Toggle(Active.drive)
         IN  /\ todo' \in JobType
             /\ todo'.pane = ram.active /\ todo'.idx = Active.sel /\ todo'.src = Entry.name
             /\ todo'.from = Active.drive /\ todo'.dst = dst /\ todo'.name = name
             /\ (todo'.dup <=> dup) /\ (todo'.confirmed <=> NameExists(dst, name))
             /\ todo'.before = store /\ (todo'.current <=> Current)
             /\ todo'.pc = IF NameExists(dst, name) THEN "overwrite" ELSE "copy"
<1> DEFINE dst == IF dup THEN Active.drive ELSE Toggle(Active.drive)
           D   == Disk
           n   == NameExists(dst, name)
           c   == Current
           pc  == IF n THEN "overwrite" ELSE "copy"
           en  == Entry.name
           ad  == Active.drive
           as  == Active.sel
<1>1. StoreTyped /\ RamTyped /\ Chosen
  BY DEF FInv, Typed, CopyEntry
<1>2. Entry \in Files /\ ad \in Drives /\ as \in Nat /\ ram.active \in Panes
  BY <1>1, ChosenEntry, PanesNow
<1>3. en \in AllNames /\ name \in AllNames
  BY <1>2 DEF Files, AllNames
<1>4. dst \in Drives
  BY <1>2 DEF Toggle, Drives
<1>5. n \in BOOLEAN /\ c \in BOOLEAN /\ store \in D
  BY <1>1 DEF NameExists, Current, StoreTyped
<1>6. todo' = [pc |-> pc, pane |-> ram.active, idx |-> as, src |-> en,
               from |-> ad, dst |-> dst, name |-> name, dup |-> dup,
               temp |-> name, confirmed |-> n,
               before |-> store, current |-> c, result |-> "none"]
  BY DEF CopyEntry
<1> DEFINE t == todo'
<1> HIDE DEF dst, D, n, c, en, ad, as
<1>7. t \in JobOf(D)
  BY <1>2, <1>3, <1>4, <1>5, <1>6 DEF JobOf
<1>8. /\ t.pane = ram.active /\ t.idx = as /\ t.src = en
      /\ t.from = ad /\ t.dst = dst /\ t.name = name
      /\ (t.dup <=> dup) /\ (t.confirmed <=> n)
      /\ t.before = store /\ (t.current <=> c) /\ t.pc = pc
  BY <1>5, <1>6
<1> QED
  BY <1>7, <1>8 DEF dst, D, n, c, en, ad, as, JobType

LEMMA CopyEntryOK ==
  ASSUME FilesAssumption, FInv, NEW name \in Names, NEW dup \in BOOLEAN,
         CopyEntry(dup, name)
  PROVE  FInv'
<1> DEFINE dst == IF dup THEN Active.drive ELSE Toggle(Active.drive)
<1>1. /\ todo' \in JobType
      /\ todo'.pane = ram.active /\ todo'.idx = Active.sel /\ todo'.src = Entry.name
      /\ todo'.from = Active.drive /\ todo'.dst = dst /\ todo'.name = name
      /\ (todo'.dup <=> dup) /\ (todo'.confirmed <=> NameExists(dst, name))
      /\ todo'.before = store /\ (todo'.current <=> Current)
      /\ todo'.pc = IF NameExists(dst, name) THEN "overwrite" ELSE "copy"
  BY Begins
<1>2. /\ StoreTyped /\ RamTyped /\ Chosen /\ ram' = ram /\ store' = store
      /\ (dup => name # Entry.name)
  BY DEF FInv, Typed, CopyEntry
<1>3. StoreTyped' /\ RamTyped'
  BY <1>2 DEF StoreTyped, RamTyped
<1>4. /\ Slots \in Nat /\ MaxEntries \in Nat /\ store \in Disk
      /\ ram.active \in Panes /\ 3 - ram.active \in Panes /\ ram.active # 3 - ram.active
      /\ \A p \in Panes : p = ram.active \/ p = 3 - ram.active
  BY <1>2, PanesNow DEF FilesAssumption, StoreTyped, Panes
<1>5. ASSUME Current PROVE JobOK'
  <2> DEFINE a == Active.drive
             dir == store[a]
  <2>1. /\ {ram.panes[p].drive : p \in Panes} = Drives
        /\ \A p \in Panes : Shows(p, store[ram.panes[p].drive])
        /\ \A p \in Panes : Cardinality(Used(store[ram.panes[p].drive])) <= MaxEntries
    BY <1>5 DEF Current, Shows
  <2>2. /\ a \in Drives /\ Passive.drive = Toggle(a) /\ Toggle(a) \in Drives
        /\ \A d \in Drives : d = a \/ d = Toggle(a)
    <3>1. \A d \in Drives : d = Active.drive \/ d = Passive.drive
      BY <1>4, <2>1 DEF Active, Passive
    <3>2. Active.drive \in Drives /\ Passive.drive \in Drives
      BY <1>2, PanesNow, TypedPane
    <3> QED
      BY <3>1, <3>2 DEF Drives, Toggle
  <2>3. /\ dir \in Dirs /\ store[Toggle(a)] \in Dirs
        /\ \A d \in Drives : Cardinality(Used(store[d])) <= MaxEntries
        /\ Active.entries = Listing(dir) /\ Passive.entries = Listing(store[Toggle(a)])
    BY <1>4, <2>1, <2>2 DEF Disk, Active, Passive, Shows
  <2>4. ~NameExists(dst, name) => ~Has(store[dst], name)
    <3>1. CASE dup
      <4>1. dst = a /\ name # Entry.name
        BY <1>2, <3>1
      <4>2. ~NameExists(dst, name) => Find(Listing(dir), name) = 0
        BY <2>3, <4>1 DEF NameExists
      <4> QED
        BY <1>4, <2>2, <2>3, <4>1, <4>2, FoundInListing
    <3>2. CASE ~dup
      <4>1. dst = Toggle(a)
        BY <3>2
      <4>2. ~NameExists(dst, name) => Find(Listing(store[Toggle(a)]), name) = 0
        BY <2>2, <2>3, <4>1 DEF NameExists
      <4> QED
        BY <1>4, <2>2, <2>3, <4>1, <4>2, FoundInListing
    <3> QED
      BY <3>1, <3>2
  <2>5. \E i \in Used(dir) : dir[i].name = Entry.name /\ Place(dir, i) = Active.sel
    <3>1. Active.sel \in DOMAIN Listing(dir) /\ Entry = Listing(dir)[Active.sel]
      BY <1>2, <2>3 DEF Chosen, Entry
    <3>2. /\ DOMAIN Listing(dir) = 1 .. Shown(dir)
          /\ \A k \in 1 .. Shown(dir) :
               \E i \in Used(dir) : Place(dir, i) = k /\ Listing(dir)[k] = dir[i]
      BY <1>4, <2>3, ListingFiles
    <3> QED
      BY <3>1, <3>2
  <2>6. Other' = Toggle(a)
    BY <1>1 DEF Other
  <2>7. Setup'
    BY <1>1, <1>2, <2>3, <2>4, <2>5, <2>6 DEF Setup
  <2>8. PanesStay'
    BY <1>1, <1>2, <2>2, <2>6 DEF PanesStay, Active, Passive
  <2>9. AtStart'
    <3>1. todo'.pc = "overwrite" => todo'.confirmed /\ store' = todo'.before
      BY <1>1, <1>2
    <3>2. todo'.pc = "copy" => \A d \in Drives : store'[d] = Cleared(d)'
      BY <1>1, <1>2 DEF Cleared
    <3>3. \A p \in Panes : Shows(p, todo.before[ram.panes[p].drive])'
      BY <1>1, <1>2, <2>1 DEF Shows
    <3> QED
      BY <3>1, <3>2, <3>3 DEF AtStart
  <2>10. todo'.pc \in {"overwrite", "copy"}
    BY <1>1
  <2> QED
    BY <2>7, <2>8, <2>9, <2>10 DEF JobOK, Staged, AtStage, AtCopy, AtEnd
<1> QED
  BY <1>1, <1>3, <1>5 DEF FInv, Typed

\* The temporary name is one the passive pane does not show.
LEMMA TempFree ==
  ASSUME FilesAssumption, NEW name, FreeTemps(name) # {}
  PROVE  LET t == Temps[Min(FreeTemps(name))]
         IN  /\ t \in AllNames /\ t \in ToSet(Temps) /\ t # name
             /\ Find(Passive.entries, t) = 0
<1> DEFINE T == AllNames
           k == Min(FreeTemps(name))
<1>1. Temps \in Seq(T)
  BY DEF FilesAssumption
<1> HIDE DEF T, k
<1>2. FreeTemps(name) \in SUBSET Nat
  BY <1>1 DEF FreeTemps
<1>3. k \in FreeTemps(name)
  BY <1>2, LeastOf DEF k
<1>4. k \in DOMAIN Temps /\ Temps[k] # name /\ Find(Passive.entries, Temps[k]) = 0
  BY <1>3 DEF FreeTemps
<1>5. Temps[k] \in T
  BY <1>1, <1>4
<1>6. Temps[k] \in ToSet(Temps)
  BY <1>4 DEF ToSet
<1> QED
  BY <1>4, <1>5, <1>6 DEF T, k

\* What a duplicate starts from: the temporary name is new, and scratching it does nothing.
LEMMA StageFrom ==
  ASSUME FilesAssumption, FInv, todo.pc = "copy", todo.dup, todo.current,
         FreeTemps(todo.name) # {}
  PROVE  LET t  == Temps[Min(FreeTemps(todo.name))]
             d1 == Scratched(store, Passive.drive, t)
         IN  /\ Passive.drive = Other /\ ~Has(todo.before[Other], t)
             /\ d1[Other] = Cleared(Other) /\ d1[todo.from] = Cleared(todo.from)
             /\ Has(d1[todo.from], todo.src) /\ DataOf(d1[todo.from], todo.src) = Source
             /\ ~Has(d1[Other], t) /\ Cleared(Other) \in Dirs
             /\ todo.before[Other] = Cleared(Other)
<1> DEFINE t  == Temps[Min(FreeTemps(todo.name))]
           d1 == Scratched(store, Passive.drive, t)
<1>1. Find(Passive.entries, t) = 0
  BY TempFree
<1> HIDE DEF t
<1>2. /\ JobOK /\ ram.panes[3 - todo.pane].drive = Other /\ 3 - todo.pane \in Panes
      /\ Other # todo.from /\ Other \in Drives /\ Passive.drive = Other
      /\ Passive = ram.panes[3 - todo.pane] /\ todo.before \in Disk
      /\ todo \in JobType /\ store \in Disk /\ todo.from \in Drives
  BY PanesAre, JobNow DEF StoreTyped
<1>3. \A e \in Drives : d1[e] = IF e = Other THEN Without(store[e], t) ELSE store[e]
  BY <1>2, ScratchedDisk
<1> HIDE DEF d1
<1>4. /\ todo.dst = todo.from /\ \A d \in Drives : store[d] = Cleared(d)
      /\ \A p \in Panes : Shows(p, todo.before[ram.panes[p].drive])
      /\ Cardinality(Used(todo.before[Other])) <= MaxEntries
  BY <1>2 DEF JobOK, Setup, AtStart
<1>5. /\ store[Other] = todo.before[Other] /\ todo.before[Other] = Cleared(Other)
      /\ todo.before[Other] \in Dirs
  BY <1>2, <1>4 DEF Cleared, Disk
<1>6. Passive.entries = Listing(todo.before[Other])
  BY <1>2, <1>4 DEF Shows
<1>7. ~Has(todo.before[Other], t)
  BY <1>1, <1>4, <1>5, <1>6, FoundInListing DEF FilesAssumption
<1>8. d1[Other] = store[Other] /\ d1[todo.from] = Cleared(todo.from)
  BY <1>2, <1>3, <1>4, <1>5, <1>7, WithoutAbsent
<1>9. Has(d1[todo.from], todo.src) /\ DataOf(d1[todo.from], todo.src) = Source
  BY <1>2, <1>8, ClearedDir DEF JobOK
<1> QED
  BY <1>2, <1>5, <1>7, <1>8, <1>9 DEF t, d1

LEMMA StageOK ==
  ASSUME FilesAssumption, FInv, Stage
  PROVE  FInv'
<1> DEFINE t  == Temps[Min(FreeTemps(todo.name))]
           q  == Passive.drive
           d1 == Scratched(store, q, t)
           p1 == Reload(ram.panes, store', q, {t})
<1>1. /\ todo.pc = "copy" /\ todo.dup /\ FreeTemps(todo.name) # {} /\ SetPanes(p1)
      /\ Streams(store', d1, todo.from, todo.src, q, t)
      /\ todo' = [todo EXCEPT !.temp = t, !.pc = "unstage"]
  BY DEF Stage
<1>2. /\ todo \in JobType /\ StoreTyped /\ RamTyped /\ todo.from \in Drives
      /\ todo.dst \in Drives /\ store \in Disk
  BY <1>1, JobNow DEF StoreTyped
<1>3. /\ t \in AllNames /\ t \in ToSet(Temps) /\ t # todo.name
      /\ Find(Passive.entries, t) = 0 /\ q \in Drives
      /\ ram.panes \in [Panes -> PaneType]
  BY <1>1, <1>2, TempFree, PanesNow, TypedPane
<1> HIDE DEF t, q
<1>4. todo' \in JobType /\ Same /\ todo'.pc = "unstage" /\ todo'.temp = t
  BY <1>1, <1>2, <1>3, GoesToStage
<1>5. /\ d1 \in Disk
      /\ \A e \in Drives : d1[e] = IF e = q THEN Without(store[q], t) ELSE store[e]
  BY <1>2, <1>3, ScratchedDisk
<1> HIDE DEF d1
<1>6. store' \in Disk /\ \A e \in Drives : e # q => store'[e] = d1[e]
  BY <1>1, <1>2, <1>3, <1>5, Streaming
<1>7. /\ p1 \in [Panes -> PaneType]
      /\ \A p \in Panes :
           /\ p1[p].drive = ram.panes[p].drive
           /\ p1[p].entries = IF ram.panes[p].drive = q THEN Listing(store'[q])
                              ELSE ram.panes[p].entries
  BY <1>3, <1>6, Reloaded
<1> HIDE DEF p1
<1>8. RamTyped' /\ ram'.panes = p1 /\ ram'.active = ram.active
  BY <1>1, <1>2, <1>7, PanesSet
<1>9. ASSUME todo.current PROVE JobOK'
  <2>1. /\ JobOK /\ ram.panes[todo.pane].drive = todo.from
        /\ ram.panes[3 - todo.pane].drive = Other /\ 3 - todo.pane \in Panes
        /\ todo.pane \in Panes /\ Other # todo.from /\ Other \in Drives /\ q = Other
        /\ Passive = ram.panes[3 - todo.pane] /\ todo.before \in Disk
    BY <1>1, <1>9, PanesAre, JobNow DEF q
  <2>2. Setup' /\ PanesStay'
    BY <1>1, <1>4, <1>7, <1>8, <1>9, <2>1, SameSetup, PanesGoOn DEF JobOK
  <2>3. \A p \in Panes : Shows(p, todo.before[ram.panes[p].drive])
    BY <1>1, <2>1 DEF JobOK, AtStart
  <2>4. /\ ~Has(todo.before[Other], t) /\ ~Has(d1[Other], t)
        /\ d1[Other] = Cleared(Other) /\ d1[todo.from] = Cleared(todo.from)
        /\ Has(d1[todo.from], todo.src) /\ DataOf(d1[todo.from], todo.src) = Source
    BY <1>1, <1>9, StageFrom DEF t, d1, q
  <2>5. Source \in Pieces
    BY DEF Pieces
  <2>6. /\ store'[Other] \in Copies(Cleared(Other), t)
        /\ store'[todo.from] = Cleared(todo.from)
    <3>1. store'[Other] \in Copies(d1[Other], t)
      BY <1>1, <1>2, <1>3, <1>5, <2>1, <2>4, <2>5, SentCopies
    <3> QED
      BY <1>2, <1>6, <2>1, <2>4, <3>1
  <2>7. /\ ram'.panes[todo.pane].entries = Listing(todo.before[todo.from])
        /\ ram'.panes[3 - todo.pane].entries = Listing(store'[Other])
    BY <1>7, <1>8, <2>1, <2>3 DEF Shows
  <2>8. /\ Other' = Other /\ \A d : Cleared(d)' = Cleared(d)
        /\ \A dir, n : Copies(dir, n)' = Copies(dir, n)
    BY <1>4, SameTargets
  <2>9. AtStage'
    BY <1>4, <2>6, <2>7, <2>8 DEF AtStage, Shows, Same
  <2>10. Staged'
    BY <1>1, <1>3, <1>4, <2>4, <2>8 DEF Staged, Same
  <2> QED
    BY <1>4, <2>2, <2>9, <2>10 DEF JobOK, AtStart, AtCopy, AtEnd
<1> QED
  BY <1>4, <1>6, <1>8, <1>9 DEF FInv, Typed, StoreTyped, Same

\* The entry of a name that the one pane with the drive shows
LEMMA LoadedFrom ==
  ASSUME FilesAssumption, NEW panes, NEW q \in Panes, NEW dir \in Dirs, NEW n,
         panes[3 - q].drive # panes[q].drive, panes[q].entries = Listing(dir)
  PROVE  /\ \A x \in Loaded(panes, panes[q].drive, n) : Has(dir, n) /\ x = DataOf(dir, n)
         /\ Cardinality(Used(dir)) <= MaxEntries /\ Has(dir, n) =>
              DataOf(dir, n) \in Loaded(panes, panes[q].drive, n)
<1> DEFINE d   == panes[q].drive
           hit == {p \in Panes : panes[p].drive = d /\ Find(panes[p].entries, n) # 0}
           k   == Find(Listing(dir), n)
<1>1. \A p \in Panes : p = q \/ p = 3 - q
  BY DEF Panes
<1>2. hit = IF k # 0 THEN {q} ELSE {}
  BY <1>1
<1>3. Min({q}) = q
  <2>1. {q} \in SUBSET Nat
    BY DEF Panes
  <2> QED
    BY <2>1, LeastOf
<1>4. Loaded(panes, d, n) = IF k # 0 THEN {Listing(dir)[k].data} ELSE {}
  <2>1. Loaded(panes, d, n)
          = LET e == panes[Min(hit)].entries
            IN  IF hit = {} THEN {} ELSE {e[Find(e, n)].data}
    BY DEF Loaded
  <2>2. CASE k # 0
    <3>1. panes[Min(hit)].entries = Listing(dir) /\ hit # {}
      BY <1>2, <1>3, <2>2
    <3> HIDE DEF hit
    <3> QED
      BY <2>1, <2>2, <3>1
  <2>3. CASE ~(k # 0)
    <3>1. hit = {}
      BY <1>2, <2>3
    <3> HIDE DEF hit
    <3> QED
      BY <2>1, <2>3, <3>1
  <2> QED
    BY <2>2, <2>3
<1>5. /\ k # 0 => Has(dir, n) /\ Listing(dir)[k].data = DataOf(dir, n)
      /\ Cardinality(Used(dir)) <= MaxEntries /\ Has(dir, n) => k # 0
  BY FoundInListing DEF FilesAssumption
<1> HIDE DEF k, hit
<1> QED
  BY <1>4, <1>5

\* A copy that is scratched leaves its target as it was; until then its file
\* holds what was copied or a part of it, and the other files stay.
LEMMA CopyUndone ==
  ASSUME FilesAssumption, Source \in Data \cup {Part}, NEW dir \in Dirs,
         NEW name \in AllNames, ~Has(dir, name), NEW c \in Copies(dir, name)
  PROVE  /\ c \in Dirs /\ Without(c, name) = dir
         /\ Has(c, name) => DataOf(c, name) \in Pieces
         /\ \A n : n # name => (Has(c, n) <=> Has(dir, n))
         /\ \A n : Has(dir, n) => Has(c, n) /\ DataOf(c, n) = DataOf(dir, n)
<1>1. CASE c = dir
  BY <1>1, WithoutAbsent
<1>2. CASE \E x \in Pieces : c = With(dir, name, x)
  <2>1. PICK x \in Pieces : c = With(dir, name, x)
    BY <1>2
  <2>2. x \in Data \cup {Part} /\ Slots \in Nat /\ NoFile \notin Files
    BY DEF Pieces, FilesAssumption
  <2>3. Without(c, name) = dir
    BY <2>1, <2>2, WithWithout
  <2>4. \A n :
         /\ c \in Dirs
         /\ Has(c, n) <=> Has(dir, n) \/ (n = name /\ Free(dir) # {})
         /\ Has(dir, n) => DataOf(c, n) = DataOf(dir, n)
         /\ Free(dir) # {} => DataOf(c, name) = x
    BY <2>1, <2>2, WithHas
  <2> QED
    BY <2>1, <2>3, <2>4
<1> QED
  BY <1>1, <1>2 DEF Copies

\* A copy that is there is in the first slot that was free.
LEMMA Placed ==
  ASSUME Slots \in Nat, NoFile \notin Files, NEW dir \in Dirs, NEW name \in AllNames,
         NEW x \in Data \cup {Part}, ~Has(dir, name), NEW c, c = With(dir, name, x),
         Has(c, name)
  PROVE  /\ c \in Dirs /\ Used(c) = Used(dir) \cup {Min(Free(dir))}
         /\ Min(Free(dir)) \notin Used(dir) /\ Min(Free(dir)) \in 1 .. Slots
         /\ \A i \in Used(dir) : c[i] = dir[i]
         /\ Min(Free(dir)) \in Free(dir) /\ \A j \in Free(dir) : Min(Free(dir)) <= j
<1>1. Free(dir) # {}
  BY WithHas
<1>2. /\ Min(Free(dir)) \in Free(dir) /\ \A j \in Free(dir) : Min(Free(dir)) <= j
  BY <1>1, WithFree
<1>3. /\ c \in Dirs /\ Used(c) = Used(dir) \cup {Min(Free(dir))}
      /\ Min(Free(dir)) \notin Used(dir) /\ Min(Free(dir)) \in 1 .. Slots
  BY <1>1, WithDir
<1>4. \A i \in Used(dir) : c[i] = dir[i]
  <2> DEFINE m == Min(Free(dir))
             f == [name |-> name, data |-> x]
  <2>1. c = [dir EXCEPT ![m] = f] /\ m \notin Used(dir)
    BY <1>1, <1>3, WithFree
  <2>2. dir \in [1 .. Slots -> Files \cup {NoFile}] /\ Used(dir) \subseteq 1 .. Slots
    BY DEF Dirs, Used
  <2> HIDE DEF m, f
  <2> QED
    BY <2>1, <2>2
<1> QED
  BY <1>2, <1>3, <1>4

\* Of a duplicate that went behind its source, the pane still shows the source
\* at the place where it was.
LEMMA StillAt ==
  ASSUME FilesAssumption, todo \in JobType, Setup, todo.dup, EntryStays,
         NEW c \in Copies(Cleared(todo.from), todo.name), Has(c, todo.name)
  PROVE  todo.idx \in DOMAIN Listing(c) /\ Listing(c)[todo.idx].data = Source
<1> DEFINE old == todo.before[todo.from]
           dir == Cleared(todo.from)
           m   == Min(Free(dir))
<1>1. /\ todo.dst = todo.from /\ todo.from \in Drives /\ todo.name \in AllNames
      /\ todo.name # todo.src /\ Slots \in Nat /\ MaxEntries \in Nat /\ NoFile \notin Files
      /\ Cardinality(Used(old)) <= MaxEntries
  <2>1. todo.from \in Drives /\ todo.name \in Names
    BY DEF JobType, JobOf
  <2> QED
    BY <2>1 DEF Setup, FilesAssumption, AllNames
<1>2. old \in Dirs /\ dir \in Dirs /\ ~Has(dir, todo.name) /\ Source \in Data \cup {Part}
  BY <1>1, SourceThere, ClearedDir
<1>3. PICK i \in Used(old) :
        old[i].name = todo.src /\ old[i].data = Source /\ Place(old, i) = todo.idx
  BY SourceThere
<1>4. dir = old \/ dir = Without(old, todo.name)
  BY DEF Cleared
<1>5. \A k \in 1 .. Slots : k < i => k \in Used(old)
  <2>1. i \in File(old, todo.src)
    BY <1>3 DEF File, Used
  <2> QED
    BY <2>1 DEF EntryStays, Used
<1>6. PICK x \in Pieces : c = With(dir, todo.name, x)
  BY <1>2 DEF Copies
<1>7. x \in Data \cup {Part}
  BY <1>2 DEF Pieces
<1> HIDE DEF dir, old
<1>8. /\ c \in Dirs /\ Used(c) = Used(dir) \cup {m} /\ m \notin Used(dir) /\ m \in 1 .. Slots
      /\ \A k \in Used(dir) : c[k] = dir[k]
      /\ m \in Free(dir) /\ \A j \in Free(dir) : m <= j
  BY <1>1, <1>2, <1>6, <1>7, Placed DEF m
<1> HIDE DEF m
<1>9. /\ Used(dir) \subseteq Used(old)
      /\ \A k \in Used(old) : k \notin Used(dir) => old[k].name = todo.name
      /\ \A k \in Used(dir) : dir[k] = old[k]
  BY <1>1, <1>2, <1>4, WithoutDir
<1>10. \A k, l \in Used(old) : old[k].name = old[l].name => k = l
  BY <1>2 DEF Dirs
<1>11. Used(old) \subseteq 1 .. Slots /\ Used(c) \subseteq 1 .. Slots /\ i \in 1 .. Slots
  BY <1>3 DEF Used
<1>12. \A k \in 1 .. Slots : k <= i => k \in Used(old)
  BY <1>1, <1>3, <1>5, <1>11
<1>13. \A k \in 1 .. Slots : k <= i => k \in Used(c)
  <2> SUFFICES ASSUME NEW k \in 1 .. Slots, k <= i, k \notin Used(c)
               PROVE  FALSE
    OBVIOUS
  <2>1. k \in Free(dir) /\ k # m
    BY <1>8 DEF Free
  <2>2. m <= k /\ m <= i
    BY <1>1, <1>8, <1>8, <1>11, <2>1
  <2>3. k \in Used(old) /\ m \in Used(old) /\ k \notin Used(dir)
    BY <1>8, <1>12, <2>1, <2>2 DEF Free
  <2> QED
    BY <1>8, <1>9, <1>10, <2>1, <2>3
<1>14. {j \in Used(c) : j <= i} = {j \in Used(old) : j <= i}
  BY <1>11, <1>12, <1>13
<1>15. Place(c, i) = todo.idx /\ i \in Used(c)
  <2>1. i <= i
    BY <1>1, <1>11
  <2> QED
    BY <1>3, <1>11, <1>13, <1>14, <2>1 DEF Place
<1>16. c[i] = old[i]
  <2>1. i \in Used(dir)
    BY <1>1, <1>3, <1>9
  <2>2. c[i] = dir[i]
    BY <1>8, <2>1
  <2>3. dir[i] = old[i]
    BY <1>9, <2>1
  <2> QED
    BY <2>2, <2>3
<1>17. Place(c, i) <= Shown(c)
  <2>1. Place(old, i) <= MaxEntries /\ todo.idx \in Nat
    BY <1>1, <1>3, PlaceType, UsedFinite
  <2>2. Place(c, i) \in 1 .. Cardinality(Used(c)) /\ Cardinality(Used(c)) \in Nat
    BY <1>1, <1>15, PlaceType, UsedFinite
  <2> QED
    BY <1>1, <1>3, <1>15, <2>1, <2>2 DEF Shown
<1>18. DOMAIN Listing(c) = 1 .. Shown(c)
  BY <1>1, <1>8, ListingFiles
<1>19. Place(c, i) \in 1 .. Shown(c) /\ Listing(c)[Place(c, i)] = c[i]
  BY <1>1, <1>15, <1>17, ListingAt
<1> QED
  BY <1>3, <1>15, <1>16, <1>18, <1>19

\* What the job knows while there is a temporary file
LEMMA TempThere ==
  ASSUME FilesAssumption, FInv, todo.pc \in {"unstage", "unstaged"}, todo.current
  PROVE  /\ JobOK /\ todo.dup /\ todo.dst = todo.from /\ todo.temp \in AllNames
         /\ Passive.drive = Other /\ Cleared(Other) = todo.before[Other]
         /\ Cleared(Other) \in Dirs /\ ~Has(Cleared(Other), todo.temp)
         /\ store[Other] \in Copies(Cleared(Other), todo.temp)
         /\ Source \in Data \cup {Part}
<1>1. todo.pc # "done"
  OBVIOUS
<1>2. JobOK /\ Passive.drive = Other
  BY <1>1, PanesAre DEF JobOK, PanesStay
<1>3. todo \in JobType /\ Other \in Drives /\ Other # todo.from /\ todo.temp \in AllNames
  BY <1>1, JobNow
<1>4. /\ todo.dup /\ ~Has(todo.before[Other], todo.temp)
      /\ store[Other] \in Copies(Cleared(Other), todo.temp)
  BY <1>2 DEF JobOK, Staged, AtStage
<1>5. todo.dst = todo.from
  BY <1>2, <1>4 DEF JobOK, Setup
<1>6. Cleared(Other) = todo.before[Other]
  BY <1>3, <1>5 DEF Cleared
<1>7. Cleared(Other) \in Dirs /\ Source \in Data \cup {Part}
  BY <1>2, <1>3, ClearedDir, SourceThere DEF JobOK
<1> QED
  BY <1>2, <1>3, <1>4, <1>5, <1>6, <1>7

\* The temporary file is scratched.
LEMMA TempGone ==
  ASSUME FilesAssumption, FInv, todo.pc # "done",
         store' = Scratched(store, Passive.drive, todo.temp),
         SetPanes(Reload(ram.panes, store', Passive.drive, {}))
  PROVE  /\ StoreTyped' /\ RamTyped' /\ ram'.active = ram.active
         /\ \A p \in Panes : ram'.panes[p].drive = ram.panes[p].drive
         /\ \A p \in Panes : ram.panes[p].drive # Passive.drive =>
              ram'.panes[p].entries = ram.panes[p].entries
         /\ \A p \in Panes : ram.panes[p].drive = Passive.drive =>
              ram'.panes[p].entries = Listing(store'[Passive.drive])
         /\ \A e \in Drives : store'[e] = IF e = Passive.drive
                                          THEN Without(store[e], todo.temp) ELSE store[e]
<1> DEFINE q == Passive.drive
           p1 == Reload(ram.panes, store', q, {})
<1>1. StoreTyped /\ RamTyped
  BY JobNow
<1>2. q \in Drives /\ ram.panes \in [Panes -> PaneType] /\ store \in Disk
  BY <1>1, PanesNow, TypedPane DEF StoreTyped
<1>3. /\ store' \in Disk
      /\ \A e \in Drives : store'[e] = IF e = q THEN Without(store[e], todo.temp) ELSE store[e]
  BY <1>2, ScratchedDisk
<1> HIDE DEF q
<1>4. /\ p1 \in [Panes -> PaneType]
      /\ \A p \in Panes :
           /\ p1[p].drive = ram.panes[p].drive
           /\ p1[p].entries = IF ram.panes[p].drive = q THEN Listing(store'[q])
                              ELSE ram.panes[p].entries
  BY <1>2, <1>3, Reloaded
<1>5. SetPanes(p1)
  BY DEF q
<1> HIDE DEF p1
<1>6. RamTyped' /\ ram'.panes = p1 /\ ram'.active = ram.active
  BY <1>1, <1>4, <1>5, PanesSet
<1> QED
  BY <1>3, <1>4, <1>6 DEF q, StoreTyped

LEMMA StageBadOK ==
  ASSUME FilesAssumption, FInv, StageBad
  PROVE  FInv'
<1>1. /\ todo.pc = "unstage" /\ Ends("stage verify")
      /\ store' = Scratched(store, Passive.drive, todo.temp)
      /\ SetPanes(Reload(ram.panes, store', Passive.drive, {}))
  BY DEF StageBad, ScratchTemp
<1>2. todo \in JobType
  BY <1>1, JobNow
<1>3. todo' \in JobType /\ Same /\ todo'.pc = "done" /\ todo'.result = "stage verify"
  BY <1>1, <1>2, GoesToEnd
<1>4. /\ StoreTyped' /\ RamTyped'
      /\ \A e \in Drives : store'[e] = IF e = Passive.drive
                                       THEN Without(store[e], todo.temp) ELSE store[e]
  BY <1>1, TempGone
<1>5. ASSUME todo.current PROVE JobOK'
  <2>1. /\ JobOK /\ todo.temp \in AllNames /\ Passive.drive = Other
        /\ Cleared(Other) \in Dirs /\ ~Has(Cleared(Other), todo.temp)
        /\ store[Other] \in Copies(Cleared(Other), todo.temp)
        /\ Source \in Data \cup {Part}
    BY <1>1, <1>5, TempThere
  <2>2. Without(store[Other], todo.temp) = Cleared(Other)
    BY <2>1, CopyUndone
  <2>3. store[todo.from] = Cleared(todo.from)
    BY <1>1, <2>1 DEF JobOK, AtStage
  <2>4. \A d \in Drives : store'[d] = Cleared(d)
    BY <1>1, <1>4, <2>1, <2>2, <2>3, JobNow
  <2>5. \A d \in Drives : store'[d] = Cleared(d)'
    BY <1>3, <2>4, SameTargets
  <2>6. Setup'
    BY <1>3, <2>1, SameSetup DEF JobOK
  <2> QED
    BY <1>3, <2>5, <2>6 DEF JobOK, PanesStay, Staged, AtStart, AtStage, AtCopy, AtEnd
<1> QED
  BY <1>3, <1>4, <1>5 DEF FInv, Typed, Same

\* A temporary file that verifies is there; it holds the source or a part of it.
LEMMA TempVerified ==
  ASSUME FilesAssumption, FInv, todo.pc = "unstage", todo.current, StageVerified
  PROVE  Has(store[Other], todo.temp) /\ DataOf(store[Other], todo.temp) \in Pieces
<1>1. /\ JobOK /\ todo.temp \in AllNames /\ Passive.drive = Other
      /\ Cleared(Other) \in Dirs /\ ~Has(Cleared(Other), todo.temp)
      /\ store[Other] \in Copies(Cleared(Other), todo.temp)
      /\ Source \in Data \cup {Part}
  BY TempThere
<1>2. /\ 3 - todo.pane \in Panes /\ 3 - (3 - todo.pane) = todo.pane
      /\ ram.panes[todo.pane].drive # ram.panes[3 - todo.pane].drive
      /\ ram.panes[3 - todo.pane].drive = Other
  BY PanesAre, JobNow DEF Panes
<1>3. ram.panes[3 - todo.pane].entries = Listing(store[Other])
  BY <1>1 DEF JobOK, AtStage, Shows
<1>4. store[Other] \in Dirs
  BY <1>1, CopyUndone
<1>5. Loaded(ram.panes, Other, todo.temp) # {}
  BY <1>1 DEF StageVerified, Verified
<1>6. Has(store[Other], todo.temp)
  BY <1>2, <1>3, <1>4, <1>5, LoadedFrom
<1> QED
  BY <1>1, <1>6, CopyUndone

LEMMA UnstageOK ==
  ASSUME FilesAssumption, FInv, Unstage
  PROVE  FInv'
<1> DEFINE p1 == Reload(ram.panes, store', todo.from, {todo.name})
<1>1. /\ todo.pc = "unstage" /\ StageVerified /\ Goto("unstaged") /\ SetPanes(p1)
      /\ Streams(store', store, Passive.drive, todo.temp, todo.dst, todo.name)
  BY DEF Unstage
<1>2. /\ todo \in JobType /\ StoreTyped /\ RamTyped /\ todo.from \in Drives
      /\ todo.dst \in Drives /\ store \in Disk /\ todo.name \in AllNames
  BY <1>1, JobNow DEF StoreTyped
<1>3. Passive.drive \in Drives /\ ram.panes \in [Panes -> PaneType]
  BY <1>2, PanesNow, TypedPane
<1>4. todo' \in JobType /\ Same /\ todo'.pc = "unstaged" /\ todo'.temp = todo.temp
  BY <1>1, <1>2, GoesOn
<1>5. store' \in Disk /\ \A e \in Drives : e # todo.dst => store'[e] = store[e]
  BY <1>1, <1>2, <1>3, Streaming
<1>6. /\ p1 \in [Panes -> PaneType]
      /\ \A p \in Panes :
           /\ p1[p].drive = ram.panes[p].drive
           /\ p1[p].entries = IF ram.panes[p].drive = todo.from THEN Listing(store'[todo.from])
                              ELSE ram.panes[p].entries
  BY <1>2, <1>3, <1>5, Reloaded
<1> HIDE DEF p1
<1>7. RamTyped' /\ ram'.panes = p1 /\ ram'.active = ram.active
  BY <1>1, <1>2, <1>6, PanesSet
<1>8. ASSUME todo.current PROVE JobOK'
  <2>1. /\ JobOK /\ todo.dup /\ todo.dst = todo.from /\ Passive.drive = Other
        /\ store[Other] \in Copies(Cleared(Other), todo.temp)
    BY <1>1, <1>8, TempThere
  <2>2. Other # todo.from /\ Other \in Drives /\ todo.pane \in Panes
        /\ ram.panes[todo.pane].drive = todo.from
    BY <1>1, <1>8, PanesAre, JobNow
  <2>3. Setup' /\ PanesStay'
    BY <1>1, <1>4, <1>6, <1>7, <1>8, <2>1, SameSetup, PanesGoOn DEF JobOK
  <2>4. store[todo.dst] = Cleared(todo.dst) /\ ~Has(store[todo.dst], todo.name)
    BY <1>1, <1>2, <2>1, ClearedDir DEF JobOK, AtStage
  <2>5. store'[todo.dst] \in Copies(Cleared(todo.dst), todo.name)
    <3>1. Has(store[Other], todo.temp) /\ DataOf(store[Other], todo.temp) \in Pieces
      BY <1>1, <1>8, TempVerified
    <3> QED
      BY <1>1, <1>2, <2>1, <2>2, <2>4, <3>1, SentCopies
  <2>6. store'[Other] \in Copies(Cleared(Other), todo.temp)
    BY <1>5, <2>1, <2>2
  <2>7. ram'.panes[todo.pane].entries = Listing(store'[todo.from])
    BY <1>6, <1>7, <2>2
  <2>8. /\ Other' = Other /\ \A d : Cleared(d)' = Cleared(d)
        /\ \A dir, n : Copies(dir, n)' = Copies(dir, n)
    BY <1>4, SameTargets
  <2>9. AtStage' /\ AtCopy'
    BY <1>4, <2>5, <2>6, <2>7, <2>8 DEF AtStage, AtCopy, Shows, Same
  <2>10. Staged'
    BY <1>1, <1>4, <2>1, <2>8 DEF JobOK, Staged, Same
  <2> QED
    BY <1>4, <2>3, <2>9, <2>10 DEF JobOK, AtStart, AtEnd
<1> QED
  BY <1>4, <1>5, <1>7, <1>8 DEF FInv, Typed, StoreTyped, Same

LEMMA UnstagedOK ==
  ASSUME FilesAssumption, FInv, Unstaged
  PROVE  FInv'
<1>1. /\ todo.pc = "unstaged" /\ Goto("verify")
      /\ store' = Scratched(store, Passive.drive, todo.temp)
      /\ SetPanes(Reload(ram.panes, store', Passive.drive, {}))
  BY DEF Unstaged, ScratchTemp
<1>2. todo \in JobType
  BY <1>1, JobNow
<1>3. todo' \in JobType /\ Same /\ todo'.pc = "verify"
  BY <1>1, <1>2, GoesOn
<1>4. /\ StoreTyped' /\ RamTyped' /\ ram'.active = ram.active
      /\ \A p \in Panes : ram'.panes[p].drive = ram.panes[p].drive
      /\ \A p \in Panes : ram.panes[p].drive # Passive.drive =>
           ram'.panes[p].entries = ram.panes[p].entries
      /\ \A e \in Drives : store'[e] = IF e = Passive.drive
                                       THEN Without(store[e], todo.temp) ELSE store[e]
  BY <1>1, TempGone
<1>5. ASSUME todo.current PROVE JobOK'
  <2>1. /\ JobOK /\ todo.dup /\ todo.dst = todo.from /\ todo.temp \in AllNames
        /\ Passive.drive = Other
        /\ Cleared(Other) \in Dirs /\ ~Has(Cleared(Other), todo.temp)
        /\ store[Other] \in Copies(Cleared(Other), todo.temp)
        /\ Source \in Data \cup {Part}
    BY <1>1, <1>5, TempThere
  <2>2. /\ Other # todo.from /\ Other \in Drives /\ todo.pane \in Panes /\ todo.from \in Drives
        /\ ram.panes[todo.pane].drive = todo.from
        /\ \A d \in Drives : d = todo.from \/ d = Other
    BY <1>1, <1>5, PanesAre, JobNow
  <2>3. Setup' /\ PanesStay'
    BY <1>1, <1>3, <1>4, <1>5, <2>1, SameSetup, PanesGoOn DEF JobOK
  <2>4. Without(store[Other], todo.temp) = Cleared(Other)
    BY <2>1, CopyUndone
  <2>5. \A d \in Drives : d # todo.dst => store'[d] = Cleared(d)
    BY <1>4, <2>1, <2>2, <2>4
  <2>6. store'[todo.dst] \in Copies(Cleared(todo.dst), todo.name)
        /\ ram.panes[todo.pane].entries = Listing(store[todo.from])
        /\ store'[todo.from] = store[todo.from]
    BY <1>1, <1>4, <2>1, <2>2 DEF JobOK, AtCopy, Shows
  <2>7. ram'.panes[todo.pane].entries = Listing(store'[todo.from])
    BY <1>4, <2>1, <2>2, <2>6
  <2>8. /\ \A d : Cleared(d)' = Cleared(d)
        /\ \A dir, n : Copies(dir, n)' = Copies(dir, n)
    BY <1>3, SameTargets
  <2>9. AtCopy'
    BY <1>3, <2>1, <2>5, <2>6, <2>7, <2>8 DEF AtCopy, Shows, Same
  <2> QED
    BY <1>3, <2>3, <2>9 DEF JobOK, Staged, AtStart, AtStage, AtEnd
<1> QED
  BY <1>3, <1>4, <1>5 DEF FInv, Typed, Same

\* A copy that verifies is there, and has as many blocks as its source.
LEMMA CopyVerified ==
  ASSUME FilesAssumption, FInv, todo.pc = "verify", todo.current, VerifiedCopy
  PROVE  /\ Has(store[todo.dst], todo.name)
         /\ Seen => Blocks[DataOf(store[todo.dst], todo.name)] = Blocks[Source]
<1>1. /\ JobOK /\ ram.panes[todo.pane].drive = todo.from
      /\ ram.panes[3 - todo.pane].drive = Other /\ 3 - todo.pane \in Panes
      /\ 3 - (3 - todo.pane) = todo.pane /\ todo.pane \in Panes
      /\ Other # todo.from /\ Other \in Drives /\ todo.from \in Drives
      /\ todo \in JobType /\ store \in Disk
  BY PanesAre, JobNow DEF Panes, StoreTyped
<1>2. /\ store[todo.dst] \in Copies(Cleared(todo.dst), todo.name)
      /\ ram.panes[todo.pane].entries = Listing(store[todo.from])
      /\ \A d \in Drives : d # todo.dst => store[d] = Cleared(d)
      /\ ~todo.dup => ram.panes[3 - todo.pane].entries = Listing(store[Other])
  BY <1>1 DEF JobOK, AtCopy, Shows
<1> DEFINE e == ram.panes[todo.pane].entries
<1>3. PICK x \in Loaded(ram.panes, todo.dst, todo.name) : Blocks[x] = Blocks[e[todo.idx].data]
  BY DEF VerifiedCopy, Verified
<1>4. Has(store[todo.dst], todo.name) /\ x = DataOf(store[todo.dst], todo.name)
  <2>1. store[todo.from] \in Dirs /\ store[Other] \in Dirs
    BY <1>1 DEF Disk
  <2>2. CASE todo.dup
    <3> DEFINE q == todo.pane
               dir == store[todo.from]
               n   == todo.name
               pn  == ram.panes
    <3>1. todo.dst = todo.from
      BY <1>1, <2>2 DEF JobOK, Setup
    <3>2. /\ q \in Panes /\ pn[q].drive = todo.dst /\ dir \in Dirs
          /\ pn[3 - q].drive # pn[q].drive /\ pn[q].entries = Listing(dir)
      BY <1>1, <1>2, <2>1, <3>1
    <3> HIDE DEF q, dir, n, pn
    <3>3. \A y \in Loaded(pn, pn[q].drive, n) : Has(dir, n) /\ y = DataOf(dir, n)
      BY <3>2, LoadedFrom
    <3> QED
      BY <1>3, <3>1, <3>2, <3>3 DEF dir, n, pn
  <2>3. CASE ~todo.dup
    <3> DEFINE q == 3 - todo.pane
               dir == store[Other]
               n   == todo.name
               pn  == ram.panes
    <3>1. todo.dst = Other
      BY <1>1, <2>3 DEF JobOK, Setup
    <3>2. /\ q \in Panes /\ pn[q].drive = todo.dst /\ dir \in Dirs
          /\ pn[3 - q].drive # pn[q].drive /\ pn[q].entries = Listing(dir)
      BY <1>1, <1>2, <2>1, <2>3, <3>1
    <3> HIDE DEF q, dir, n, pn
    <3>3. \A y \in Loaded(pn, pn[q].drive, n) : Has(dir, n) /\ y = DataOf(dir, n)
      BY <3>2, LoadedFrom
    <3> QED
      BY <1>3, <3>1, <3>2, <3>3 DEF dir, n, pn
  <2> QED
    BY <2>2, <2>3
<1>5. ASSUME Seen PROVE e[todo.idx].data = Source
  <2>1. CASE todo.dup
    <3>1. todo.dst = todo.from /\ EntryStays
      BY <1>1, <1>5, <2>1 DEF JobOK, Setup, Seen
    <3> QED
      BY <1>1, <1>2, <1>4, <2>1, <3>1, StillAt DEF JobOK
  <2>2. CASE ~todo.dup
    <3>1. todo.dst = Other
      BY <1>1, <2>2 DEF JobOK, Setup
    <3>2. store[todo.from] = todo.before[todo.from]
      BY <1>1, <1>2, <3>1 DEF Cleared
    <3>3. Listing(todo.before[todo.from])[todo.idx].data = Source
      <4> DEFINE old == todo.before[todo.from]
      <4>1. PICK i \in Used(old) : old[i].data = Source /\ Listing(old)[todo.idx] = old[i]
        BY <1>1, SourceThere DEF JobOK
      <4> QED
        BY <4>1
    <3> QED
      BY <1>2, <3>2, <3>3
  <2> QED
    BY <2>1, <2>2
<1> QED
  BY <1>3, <1>4, <1>5

LEMMA VerifyOK ==
  ASSUME FilesAssumption, FInv, Verify
  PROVE  FInv'
<1>1. /\ todo.pc = "verify" /\ VerifiedCopy /\ Ends("copied")
      /\ ram' = ram /\ store' = store
  BY DEF Verify
<1>2. todo \in JobType /\ StoreTyped /\ RamTyped
  BY <1>1, JobNow
<1>3. todo' \in JobType /\ Same /\ todo'.pc = "done" /\ todo'.result = "copied"
  BY <1>1, <1>2, GoesToEnd
<1>4. StoreTyped' /\ RamTyped'
  BY <1>1, <1>2 DEF StoreTyped, RamTyped
<1>5. ASSUME todo.current PROVE JobOK'
  <2>1. JobOK
    BY <1>1, <1>5, PanesAre
  <2>2. /\ store[todo.dst] \in Copies(Cleared(todo.dst), todo.name)
        /\ \A d \in Drives : d # todo.dst => store[d] = Cleared(d)
    BY <1>1, <2>1 DEF JobOK, AtCopy
  <2>3. /\ Has(store[todo.dst], todo.name)
        /\ Seen => Blocks[DataOf(store[todo.dst], todo.name)] = Blocks[Source]
    BY <1>1, <1>5, CopyVerified
  <2>4. /\ \A d : Cleared(d)' = Cleared(d) /\ Source' = Source /\ (Seen' <=> Seen)
        /\ \A dir, n : Copies(dir, n)' = Copies(dir, n)
    BY <1>3, SameTargets
  <2>5. Setup'
    BY <1>3, <2>1, SameSetup DEF JobOK
  <2>6. AtEnd'
    BY <1>1, <1>3, <2>2, <2>3, <2>4 DEF AtEnd, Same
  <2> QED
    BY <1>3, <2>5, <2>6 DEF JobOK, PanesStay, Staged, AtStart, AtStage, AtCopy
<1> QED
  BY <1>3, <1>4, <1>5 DEF FInv, Typed, Same

LEMMA VerifyBadOK ==
  ASSUME FilesAssumption, FInv, VerifyBad
  PROVE  FInv'
<1> DEFINE prefer == IF todo.dup THEN {todo.src} ELSE {}
           p1 == Reload(ram.panes, store', todo.dst, prefer)
<1>1. /\ todo.pc = "verify" /\ Ends("verify") /\ SetPanes(p1)
      /\ store' = Scratched(store, todo.dst, todo.name)
  BY DEF VerifyBad
<1>2. /\ todo \in JobType /\ StoreTyped /\ RamTyped /\ todo.dst \in Drives
      /\ store \in Disk /\ todo.name \in AllNames /\ ram.panes \in [Panes -> PaneType]
  BY <1>1, JobNow, PanesNow DEF StoreTyped
<1>3. todo' \in JobType /\ Same /\ todo'.pc = "done" /\ todo'.result = "verify"
  BY <1>1, <1>2, GoesToEnd
<1>4. /\ store' \in Disk
      /\ \A e \in Drives : store'[e] = IF e = todo.dst THEN Without(store[e], todo.name)
                                       ELSE store[e]
  BY <1>1, <1>2, ScratchedDisk
<1>5. p1 \in [Panes -> PaneType]
  BY <1>2, <1>4, Reloaded
<1> HIDE DEF p1
<1>6. RamTyped'
  BY <1>1, <1>2, <1>5, PanesSet
<1>7. ASSUME todo.current PROVE JobOK'
  <2>1. JobOK
    BY <1>1, <1>7, PanesAre
  <2>2. /\ store[todo.dst] \in Copies(Cleared(todo.dst), todo.name)
        /\ \A d \in Drives : d # todo.dst => store[d] = Cleared(d)
    BY <1>1, <2>1 DEF JobOK, AtCopy
  <2>3. Cleared(todo.dst) \in Dirs /\ ~Has(Cleared(todo.dst), todo.name)
        /\ Source \in Data \cup {Part}
    BY <1>2, <2>1, ClearedDir, SourceThere DEF JobOK
  <2>4. Without(store[todo.dst], todo.name) = Cleared(todo.dst)
    BY <1>2, <2>2, <2>3, CopyUndone
  <2>5. \A d \in Drives : store'[d] = Cleared(d)'
    BY <1>3, <1>4, <2>2, <2>4, SameTargets
  <2>6. Setup'
    BY <1>3, <2>1, SameSetup DEF JobOK
  <2> QED
    BY <1>3, <2>5, <2>6 DEF JobOK, PanesStay, Staged, AtStart, AtStage, AtCopy, AtEnd
<1> QED
  BY <1>3, <1>4, <1>6, <1>7 DEF FInv, Typed, StoreTyped, Same

LEMMA FilesStutter ==
  ASSUME FInv, UNCHANGED vars
  PROVE  FInv'
<1>1. ram' = ram /\ store' = store /\ todo' = todo
  BY DEF vars
<1>2. Typed' /\ (Job' <=> Job)
  BY <1>1 DEF FInv, Typed, StoreTyped, RamTyped, Job
<1>3. ASSUME Job, todo.current PROVE JobOK'
  <2>1. JobOK
    BY <1>3 DEF FInv
  <2>2. /\ Other' = Other /\ (Seen' <=> Seen) /\ Source' = Source
        /\ \A d : Cleared(d)' = Cleared(d)
        /\ \A dir, n : Copies(dir, n)' = Copies(dir, n)
    BY <1>1, SameTargets DEF Same
  <2>3. Setup' /\ PanesStay' /\ Staged'
    BY <1>1, <2>1, <2>2 DEF JobOK, Setup, PanesStay, Staged, Active, Passive
  <2>4. AtStart' /\ AtStage' /\ AtCopy'
    BY <1>1, <2>1, <2>2 DEF JobOK, AtStart, AtStage, AtCopy, Shows
  <2>5. AtEnd'
    BY <1>1, <2>1, <2>2 DEF JobOK, AtEnd
  <2> QED
    BY <2>3, <2>4, <2>5 DEF JobOK
<1> QED
  BY <1>1, <1>2, <1>3 DEF FInv

LEMMA FilesStep ==
  ASSUME FilesAssumption, FInv, [Next]_vars
  PROVE  FInv'
<1>1. CASE SwitchActive \/ CycleDrive \/ SwapDrives \/ RefreshAll \/ DeleteEntry
  BY <1>1, SwitchActiveOK, CycleDriveOK, SwapDrivesOK, RefreshAllOK, DeleteEntryOK
<1>2. CASE \E i \in 1 .. MaxEntries : Move(i)
  BY <1>2, MoveOK
<1>3. CASE \E n \in Names : RenameEntry(n)
  BY <1>3, RenameEntryOK
<1>4. CASE \E n \in Names, dup \in BOOLEAN : CopyEntry(dup, n)
  BY <1>4, CopyEntryOK
<1>5. CASE Cancel \/ Overwrite \/ Copy \/ Verify \/ VerifyBad
  BY <1>5, CancelOK, OverwriteOK, CopyOK, VerifyOK, VerifyBadOK
<1>6. CASE Refuse \/ Stage \/ StageBad \/ Unstage \/ Unstaged
  BY <1>6, RefuseOK, StageOK, StageBadOK, UnstageOK, UnstagedOK
<1>7. CASE \E d \in Drives, disk \in Disks : ChangeDisk(d, disk)
  BY <1>7, ChangeDiskOK
<1>8. CASE Restart \/ UNCHANGED vars
  BY <1>8, RestartOK, FilesStutter
<1> QED
  BY <1>1, <1>2, <1>3, <1>4, <1>5, <1>6, <1>7, <1>8 DEF Next

-----------------------------------------------------------------------------
\* Whatever is typed, whatever is changed behind the panes and whichever command
\* fails: the panes hold entries of directories, the directories have no two
\* files of a name, and a job that began with panes that showed both disks in
\* full goes its way.
THEOREM FilesInvariant ==
  ASSUME FilesAssumption
  PROVE  Spec => []FInv
<1>1. Init => FInv
  BY FilesInit
<1>2. FInv /\ [Next]_vars => FInv'
  BY FilesStep
<1> QED
  BY <1>1, <1>2, PTL DEF Spec

\* What a drive has during and after a job
LEMMA StoreIs ==
  ASSUME FilesAssumption, FInv, Job, todo.current, NEW d \in Drives
  PROVE  \/ store[d] = todo.before[d]
         \/ store[d] = Cleared(d)
         \/ \E n \in AllNames : ~Has(Cleared(d), n) /\ store[d] \in Copies(Cleared(d), n)
<1>1. JobOK /\ todo \in JobType
  BY JobNow DEF FInv
<1>2. todo.name \in AllNames /\ todo.dst \in Drives /\ (d = todo.from \/ d = Other)
  BY JobNow
<1>3. ~Has(Cleared(todo.dst), todo.name)
  BY <1>1, ClearedDir DEF JobOK
<1>4. todo.pc \in {"overwrite", "copy", "unstage", "unstaged", "verify", "done"}
  BY <1>1 DEF JobType, JobOf
<1>5. CASE todo.pc \in {"overwrite", "copy"}
  BY <1>1, <1>5 DEF JobOK, AtStart
<1>6. CASE todo.pc \in {"unstage", "unstaged"}
  <2>1. /\ todo.temp \in AllNames /\ ~Has(Cleared(Other), todo.temp) /\ todo.dst = todo.from
        /\ store[Other] \in Copies(Cleared(Other), todo.temp)
    BY <1>6, TempThere
  <2>2. CASE d = Other
    BY <2>1, <2>2
  <2>3. CASE d = todo.from
    BY <1>1, <1>2, <1>3, <1>6, <2>1, <2>3 DEF JobOK, AtStage, AtCopy
  <2> QED
    BY <1>2, <2>2, <2>3
<1>7. CASE todo.pc = "verify"
  BY <1>1, <1>2, <1>3, <1>7 DEF JobOK, AtCopy
<1>8. CASE todo.pc = "done"
  BY <1>1, <1>2, <1>3, <1>8 DEF JobOK, AtEnd
<1> QED
  BY <1>4, <1>5, <1>6, <1>7, <1>8

\* Whatever fails, on disks that the panes showed in full a copy or duplicate
\* destroys no file but the one whose overwriting the user confirmed: scratching
\* the temporary file, or the copy that does not verify, never scratches another.
THEOREM CopiesLoseNothing ==
  ASSUME FilesAssumption
  PROVE  Spec => []OnlyConfirmedLost
<1>1. FInv => OnlyConfirmedLost
  <2> SUFFICES ASSUME FInv, Job, todo.current, NEW d \in Drives, NEW i \in 1 .. Slots,
                      todo.before[d][i] # NoFile,
                      ~(todo.confirmed /\ d = todo.dst /\ todo.before[d][i].name = todo.name)
               PROVE  LET f == todo.before[d][i]
                      IN  Has(store[d], f.name) /\ DataOf(store[d], f.name) = f.data
    BY DEF OnlyConfirmedLost
  <2> DEFINE old == todo.before[d]
             f   == old[i]
  <2>1. todo \in JobType /\ Setup /\ old \in Dirs /\ NoFile \notin Files
    BY JobNow DEF FInv, JobOK, Disk, FilesAssumption
  <2>2. Has(old, f.name) /\ DataOf(old, f.name) = f.data
    <3>1. i \in Used(old)
      BY DEF Used
    <3> QED
      BY <2>1, <3>1, TheFile
  <2>3. Has(Cleared(d), f.name) /\ DataOf(Cleared(d), f.name) = f.data
    BY <2>1, <2>2, WithoutHas DEF Cleared
  <2>4. Cleared(d) \in Dirs /\ Source \in Data \cup {Part}
    BY <2>1, ClearedDir, SourceThere
  <2>5. ASSUME NEW n \in AllNames, ~Has(Cleared(d), n), store[d] \in Copies(Cleared(d), n)
        PROVE  Has(store[d], f.name) /\ DataOf(store[d], f.name) = f.data
    BY <2>3, <2>4, <2>5, CopyUndone
  <2> QED
    BY <2>2, <2>3, <2>5, StoreIs
<1> QED
  BY <1>1, FilesInvariant, PTL

-----------------------------------------------------------------------------
\* A job has a result when it is done.
ResultLast == todo.pc # "done" => todo.result = "none"

LEMMA ResultStep ==
  ASSUME FInv, ResultLast, [Next]_vars
  PROVE  ResultLast'
<1>1. ASSUME NEW pc, Goto(pc), todo.pc # "done"
      PROVE  todo'.result = todo.result
  <2> DEFINE D == Disk
  <2>1. todo \in JobOf(D)
    BY <1>1, JobNow DEF JobType
  <2> HIDE DEF D
  <2> QED
    BY <1>1, <2>1 DEF Goto, JobOf
<1>2. ASSUME NEW r, Ends(r), todo.pc # "done"
      PROVE  todo'.pc = "done"
  <2> DEFINE D == Disk
  <2>1. todo \in JobOf(D)
    BY <1>2, JobNow DEF JobType
  <2> HIDE DEF D
  <2> QED
    BY <1>2, <2>1 DEF Ends, JobOf
<1>3. ASSUME NEW t, todo' = [todo EXCEPT !.temp = t, !.pc = "unstage"], todo.pc # "done"
      PROVE  todo'.result = todo.result
  <2> DEFINE D == Disk
  <2>1. todo \in JobOf(D)
    BY <1>3, JobNow DEF JobType
  <2> HIDE DEF D
  <2> QED
    BY <1>3, <2>1 DEF JobOf
<1>4. CASE todo' = NoJob
  BY <1>4 DEF NoJob, ResultLast
<1>5. CASE \E n \in Names, dup \in BOOLEAN : CopyEntry(dup, n)
  BY <1>5 DEF CopyEntry, ResultLast
<1>6. CASE Overwrite \/ Copy \/ Unstage \/ Unstaged
  BY <1>1, <1>6 DEF Overwrite, Copy, Unstage, Unstaged, ScratchTemp, ResultLast
<1>7. CASE Cancel \/ Refuse \/ Verify \/ VerifyBad \/ StageBad
  BY <1>2, <1>7 DEF Cancel, Refuse, Verify, VerifyBad, StageBad, ScratchTemp, ResultLast
<1>8. CASE Stage
  BY <1>3, <1>8 DEF Stage, ResultLast
<1>9. CASE UNCHANGED vars
  BY <1>9 DEF vars, ResultLast
<1> QED
  BY <1>4, <1>5, <1>6, <1>7, <1>8, <1>9
     DEF Next, SwitchActive, CycleDrive, SwapDrives, RefreshAll, Move, DeleteEntry,
         RenameEntry, ChangeDisk, Restart, Quiet

\* Whatever fails, on disks that the panes showed in full a copy or duplicate that
\* is reported as made holds what its source held, provided that a piece of a file
\* has fewer blocks than any file: the program compares the numbers of blocks.
THEOREM CopiesAreEqual ==
  ASSUME FilesAssumption, PiecesShort
  PROVE  Spec => []CopiedIsEqual
<1>1. FInv /\ ResultLast => CopiedIsEqual
  <2> SUFFICES ASSUME FInv, ResultLast, Job, todo.current, todo.result = "copied", Seen
               PROVE  /\ Has(store[todo.dst], todo.name)
                      /\ DataOf(store[todo.dst], todo.name) = Source
    BY DEF CopiedIsEqual, Seen, Source
  <2>1. todo \in JobType /\ todo.name \in AllNames /\ todo.dst \in Drives /\ JobOK
    BY JobNow DEF FInv
  <2>2. /\ store[todo.dst] \in Copies(Cleared(todo.dst), todo.name)
        /\ Has(store[todo.dst], todo.name)
        /\ Blocks[DataOf(store[todo.dst], todo.name)] = Blocks[Source]
    BY <2>1 DEF JobOK, AtEnd, ResultLast
  <2>3. /\ Cleared(todo.dst) \in Dirs /\ ~Has(Cleared(todo.dst), todo.name)
        /\ Source \in Data \cup {Part}
    BY <2>1, ClearedDir, SourceThere DEF JobOK
  <2>4. DataOf(store[todo.dst], todo.name) \in {Source, Part}
    BY <2>1, <2>2, <2>3, CopyUndone DEF Pieces
  <2> QED
    BY <2>2, <2>3, <2>4 DEF PiecesShort
<1>2. Init => ResultLast
  BY DEF Init, NoJob, ResultLast
<1>3. FInv /\ ResultLast /\ [Next]_vars => ResultLast'
  BY ResultStep
<1> QED
  BY <1>1, <1>2, <1>3, FilesInvariant, PTL DEF Spec

-----------------------------------------------------------------------------
(***************************************************************************)
(* When nothing fails                                                      *)
(***************************************************************************)

\* Nothing went wrong, and the directories had room for one entry more.
Room  == \A d \in Drives : Cardinality(Used(todo.before[d])) < MaxEntries
Whole == mode = "calm" /\ Job /\ todo.current /\ Seen /\ Room

\* Then what is written is written in full, and verifies.
CalmInv ==
  Whole =>
    /\ todo.pc = "unstage" => store[Other] = With(Cleared(Other), todo.temp, Source)
    /\ todo.pc \in {"unstaged", "verify"} =>
         store[todo.dst] = With(Cleared(todo.dst), todo.name, Source)
    /\ todo.pc = "done" => todo.result \in {"refused", "copied"}

\* A file that is written to a directory with room is there, and can be shown.
LEMMA Arrived ==
  ASSUME CalmAssumption, NEW dir \in Dirs, NEW name \in AllNames,
         NEW data \in Data \cup {Part}, ~Has(dir, name),
         Cardinality(Used(dir)) < MaxEntries, NEW c, c = With(dir, name, data)
  PROVE  /\ c \in Dirs /\ Has(c, name) /\ DataOf(c, name) = data
         /\ Cardinality(Used(c)) <= MaxEntries
         /\ data \in Pieces => c \in Copies(dir, name)
<1>1. /\ Slots \in Nat /\ MaxEntries \in Nat /\ NoFile \notin Files /\ MaxEntries <= Slots
  BY DEF CalmAssumption, FilesAssumption
<1>2. IsFiniteSet(Used(dir)) /\ Cardinality(Used(dir)) \in Nat /\ Used(dir) \subseteq 1 .. Slots
  BY <1>1, UsedFinite
<1>3. Free(dir) # {}
  <2> SUFFICES ASSUME Free(dir) = {} PROVE FALSE
    OBVIOUS
  <2>1. Used(dir) = 1 .. Slots
    BY <1>2 DEF Free
  <2>2. Cardinality(1 .. Slots) = Slots
    BY <1>1, FS_Interval
  <2> QED
    BY <1>1, <1>2, <2>1, <2>2
<1>4. c \in Dirs /\ Has(c, name) /\ DataOf(c, name) = data
  BY <1>1, <1>3, WithHas
<1>5. Used(c) = Used(dir) \cup {Min(Free(dir))} /\ Min(Free(dir)) \notin Used(dir)
  BY <1>1, <1>3, WithDir
<1>6. Cardinality(Used(c)) = Cardinality(Used(dir)) + 1
  BY <1>2, <1>5, FS_AddElement
<1>7. Cardinality(Used(c)) <= MaxEntries
  BY <1>1, <1>2, <1>6
<1> QED
  BY <1>4, <1>7 DEF Copies

\* The cleared directories have room when those at the start have.
LEMMA ClearedRoom ==
  ASSUME FilesAssumption, todo \in JobType, Room, NEW d \in Drives
  PROVE  Cardinality(Used(Cleared(d))) < MaxEntries
<1>1. todo.before[d] \in Dirs /\ Slots \in Nat /\ NoFile \notin Files /\ MaxEntries \in Nat
  BY DEF JobType, JobOf, Disk, FilesAssumption
<1>2. Used(Cleared(d)) \subseteq Used(todo.before[d])
  BY <1>1, WithoutDir DEF Cleared
<1>3. /\ IsFiniteSet(Used(todo.before[d])) /\ Cardinality(Used(todo.before[d])) \in Nat
      /\ Cardinality(Used(Cleared(d))) \in Nat
  BY <1>1, UsedFinite
<1>4. Cardinality(Used(Cleared(d))) <= Cardinality(Used(todo.before[d]))
  BY <1>2, <1>3, FS_Subset
<1> QED
  BY <1>1, <1>3, <1>4 DEF Room

\* A behaviour in which nothing fails is one from the start.
LEMMA CalmBefore ==
  ASSUME Next, mode' = "calm"
  PROVE  mode = "calm"
BY DEF Next, SwitchActive, CycleDrive, SwapDrives, RefreshAll, Move, DeleteEntry,
       RenameEntry, ChangeDisk, Restart, Quiet, CopyEntry, Cancel, Overwrite, Copy,
       Verify, VerifyBad, Refuse, Stage, StageBad, Unstage, Unstaged, ScratchTemp, Streams

LEMMA WholeBefore ==
  ASSUME FInv, Next, Same, todo.pc # "done", Whole'
  PROVE  Whole
<1>1. mode = "calm"
  BY CalmBefore DEF Whole
<1>2. Job
  BY JobNow
<1>3. todo.current /\ Seen
  BY SameTargets DEF Whole, Same
<1>4. Room
  BY DEF Whole, Room, Same
<1> QED
  BY <1>1, <1>2, <1>3, <1>4 DEF Whole

\* What a job sends when nothing fails
LEMMA SentWhole ==
  ASSUME FilesAssumption, NEW dirs \in Disk, NEW from \in Drives, NEW to \in Drives,
         NEW src, NEW dst \in AllNames, NEW ds, Streams(ds, dirs, from, src, to, dst),
         ~Has(dirs[to], dst), Has(dirs[from], src), mode = "calm"
  PROVE  ds[to] = With(dirs[to], dst, DataOf(dirs[from], src))
BY Streaming

LEMMA CopyCalm ==
  ASSUME FilesAssumption, FInv, Copy, Whole
  PROVE  store'[todo.dst] = With(Cleared(todo.dst), todo.name, Source)
<1>1. /\ todo.pc = "copy" /\ ~todo.dup
      /\ Streams(store', store, todo.from, todo.src, todo.dst, todo.name)
  BY DEF Copy
<1>2. /\ todo \in JobType /\ todo.dst \in Drives /\ todo.from \in Drives
      /\ todo.name \in AllNames /\ store \in Disk
  BY <1>1, JobNow DEF StoreTyped
<1>3. JobOK /\ \A d \in Drives : store[d] = Cleared(d)
  BY <1>1 DEF Whole, FInv, JobOK, AtStart
<1>4. /\ ~Has(store[todo.dst], todo.name) /\ Has(store[todo.from], todo.src)
      /\ DataOf(store[todo.from], todo.src) = Source
  BY <1>2, <1>3, ClearedDir DEF JobOK
<1>5. store'[todo.dst] = With(store[todo.dst], todo.name, DataOf(store[todo.from], todo.src))
  BY <1>1, <1>2, <1>4, SentWhole DEF Whole
<1> QED
  BY <1>2, <1>3, <1>4, <1>5

LEMMA StageCalm ==
  ASSUME FilesAssumption, FInv, Stage, Whole
  PROVE  store'[Other] = With(Cleared(Other), todo'.temp, Source)
<1> DEFINE t  == Temps[Min(FreeTemps(todo.name))]
           d1 == Scratched(store, Passive.drive, t)
<1>1. /\ todo.pc = "copy" /\ todo.dup /\ FreeTemps(todo.name) # {} /\ todo.current
      /\ Streams(store', d1, todo.from, todo.src, Passive.drive, t) /\ mode = "calm"
      /\ todo' = [todo EXCEPT !.temp = t, !.pc = "unstage"]
  BY DEF Stage, Whole
<1>2. t \in AllNames
  BY <1>1, TempFree
<1>3. /\ Passive.drive = Other /\ ~Has(d1[Other], t) /\ d1[Other] = Cleared(Other)
      /\ Has(d1[todo.from], todo.src) /\ DataOf(d1[todo.from], todo.src) = Source
  BY <1>1, StageFrom
<1>4. todo \in JobType /\ todo.from \in Drives /\ Other \in Drives /\ store \in Disk
  BY <1>1, JobNow DEF StoreTyped
<1>5. d1 \in Disk
  BY <1>3, <1>4, ScratchedDisk
<1> HIDE DEF d1, t
<1>6. store'[Other] = With(d1[Other], t, DataOf(d1[todo.from], todo.src))
  BY <1>1, <1>2, <1>3, <1>4, <1>5, SentWhole
<1>7. todo'.temp = t
  BY <1>1, <1>2, <1>4, GoesToStage
<1> QED
  BY <1>3, <1>6, <1>7

\* Then the temporary file verifies, and so does the copy.
LEMMA StageVerifies ==
  ASSUME CalmAssumption, FInv, CalmInv, Whole, todo.pc = "unstage"
  PROVE  /\ StageVerified
         /\ Has(store[Other], todo.temp) /\ DataOf(store[Other], todo.temp) = Source
<1>1. FilesAssumption /\ todo.current /\ store[Other] = With(Cleared(Other), todo.temp, Source)
  BY DEF CalmAssumption, Whole, CalmInv
<1>2. /\ JobOK /\ todo.temp \in AllNames /\ Passive.drive = Other
      /\ Cleared(Other) \in Dirs /\ ~Has(Cleared(Other), todo.temp)
      /\ Source \in Data \cup {Part}
  BY <1>1, TempThere
<1>3. /\ todo \in JobType /\ Other \in Drives /\ Other # todo.from
      /\ todo.pane \in Panes /\ 3 - todo.pane \in Panes /\ 3 - (3 - todo.pane) = todo.pane
      /\ ram.panes[todo.pane].drive = todo.from /\ ram.panes[3 - todo.pane].drive = Other
  BY <1>1, PanesAre, JobNow DEF Panes
<1>4. Cardinality(Used(Cleared(Other))) < MaxEntries
  BY <1>1, <1>3, ClearedRoom DEF Whole
<1>5. /\ store[Other] \in Dirs /\ Has(store[Other], todo.temp)
      /\ DataOf(store[Other], todo.temp) = Source
      /\ Cardinality(Used(store[Other])) <= MaxEntries
  BY <1>1, <1>2, <1>4, Arrived
<1>6. /\ ram.panes[todo.pane].entries = Listing(todo.before[todo.from])
      /\ ram.panes[3 - todo.pane].entries = Listing(store[Other])
  BY <1>2 DEF JobOK, AtStage, Shows
<1>7. Source \in Loaded(ram.panes, Other, todo.temp)
  <2> DEFINE q   == 3 - todo.pane
             dir == store[Other]
             n   == todo.temp
             pn  == ram.panes
  <2>1. /\ q \in Panes /\ pn[q].drive = Other /\ dir \in Dirs
        /\ pn[3 - q].drive # pn[q].drive /\ pn[q].entries = Listing(dir)
        /\ Cardinality(Used(dir)) <= MaxEntries /\ Has(dir, n) /\ DataOf(dir, n) = Source
    BY <1>3, <1>5, <1>6
  <2> HIDE DEF q, dir, n, pn
  <2>2. DataOf(dir, n) \in Loaded(pn, pn[q].drive, n)
    BY <1>1, <2>1, LoadedFrom
  <2> QED
    BY <2>1, <2>2 DEF n, pn
<1>8. PICK i \in Used(todo.before[todo.from]) :
        /\ todo.before[todo.from][i].data = Source
        /\ Listing(todo.before[todo.from])[todo.idx] = todo.before[todo.from][i]
        /\ todo.idx \in DOMAIN Listing(todo.before[todo.from])
  BY <1>1, <1>2, <1>3, SourceThere DEF JobOK
<1>9. StageVerified
  <2>1. /\ todo.idx \in DOMAIN ram.panes[todo.pane].entries
        /\ ram.panes[todo.pane].entries[todo.idx].data = Source
    BY <1>6, <1>8
  <2> QED
    BY <1>2, <1>7, <2>1 DEF StageVerified, Verified
<1> QED
  BY <1>5, <1>9

LEMMA CopyVerifies ==
  ASSUME CalmAssumption, FInv, CalmInv, Whole, todo.pc = "verify"
  PROVE  VerifiedCopy
<1>1. /\ FilesAssumption /\ todo.current /\ Seen
      /\ store[todo.dst] = With(Cleared(todo.dst), todo.name, Source)
  BY DEF CalmAssumption, Whole, CalmInv
<1>2. /\ JobOK /\ todo \in JobType /\ todo.name \in AllNames
      /\ todo.dst \in Drives /\ Other \in Drives /\ Other # todo.from
      /\ todo.pane \in Panes /\ 3 - todo.pane \in Panes /\ 3 - (3 - todo.pane) = todo.pane
      /\ ram.panes[todo.pane].drive = todo.from /\ ram.panes[3 - todo.pane].drive = Other
  BY <1>1, PanesAre, JobNow DEF Panes
<1>3. /\ Cleared(todo.dst) \in Dirs /\ ~Has(Cleared(todo.dst), todo.name)
      /\ Source \in Data \cup {Part}
  BY <1>1, <1>2, ClearedDir, SourceThere DEF JobOK
<1>4. Cardinality(Used(Cleared(todo.dst))) < MaxEntries
  BY <1>1, <1>2, ClearedRoom DEF Whole
<1>5. /\ store[todo.dst] \in Dirs /\ Has(store[todo.dst], todo.name)
      /\ DataOf(store[todo.dst], todo.name) = Source
      /\ Cardinality(Used(store[todo.dst])) <= MaxEntries
      /\ store[todo.dst] \in Copies(Cleared(todo.dst), todo.name)
  <2>1. Source \in Pieces
    BY DEF Pieces
  <2> QED
    BY <1>1, <1>2, <1>3, <1>4, <2>1, Arrived
<1>6. /\ ram.panes[todo.pane].entries = Listing(store[todo.from])
      /\ ~todo.dup => ram.panes[3 - todo.pane].entries = Listing(store[Other])
      /\ \A d \in Drives : d # todo.dst => store[d] = Cleared(d)
  BY <1>2 DEF JobOK, AtCopy, Shows
<1> DEFINE q   == IF todo.dup THEN todo.pane ELSE 3 - todo.pane
           dir == store[todo.dst]
           n   == todo.name
           pn  == ram.panes
<1>7. todo.dst = IF todo.dup THEN todo.from ELSE Other
  BY <1>2 DEF JobOK, Setup
<1>8. Source \in Loaded(pn, todo.dst, n)
  <2>1. /\ q \in Panes /\ pn[q].drive = todo.dst /\ pn[3 - q].drive # pn[q].drive
        /\ pn[q].entries = Listing(dir)
    BY <1>2, <1>6, <1>7
  <2> HIDE DEF q, dir, n, pn
  <2>2. dir \in Dirs /\ Cardinality(Used(dir)) <= MaxEntries /\ Has(dir, n)
        /\ DataOf(dir, n) = Source
    BY <1>5 DEF dir, n
  <2>3. DataOf(dir, n) \in Loaded(pn, pn[q].drive, n)
    BY <1>1, <2>1, <2>2, LoadedFrom
  <2> QED
    BY <2>1, <2>2, <2>3
<1>9. /\ todo.idx \in DOMAIN ram.panes[todo.pane].entries
      /\ ram.panes[todo.pane].entries[todo.idx].data = Source
  <2>1. CASE todo.dup
    <3>1. todo.dst = todo.from /\ EntryStays
      BY <1>1, <1>7, <2>1 DEF Seen
    <3>2. store[todo.from] \in Copies(Cleared(todo.from), todo.name)
          /\ Has(store[todo.from], todo.name)
      BY <1>5, <3>1
    <3>3. /\ todo.idx \in DOMAIN Listing(store[todo.from])
          /\ Listing(store[todo.from])[todo.idx].data = Source
      BY <1>1, <1>2, <2>1, <3>1, <3>2, StillAt DEF JobOK
    <3> QED
      BY <1>6, <3>3
  <2>2. CASE ~todo.dup
    <3> DEFINE old == todo.before[todo.from]
    <3>1. store[todo.from] = old
      <4>1. todo.dst = Other /\ todo.from \in Drives
        BY <1>2, <1>7, <2>2 DEF JobType, JobOf
      <4> QED
        BY <1>2, <1>6, <4>1 DEF Cleared
    <3>2. PICK i \in Used(old) :
            /\ old[i].data = Source /\ Listing(old)[todo.idx] = old[i]
            /\ todo.idx \in DOMAIN Listing(old)
      BY <1>1, <1>2, SourceThere DEF JobOK
    <3> QED
      BY <1>6, <3>1, <3>2
  <2> QED
    BY <2>1, <2>2
<1> QED
  BY <1>8, <1>9 DEF VerifiedCopy, Verified

LEMMA UnstageCalm ==
  ASSUME CalmAssumption, FInv, CalmInv, Unstage, Whole
  PROVE  store'[todo.dst] = With(Cleared(todo.dst), todo.name, Source)
<1>1. /\ todo.pc = "unstage" /\ todo.current /\ mode = "calm" /\ FilesAssumption
      /\ Streams(store', store, Passive.drive, todo.temp, todo.dst, todo.name)
  BY DEF Unstage, Whole, CalmAssumption
<1>2. /\ todo \in JobType /\ todo.dst \in Drives /\ Other \in Drives
      /\ todo.name \in AllNames /\ store \in Disk
  BY <1>1, JobNow DEF StoreTyped
<1>3. JobOK /\ Passive.drive = Other /\ todo.dst = todo.from
  BY <1>1, TempThere
<1>4. Has(store[Other], todo.temp) /\ DataOf(store[Other], todo.temp) = Source
  BY <1>1, StageVerifies
<1>5. store[todo.dst] = Cleared(todo.dst) /\ ~Has(store[todo.dst], todo.name)
  BY <1>1, <1>2, <1>3, ClearedDir DEF JobOK, AtStage
<1>6. store'[todo.dst] = With(store[todo.dst], todo.name, DataOf(store[Other], todo.temp))
  BY <1>1, <1>2, <1>3, <1>4, <1>5, SentWhole
<1> QED
  BY <1>4, <1>5, <1>6

LEMMA CalmStep ==
  ASSUME CalmAssumption, FInv, CalmInv, [Next]_vars
  PROVE  CalmInv'
<1>1. CASE todo' = NoJob
  BY <1>1 DEF CalmInv, Whole, Job
<1>2. CASE \E n \in Names, dup \in BOOLEAN : CopyEntry(dup, n)
  <2>1. todo'.pc \in {"overwrite", "copy"}
    BY <1>2, Begins
  <2> QED
    BY <2>1 DEF CalmInv
<1>3. CASE UNCHANGED vars
  <2>1. ram' = ram /\ store' = store /\ todo' = todo /\ mode' = mode
    BY <1>3 DEF vars
  <2>2. /\ Other' = Other /\ Source' = Source /\ (Seen' <=> Seen)
        /\ \A d : Cleared(d)' = Cleared(d)
    BY <2>1, SameTargets DEF Same
  <2>3. Whole' <=> Whole
    BY <2>1, <2>2 DEF Whole, Room, Job
  <2> QED
    BY <2>1, <2>2, <2>3 DEF CalmInv
<1>4. ASSUME todo.pc # "done", Same, Next, Whole',
             NEW pc \in {"copy", "unstage", "unstaged", "verify", "done"}, todo'.pc = pc
      PROVE  /\ Whole /\ Other' = Other /\ Source' = Source
             /\ todo'.dst = todo.dst /\ todo'.name = todo.name
             /\ \A d : Cleared(d)' = Cleared(d)
  BY <1>4, WholeBefore, SameTargets DEF Same
<1>5. FilesAssumption
  BY DEF CalmAssumption
<1>6. CASE Overwrite
  <2>1. todo'.pc = "copy"
    BY <1>6, JobNow, GoesOn DEF Overwrite
  <2> QED
    BY <2>1 DEF CalmInv
<1>7. CASE Cancel \/ Refuse \/ Verify
  <2>1. todo'.pc = "done" /\ todo'.result \in {"refused", "copied"}
    BY <1>7, JobNow, GoesToEnd DEF Cancel, Refuse, Verify
  <2> QED
    BY <2>1 DEF CalmInv
<1>8. CASE Copy
  <2>1. todo.pc # "done" /\ Same /\ todo'.pc = "verify" /\ Next
    BY <1>8, JobNow, GoesOn DEF Copy, Next
  <2>2. ASSUME Whole' PROVE store'[todo.dst] = With(Cleared(todo.dst), todo.name, Source)
    BY <1>4, <1>5, <1>8, <2>1, <2>2, CopyCalm
  <2> QED
    BY <1>4, <2>1, <2>2 DEF CalmInv
<1>9. CASE Stage
  <2>1. todo.pc # "done" /\ Same /\ todo'.pc = "unstage" /\ Next
    <3>1. todo.pc = "copy" /\ FreeTemps(todo.name) # {}
          /\ todo' = [todo EXCEPT !.temp = Temps[Min(FreeTemps(todo.name))], !.pc = "unstage"]
      BY <1>9 DEF Stage
    <3> QED
      BY <1>5, <1>9, <3>1, JobNow, TempFree, GoesToStage DEF Next
  <2>2. ASSUME Whole' PROVE store'[Other] = With(Cleared(Other), todo'.temp, Source)
    BY <1>4, <1>5, <1>9, <2>1, <2>2, StageCalm
  <2> QED
    BY <1>4, <2>1, <2>2 DEF CalmInv
<1>10. CASE Unstage
  <2>1. todo.pc # "done" /\ Same /\ todo'.pc = "unstaged" /\ Next
    BY <1>10, JobNow, GoesOn DEF Unstage, Next
  <2>2. ASSUME Whole' PROVE store'[todo.dst] = With(Cleared(todo.dst), todo.name, Source)
    BY <1>4, <1>10, <2>1, <2>2, UnstageCalm
  <2> QED
    BY <1>4, <2>1, <2>2 DEF CalmInv
<1>11. CASE Unstaged
  <2>1. todo.pc = "unstaged" /\ Same /\ todo'.pc = "verify" /\ Next
    BY <1>11, JobNow, GoesOn DEF Unstaged, ScratchTemp, Next
  <2>2. ASSUME Whole' PROVE store'[todo.dst] = With(Cleared(todo.dst), todo.name, Source)
    <3>1. Whole
      BY <1>4, <2>1, <2>2
    <3>2. store[todo.dst] = With(Cleared(todo.dst), todo.name, Source)
      BY <2>1, <3>1 DEF CalmInv
    <3>3. \A e \in Drives : e # Passive.drive => store'[e] = store[e]
      BY <1>5, <1>11, <2>1, TempGone DEF Unstaged, ScratchTemp
    <3>4. Passive.drive = Other /\ todo.dst = todo.from
      BY <1>5, <2>1, <3>1, TempThere DEF Whole
    <3> QED
      BY <2>1, <3>2, <3>3, <3>4, JobNow
  <2> QED
    BY <1>4, <2>1, <2>2 DEF CalmInv
<1>12. CASE StageBad
  <2>1. todo.pc = "unstage" /\ Same /\ todo'.pc = "done" /\ ~StageVerified /\ Next
    BY <1>12, JobNow, GoesToEnd DEF StageBad, ScratchTemp, Next
  <2>2. ~Whole'
    BY <1>4, <2>1, StageVerifies
  <2> QED
    BY <2>2 DEF CalmInv
<1>13. CASE VerifyBad
  <2>1. todo.pc = "verify" /\ Same /\ todo'.pc = "done" /\ ~VerifiedCopy /\ Next
    BY <1>13, JobNow, GoesToEnd DEF VerifyBad, Next
  <2>2. ~Whole'
    BY <1>4, <2>1, CopyVerifies
  <2> QED
    BY <2>2 DEF CalmInv
<1> QED
  BY <1>1, <1>2, <1>3, <1>6, <1>7, <1>8, <1>9, <1>10, <1>11, <1>12, <1>13
     DEF Next, SwitchActive, CycleDrive, SwapDrives, RefreshAll, Move, DeleteEntry,
         RenameEntry, ChangeDisk, Restart, Quiet

\* When nothing fails and the disks have room for what the panes can show, a copy
\* or duplicate that the user does not take back is made, whatever is on the disks
\* and whichever entries the panes show; it leaves no temporary file behind.
THEOREM CopiesSucceed ==
  ASSUME CalmAssumption
  PROVE  Spec => []CopySucceeds
<1> USE DEF CalmAssumption
<1>1. FInv /\ CalmInv => CopySucceeds
  <2> SUFFICES ASSUME FInv, CalmInv, Whole, todo.pc = "done", todo.result # "refused"
               PROVE  /\ todo.result = "copied"
                      /\ \A d \in Drives, t \in ToSet(Temps) :
                           Has(store[d], t) => Has(todo.before[d], t)
    BY DEF CopySucceeds, Whole, Seen, Room
  <2>1. todo.result = "copied"
    BY DEF CalmInv
  <2>2. todo \in JobType /\ todo.name \in Names /\ todo.name \in AllNames
        /\ todo.dst \in Drives /\ JobOK
    BY JobNow DEF FInv, Whole, JobType, JobOf
  <2>3. /\ store[todo.dst] \in Copies(Cleared(todo.dst), todo.name)
        /\ \A d \in Drives : d # todo.dst => store[d] = Cleared(d)
    BY <2>1, <2>2 DEF JobOK, AtEnd
  <2>4. /\ Cleared(todo.dst) \in Dirs /\ ~Has(Cleared(todo.dst), todo.name)
        /\ Source \in Data \cup {Part}
        /\ \A d \in Drives : \A n : Has(Cleared(d), n) => Has(todo.before[d], n)
    BY <2>2, ClearedDir, SourceThere DEF JobOK
  <2>5. \A n : n # todo.name => (Has(store[todo.dst], n) <=> Has(Cleared(todo.dst), n))
    BY <2>2, <2>3, <2>4, CopyUndone
  <2>6. todo.name \notin ToSet(Temps)
    BY <2>2
  <2> QED
    BY <2>1, <2>2, <2>3, <2>4, <2>5, <2>6
<1>2. Init => CalmInv
  BY DEF Init, CalmInv, Whole, Job
<1>3. FInv /\ CalmInv /\ [Next]_vars => CalmInv'
  BY CalmStep
<1> QED
  BY <1>1, <1>2, <1>3, FilesInvariant, PTL DEF Spec
=============================================================================
