-------------------------- MODULE PhysProbeProofs --------------------------
(***************************************************************************)
(* Proofs about the probe for the REU's size, for every size, every base   *)
(* bank that leaves room for one alias of itself, and every content of the *)
(* probed bytes, with resets in the middle of a probe.                     *)
(***************************************************************************)
EXTENDS PhysProbe, Integers, TLAPS

-----------------------------------------------------------------------------
(***************************************************************************)
(* The inductive invariant                                                 *)
(***************************************************************************)

Values == Byte \cup {Mark, Probe}
Memory == [0 .. mode - 1 -> Values]

Home  == Base % mode       \* the byte the base bank has in this REU
At    == ram.bank % mode   \* the byte of the bank being looked at
Marked == [ram.found EXCEPT ![Home] = Mark]

\* What the bytes are at each transfer, compared with those found.
BytesOK ==
  CASE todo = "begin"           -> store \in Memory
    [] todo \in {"fetch", "end"} -> store = Marked
    [] todo = "stash"           -> store = Marked /\ ram.cand = Marked[At]
    [] todo \in {"look", "back"} -> store = [Marked EXCEPT ![At] = Probe]
                                    /\ ram.cand = Marked[At]
    [] todo = "done"            -> store = ram.found

\* The banks looked at so far are no aliases of the base bank.
PlaceOK ==
  /\ todo \in {"fetch", "stash", "look", "back", "end"} =>
       /\ ram.bank \in Base + 1 .. W
       /\ ram.bank <= Base + mode
       /\ ram.base = ram.found[Home]
  /\ todo \in {"stash", "look", "back", "end"} => ram.bank < W
  /\ todo = "back" => ram.got = (IF At = Home THEN Probe ELSE Mark)
  /\ todo = "end" => At = Home

PInv ==
  /\ mode \in Modes
  /\ todo \in {"begin", "fetch", "stash", "look", "back", "end", "done"}
  /\ ram \in [found : Memory, bank : 0 .. W, base : Values, cand : Values,
              got : Values, count : 0 .. W]
  /\ BytesOK /\ PlaceOK /\ CountRight

-----------------------------------------------------------------------------
(***************************************************************************)
(* Aliases: the first bank above the base that is one is a size away.      *)
(***************************************************************************)

LEMMA ModRange ==
  ASSUME NEW a \in Nat, NEW m \in Nat \ {0}
  PROVE  a % m \in 0 .. m - 1
BY SMT

LEMMA DivMod ==
  ASSUME NEW a \in Nat, NEW m \in Nat \ {0}
  PROVE  a \div m \in Int /\ a = m * (a \div m) + (a % m)
BY SMT

\* The one multiple of m within a distance below m of 0 is 0 itself.
LEMMA Multiple ==
  ASSUME NEW m \in Nat \ {0}, NEW k \in Int, -m < m * k, m * k < m
  PROVE  k = 0
<1>1. k >= 1 => m * k >= m
  BY SMT
<1>2. k <= -1 => m * k <= -m
  BY SMT
<1> QED
  BY <1>1, <1>2

LEMMA SameRest ==
  ASSUME NEW m \in Nat \ {0}, NEW p \in Int, NEW q \in Int,
         NEW r \in 0 .. m - 1, NEW s \in 0 .. m - 1, NEW d \in 0 .. m,
         m * q + s = m * p + r + d
  PROVE  (d = m => r = s) /\ (r = s => d \in {0, m})
<1>1. m * (q - p) = r - s + d
  BY SMT
<1>2. m * (q - p - 1) = r - s + d - m
  BY <1>1, SMT
<1>3. d = m => r = s
  <2> SUFFICES ASSUME d = m PROVE r = s
    OBVIOUS
  <2> DEFINE k == q - p - 1
  <2>1. k \in Int
    OBVIOUS
  <2>2. m * k = r - s
    BY <1>2
  <2> HIDE DEF k
  <2>3. k = 0
    BY <2>1, <2>2, Multiple
  <2>4. m * k = 0
    BY <2>3
  <2> QED
    BY <2>2, <2>4
<1>4. r = s /\ d < m => d = 0
  <2> SUFFICES ASSUME r = s, d < m PROVE d = 0
    OBVIOUS
  <2> DEFINE k == q - p
  <2>1. k \in Int
    OBVIOUS
  <2>2. m * k = d
    BY <1>1
  <2> HIDE DEF k
  <2>3. k = 0
    BY <2>1, <2>2, Multiple
  <2>4. m * k = 0
    BY <2>3
  <2> QED
    BY <2>2, <2>4
<1> QED
  BY <1>3, <1>4

\* Two numbers at most m apart have the same rest when they are equal or m
\* apart.
LEMMA Residues ==
  ASSUME NEW m \in Nat \ {0}, NEW a \in Nat, NEW d \in 0 .. m
  PROVE  (a + d) % m = a % m <=> d \in {0, m}
<1> DEFINE b == a + d
<1>1. b \in Nat /\ b = a + d
  OBVIOUS
<1> HIDE DEF b
<1> DEFINE r == a % m
           s == b % m
           p == a \div m
           q == b \div m
<1>2. r \in 0 .. m - 1 /\ s \in 0 .. m - 1
  BY <1>1, ModRange
<1>3. p \in Int /\ q \in Int /\ a = m * p + r /\ b = m * q + s
  BY <1>1, DivMod
<1> HIDE DEF r, s, p, q
<1>4. m * q + s = m * p + r + d
  BY <1>1, <1>2, <1>3
<1>5. (d = m => r = s) /\ (r = s => d \in {0, m})
  BY <1>2, <1>3, <1>4, SameRest
<1>6. d = 0 => b = a
  BY <1>1
<1>7. d = 0 => r = s
  BY <1>6 DEF r, s
<1>8. r = s <=> d \in {0, m}
  BY <1>5, <1>7
<1> QED
  BY <1>8 DEF r, s, b

LEMMA Aliases ==
  ASSUME ProbeAssumption, PInv
  PROVE  /\ mode \in 1 .. W /\ W \in Nat /\ Base \in Nat
         /\ Home \in 0 .. mode - 1
         /\ ram.bank \in Nat /\ At \in 0 .. mode - 1
         /\ ram.bank \in Base + 1 .. Base + mode =>
              (At = Home <=> ram.bank = Base + mode)
<1>1. mode \in 1 .. W /\ W \in Nat /\ Base \in Nat /\ ram.bank \in Nat
  BY DEF ProbeAssumption, PInv
<1>2. mode \in Nat \ {0}
  BY <1>1
<1>3. Home \in 0 .. mode - 1 /\ At \in 0 .. mode - 1
  BY <1>1, <1>2, ModRange DEF Home, At
<1>4. ASSUME ram.bank \in Base + 1 .. Base + mode
      PROVE  At = Home <=> ram.bank = Base + mode
  <2> DEFINE d == ram.bank - Base
  <2>1. d \in 0 .. mode /\ d # 0 /\ Base + d = ram.bank
    BY <1>1, <1>2, <1>4
  <2> HIDE DEF d
  <2>2. (Base + d) % mode = Base % mode <=> d \in {0, mode}
    BY <1>1, <1>2, <2>1, Residues
  <2>3. At = Home <=> d = mode
    BY <2>1, <2>2 DEF At, Home
  <2>4. d = mode <=> ram.bank = Base + mode
    BY <1>1, <1>2 DEF d
  <2> QED
    BY <2>3, <2>4
<1> QED
  BY <1>1, <1>3, <1>4

-----------------------------------------------------------------------------
(***************************************************************************)
(* Each transfer keeps the invariant                                       *)
(***************************************************************************)

LEMMA InitProbe ==
  ASSUME ProbeAssumption, Init
  PROVE  PInv
<1>1. store \in Memory
  BY DEF Init, Memory, Values
<1>2. Mark \in Values
  BY DEF Values
<1>3. W \in Nat
  BY DEF ProbeAssumption
<1> QED
  BY <1>1, <1>2, <1>3 DEF Init, Start, PInv, BytesOK, PlaceOK, CountRight

LEMMA StoreTyped ==
  ASSUME ProbeAssumption, PInv
  PROVE  store \in Memory /\ Marked \in Memory
<1>1. Marked \in Memory
  BY Aliases DEF PInv, Marked, Memory, Values
<1>2. [Marked EXCEPT ![At] = Probe] \in Memory
  BY <1>1, Aliases DEF Memory, Values
<1> QED
  BY <1>1, <1>2 DEF PInv, BytesOK

LEMMA BeginProbe ==
  ASSUME ProbeAssumption, PInv, Begin
  PROVE  PInv'
<1>1. /\ store \in Memory /\ mode' = mode /\ todo' = "fetch"
      /\ ram' = [ram EXCEPT !.found = store, !.base = store[Home],
                            !.bank = Base + 1]
      /\ store' = [store EXCEPT ![Home] = Mark]
  BY StoreTyped DEF Begin, Fetch, Stash, Home
<1>2. store[Home] \in Values
  BY <1>1, Aliases DEF Memory
<1>3. Base + 1 \in 0 .. W
  BY DEF ProbeAssumption
<1>4. Memory' = Memory /\ Values' = Values /\ Home' = Home
  BY <1>1 DEF Memory, Values, Home
<1>5. ram' \in [found : Memory, bank : 0 .. W, base : Values, cand : Values,
                got : Values, count : 0 .. W]
  BY <1>1, <1>2, <1>3 DEF PInv
<1>6. ram'.found = store /\ ram'.base = store[Home] /\ ram'.bank = Base + 1
  BY <1>1 DEF PInv
<1>7. BytesOK'
  BY <1>1, <1>4, <1>6 DEF BytesOK, Marked
<1>8. PlaceOK'
  BY <1>1, <1>3, <1>4, <1>6, Aliases DEF PlaceOK
<1> QED
  BY <1>1, <1>4, <1>5, <1>7, <1>8 DEF PInv, CountRight

LEMMA FetchProbe ==
  ASSUME ProbeAssumption, PInv, FetchCandidate
  PROVE  PInv'
<1>1. /\ todo = "fetch" /\ todo' = "stash" /\ UNCHANGED <<store, mode>>
      /\ ram.bank < W /\ ram' = [ram EXCEPT !.cand = store[At]]
  BY DEF FetchCandidate, Fetch, At
<1>2. store[At] \in Values
  BY StoreTyped, Aliases DEF Memory
<1>3. /\ ram' \in [found : Memory, bank : 0 .. W, base : Values,
                    cand : Values, got : Values, count : 0 .. W]
      /\ ram'.cand = store[At] /\ ram'.found = ram.found
      /\ ram'.bank = ram.bank /\ ram'.base = ram.base
  BY <1>1, <1>2 DEF PInv
<1>4. Memory' = Memory /\ Home' = Home /\ At' = At /\ Marked' = Marked
  BY <1>1, <1>3 DEF Memory, Values, Home, At, Marked
<1>5. BytesOK'
  BY <1>1, <1>3, <1>4 DEF PInv, BytesOK
<1>6. PlaceOK'
  BY <1>1, <1>3, <1>4 DEF PInv, PlaceOK
<1> QED
  BY <1>1, <1>3, <1>4, <1>5, <1>6 DEF PInv, CountRight

LEMMA StashProbe ==
  ASSUME ProbeAssumption, PInv, StashCandidate
  PROVE  PInv'
<1>1. /\ todo = "stash" /\ todo' = "look" /\ UNCHANGED <<ram, mode>>
      /\ store' = [store EXCEPT ![At] = Probe]
  BY DEF StashCandidate, Stash, At
<1>2. Memory' = Memory /\ Home' = Home /\ At' = At /\ Marked' = Marked
  BY <1>1 DEF Memory, Values, Home, At, Marked
<1>3. BytesOK'
  BY <1>1, <1>2 DEF PInv, BytesOK
<1>4. PlaceOK'
  BY <1>1, <1>2 DEF PInv, PlaceOK
<1> QED
  BY <1>1, <1>2, <1>3, <1>4 DEF PInv, CountRight

\* The base bank shows the probe's value when it is the bank just written.
LEMMA LookProbe ==
  ASSUME ProbeAssumption, PInv, LookAtBase
  PROVE  PInv'
<1>1. /\ todo = "look" /\ todo' = "back" /\ UNCHANGED <<store, mode>>
      /\ ram' = [ram EXCEPT !.got = store[Home]]
  BY DEF LookAtBase, Fetch, Home
<1>2. store[Home] = IF At = Home THEN Probe ELSE Mark
  <2>1. store = [Marked EXCEPT ![At] = Probe]
    BY <1>1 DEF PInv, BytesOK
  <2>2. Marked[Home] = Mark
    BY Aliases DEF PInv, Marked, Memory
  <2> QED
    BY <2>1, <2>2, StoreTyped, Aliases DEF Memory
<1>3. store[Home] \in Values
  BY <1>2 DEF Values
<1>4. /\ ram' \in [found : Memory, bank : 0 .. W, base : Values,
                    cand : Values, got : Values, count : 0 .. W]
      /\ ram'.got = store[Home] /\ ram'.found = ram.found
      /\ ram'.bank = ram.bank /\ ram'.base = ram.base
      /\ ram'.cand = ram.cand
  BY <1>1, <1>3 DEF PInv
<1>5. Memory' = Memory /\ Home' = Home /\ At' = At /\ Marked' = Marked
  BY <1>1, <1>4 DEF Memory, Values, Home, At, Marked
<1>6. BytesOK'
  BY <1>1, <1>4, <1>5 DEF PInv, BytesOK
<1>7. PlaceOK'
  BY <1>1, <1>2, <1>4, <1>5 DEF PInv, PlaceOK
<1> QED
  BY <1>1, <1>4, <1>5, <1>6, <1>7 DEF PInv, CountRight

\* Putting the byte back restores what was there before, the mark included
\* when the bank is the base's alias.
LEMMA BackProbe ==
  ASSUME ProbeAssumption, PInv, PutBack
  PROVE  PInv'
<1>1. /\ todo = "back" /\ mode' = mode
      /\ store' = [store EXCEPT ![At] = ram.cand]
  BY DEF PutBack, Stash, At
<1>2. store' = Marked
  <2>1. store = [Marked EXCEPT ![At] = Probe] /\ ram.cand = Marked[At]
    BY <1>1 DEF PInv, BytesOK
  <2> QED
    BY <1>1, <2>1, StoreTyped, Aliases DEF Memory
<1>3. Memory' = Memory /\ Home' = Home
  BY <1>1 DEF Memory, Values, Home
<1>4. /\ ram.bank \in Base + 1 .. W /\ ram.bank < W
      /\ ram.bank <= Base + mode
      /\ ram.base = ram.found[Home]
      /\ ram.got = (IF At = Home THEN Probe ELSE Mark)
  BY <1>1 DEF PInv, PlaceOK
<1>5. CASE ram.got = Probe
  <2>1. todo' = "end" /\ ram' = ram
    BY <1>5 DEF PutBack
  <2>2. At = Home
    BY <1>4, <1>5 DEF Probe, Mark
  <2>3. At' = At /\ Marked' = Marked
    BY <1>1, <2>1 DEF At, Marked, Home
  <2>4. BytesOK'
    BY <1>2, <2>1, <2>3 DEF BytesOK
  <2>5. PlaceOK'
    BY <1>1, <1>3, <1>4, <2>1, <2>2, <2>3 DEF PlaceOK
  <2> QED
    BY <1>1, <1>3, <2>1, <2>4, <2>5 DEF PInv, CountRight
<1>6. CASE ram.got # Probe
  <2>1. todo' = "fetch" /\ ram' = [ram EXCEPT !.bank = @ + 1]
    BY <1>6 DEF PutBack
  <2>2. At # Home
    BY <1>4, <1>6
  <2>3. ram.bank + 1 \in Base + 1 .. W /\ ram.bank + 1 <= Base + mode
    BY <1>4, <2>2, Aliases
  <2>4. ram.bank + 1 \in 0 .. W
    BY <2>3, Aliases
  <2>5. /\ ram' \in [found : Memory, bank : 0 .. W, base : Values,
                      cand : Values, got : Values, count : 0 .. W]
        /\ ram'.bank = ram.bank + 1 /\ ram'.found = ram.found
        /\ ram'.base = ram.base
    BY <2>1, <2>4 DEF PInv
  <2>6. Marked' = Marked
    BY <1>3, <2>5 DEF Marked
  <2>7. BytesOK'
    BY <1>2, <2>1, <2>6 DEF BytesOK
  <2>8. PlaceOK'
    BY <1>1, <1>3, <1>4, <2>1, <2>3, <2>5 DEF PlaceOK
  <2> QED
    BY <1>1, <1>3, <2>1, <2>5, <2>7, <2>8 DEF PInv, CountRight
<1> QED
  BY <1>5, <1>6

\* The last transfer restores the base bank, whose byte was kept from the
\* start.
LEMMA FinishProbe ==
  ASSUME ProbeAssumption, PInv, todo \in {"fetch", "end"},
         NEW n \in 0 .. W, n = mode % W, Finish(n)
  PROVE  PInv'
<1>1. /\ todo' = "done" /\ mode' = mode
      /\ store' = [store EXCEPT ![Home] = ram.base]
      /\ ram' = [ram EXCEPT !.count = n]
  BY DEF Finish, Stash, Home
<1>2. store = Marked /\ ram.base = ram.found[Home] /\ ram.found \in Memory
  BY DEF PInv, BytesOK, PlaceOK
<1>3. store' = ram.found
  BY <1>1, <1>2, Aliases DEF Marked, Memory
<1>4. /\ ram' \in [found : Memory, bank : 0 .. W, base : Values,
                    cand : Values, got : Values, count : 0 .. W]
      /\ ram'.found = ram.found /\ ram'.count = n
  BY <1>1 DEF PInv
<1>5. Memory' = Memory
  BY <1>1 DEF Memory, Values
<1>6. BytesOK' /\ PlaceOK' /\ CountRight'
  BY <1>1, <1>3, <1>4 DEF BytesOK, PlaceOK, CountRight
<1> QED
  BY <1>1, <1>4, <1>5, <1>6 DEF PInv

LEMMA WrappedProbe ==
  ASSUME ProbeAssumption, PInv, Wrapped
  PROVE  PInv'
<1>1. todo = "end" /\ Finish((ram.bank - Base) % W)
  BY DEF Wrapped
<1>2. At = Home /\ ram.bank \in Base + 1 .. W /\ ram.bank <= Base + mode
  BY <1>1 DEF PInv, PlaceOK
<1>3. ram.bank - Base = mode
  BY <1>2, Aliases
<1>4. mode % W \in 0 .. W - 1
  BY Aliases, ModRange DEF ProbeAssumption
<1>5. mode % W \in 0 .. W
  BY <1>4, Aliases
<1> QED
  BY <1>1, <1>3, <1>5, FinishProbe

LEMMA ExhaustedProbe ==
  ASSUME ProbeAssumption, PInv, Exhausted
  PROVE  PInv'
<1>1. todo = "fetch" /\ ram.bank >= W /\ Finish(0)
  BY DEF Exhausted
<1>2. ram.bank <= Base + mode
  BY <1>1 DEF PInv, PlaceOK
<1>3. mode \in Modes
  BY DEF PInv
<1>4. mode = W
  BY <1>1, <1>2, <1>3, Aliases DEF ProbeAssumption
<1>5. mode % W = 0
  <2>1. W \in Nat \ {0}
    BY DEF ProbeAssumption
  <2>2. W % W = 0
    BY <2>1, SMT
  <2> QED
    BY <1>4, <2>2
<1>6. 0 \in 0 .. W
  BY Aliases
<1> QED
  BY <1>1, <1>5, <1>6, FinishProbe

\* The bytes a reset leaves behind are the ones the next probe must keep.
LEMMA ResetProbe ==
  ASSUME ProbeAssumption, PInv, Reset
  PROVE  PInv'
<1>1. /\ todo' = "begin" /\ UNCHANGED <<store, mode>>
      /\ ram' = [Start(store) EXCEPT !.found = ram.found]
  BY DEF Reset
<1>2. Memory' = Memory
  BY <1>1 DEF Memory, Values
<1>3. W \in Nat /\ Mark \in Values
  BY Aliases DEF Values
<1>4. ram' \in [found : Memory, bank : 0 .. W, base : Values, cand : Values,
                got : Values, count : 0 .. W]
  BY <1>1, <1>3 DEF PInv, Start
<1>5. BytesOK' /\ PlaceOK' /\ CountRight'
  BY <1>1, <1>2, StoreTyped DEF BytesOK, PlaceOK, CountRight
<1> QED
  BY <1>1, <1>2, <1>4, <1>5 DEF PInv

\* Every transfer of a probe leaves the bytes it has not touched as they were
\* found, and no bank looked at before the first alias is one.
\* Code: reu_phys_detect_bank_count.
THEOREM ProbeInvariant ==
  ASSUME ProbeAssumption
  PROVE  Spec => []PInv
<1>1. Init => PInv
  BY InitProbe
<1>2. PInv /\ [Next]_vars => PInv'
  <2> SUFFICES ASSUME PInv, [Next]_vars PROVE PInv'
    OBVIOUS
  <2>1. CASE UNCHANGED vars
    BY <2>1 DEF vars, PInv, Memory, Values, BytesOK, PlaceOK, CountRight,
                Home, At, Marked
  <2> QED
    BY <2>1, BeginProbe, FetchProbe, StashProbe, LookProbe, BackProbe,
       WrappedProbe, ExhaustedProbe, ResetProbe DEF Next
<1> QED
  BY <1>1, <1>2, PTL DEF Spec

\* The probe's count is the REU's size, whatever bytes the banks held, its
\* own mark and probe values included.
\* Code: reu_phys_detect_bank_count.
THEOREM ProbeCounts ==
  ASSUME ProbeAssumption
  PROVE  Spec => []CountRight
<1>1. PInv => CountRight
  BY DEF PInv
<1> QED
  BY <1>1, ProbeInvariant, PTL

\* A probe that ends has put every byte back, the one of the base bank too.
\* Code: reu_phys_detect_bank_count.
THEOREM ProbePutsBytesBack ==
  ASSUME ProbeAssumption
  PROVE  Spec => []BytesBack
<1>1. PInv => BytesBack
  BY DEF PInv, BytesOK, BytesBack
<1> QED
  BY <1>1, ProbeInvariant, PTL
=============================================================================
