----------------------------- MODULE UciProofs -----------------------------
(***************************************************************************)
(* Proofs about the gateways to the Ultimate, for every set of responses,  *)
(* every size of the caller's buffer, and any number of commands, waits    *)
(* that run out and errors of the device: a command reported as carried    *)
(* out ran once, and its caller has the whole response to it.              *)
(***************************************************************************)
EXTENDS UciLink, SequenceTheorems, FiniteSetTheorems, TLAPS

-----------------------------------------------------------------------------
(***************************************************************************)
(* The inductive invariant                                                 *)
(***************************************************************************)

States  == {"idle", "busy", "last", "more"}
Bits    == {"push", "accept", "abort"}
Byte    == Nat \X Nat
Streams == Seq(Byte)
Entry   == [data : Streams, stat : Streams]

Registers ==
            [state : States, pend : SUBSET Bits, error : BOOLEAN, data : Streams,
             stat : Streams, resp : Seq([data : Nat, stat : Nat]), next : Nat,
             cmd : Nat, ran : Seq(Nat), refused : BOOLEAN, late : Nat, errors : Nat]
StoreTyped == store \in Registers

RamTyped ==
  /\ ram \in [n : Nat, each : BOOLEAN, data : Streams, stat : Streams,
              handed : Seq(Entry), dropped : BOOLEAN,
              result : {"none", "ok", "failed"}]
  /\ ram.each => Adjacent

\* Who waits in a loop, and for what change of the state
Loops == {"response", "top", "drain", "settle"}
TodoTyped ==
  /\ todo \in [pc : {"done", "sync", "push", "advance", "recover"} \cup Loops,
               after : {"none", "first", "second", "command", "failed"},
               old : States \cup {"none"}]
  /\ todo.pc \in {"done", "push"} <=> todo.after = "none"
  /\ todo.pc = "sync" => todo.after # "command"
  /\ todo.pc = "recover" => todo.after \in {"second", "failed"}
  /\ todo.pc \in Loops => todo.after = "command"
  /\ todo.pc = "advance" => todo.old \in {"last", "more"}

\* The device has a block to publish while it is busy or says that there are more.
MoreToCome ==
  store.state \in {"busy", "more"} =>
    store.resp \in Response /\ store.next \in 1 .. Len(store.resp)

Typed == StoreTyped /\ RamTyped /\ TodoTyped /\ MoreToCome

\* Before the push of a command
Before == todo.pc = "push" \/ todo.after \in {"first", "second"}
NoBytes == store.data = <<>> /\ store.stat = <<>>

\* No command has a higher number than the one of the caller, which is new until it
\* is pushed.
NeverRan == \A i \in DOMAIN store.ran : store.ran[i] < ram.n
RanOnce ==
  \E i \in DOMAIN store.ran :
    /\ store.ran[i] = ram.n
    /\ \A j \in DOMAIN store.ran : store.ran[j] = ram.n => j = i
Numbered ==
  /\ store.cmd <= ram.n /\ \A i \in DOMAIN store.ran : store.ran[i] <= ram.n
  /\ Before => store.cmd < ram.n /\ NeverRan /\ ram = Transfer(ram.n, ram.each)
  /\ todo.pc = "push" => QuietIdle /\ NoBytes
  /\ todo.pc # "done" => ram.result = "none"
  /\ ~store.refused

\* A command that the device has not taken up yet
Waiting ==
  /\ todo.pc = "response" /\ store.pend = {"push"} /\ store.state = "idle"
  /\ NoBytes /\ NeverRan /\ ram = Transfer(ram.n, ram.each)

\* The blocks that were published, the bytes of them that were read, and the blocks
\* that were handed over
Published == store.next - 1
Read(part) == End(Published, part) - Len(store[part])
HandedOver == IF Responding /\ store.pend = {} THEN Published - 1 ELSE Published

\* Where a command that was taken up is
Shown ==
  /\ store.resp \in Response /\ store.next \in 1 .. Len(store.resp) + 1
  /\ store.state = "idle" => todo.pc = "settle"
  /\ store.state \in {"idle", "busy"} => NoBytes
  /\ store.state \in {"idle", "last"} => Published = Len(store.resp)
  /\ store.state = "more" => Published > 0

\* Which of the blocks the gateway is at
AtBlock ==
  /\ store.pend \in {{}, {"accept"}}
  /\ store.pend = {"accept"} =>
       NoBytes /\ store.state = todo.old /\ todo.pc \in {"advance", "settle"}
  /\ todo.pc = "top" => Responding
  /\ todo.pc = "drain" => Responding /\ store.state = todo.old
  /\ todo.pc = "advance" =>
       /\ todo.old = "more"
       /\ Adjacent /\ store.pend = {} => store.state = "busy"
  /\ todo.pc = "settle" =>
       todo.old = "last" /\ IF store.pend = {} THEN store.state = "idle"
                            ELSE store.state = "last"

\* What was read and what is still to be read are the bytes of the blocks.
Queued(part) ==
  /\ Read(part) >= End(HandedOver, part)
  /\ store[part] = Bytes(ram.n, Read(part), End(Published, part))
KeptAll ==
  /\ ram.data = Capped(Bytes(ram.n, 0, Read("data")))
  /\ ram.stat = Bytes(ram.n, 0, Read("stat"))
  /\ ram.dropped <=> Read("data") > Cap
Handing(n, h) ==
  [k \in 1 .. h |-> [data |-> Capped(Block(n, k).data), stat |-> Block(n, k).stat]]
KeptBlock ==
  /\ ram.handed = Handing(ram.n, HandedOver)
  /\ ram.data = Capped(Bytes(ram.n, End(HandedOver, "data"), Read("data")))
  /\ ram.stat = Bytes(ram.n, End(HandedOver, "stat"), Read("stat"))
Received ==
  /\ Queued("data") /\ Queued("stat")
  /\ IF ram.each THEN KeptBlock ELSE KeptAll

CommandOK ==
  todo.after = "command" =>
    /\ store.cmd = ram.n
    /\ Waiting \/ (RanOnce /\ Shown /\ AtBlock /\ Received)

\* What the caller has been told
Reported == ram.result = "ok" => todo.pc = "done" /\ RanOnce /\ OkIsWhole

\* Nothing has gone wrong: an error that was left behind is cleared by the first sync.
Calm ==
  Adjacent /\ store.late = 0 /\ store.errors = 0 =>
    /\ ram.result # "failed" /\ todo.pc # "recover"
    /\ todo.after \notin {"second", "failed"}
    /\ store.error => todo.pc \in {"done", "sync"}

UInv == Typed /\ Numbered /\ CommandOK /\ Reported /\ Calm

-----------------------------------------------------------------------------
(***************************************************************************)
(* Bytes of a response                                                     *)
(***************************************************************************)

\* The bytes from a to b are a stream of b - a of them.
LEMMA BytesType ==
  ASSUME NEW n \in Nat, NEW a \in Nat, NEW b \in Nat, a <= b
  PROVE  Bytes(n, a, b) \in Streams /\ Len(Bytes(n, a, b)) = b - a
<1>1. b - a \in Nat /\ Bytes(n, a, b) \in [1 .. b - a -> Byte]
  BY DEF Bytes, Byte
<1> QED
  BY <1>1 DEF Streams

\* There are none exactly when a is b.
LEMMA BytesEmpty ==
  ASSUME NEW n \in Nat, NEW a \in Nat, NEW b \in Nat, a <= b
  PROVE  Bytes(n, a, b) = <<>> <=> a = b
BY BytesType DEF Bytes, Streams, Byte

\* The first of them and the others
LEMMA BytesFirst ==
  ASSUME NEW n \in Nat, NEW a \in Nat, NEW b \in Nat, a < b
  PROVE  /\ Head(Bytes(n, a, b)) = <<n, a + 1>>
         /\ Tail(Bytes(n, a, b)) = Bytes(n, a + 1, b)
<1>1. Bytes(n, a, b) \in Streams /\ Len(Bytes(n, a, b)) = b - a
  BY BytesType
<1>2. Bytes(n, a + 1, b) \in Streams /\ Len(Bytes(n, a + 1, b)) = b - (a + 1)
  BY BytesType
<1>3. Head(Bytes(n, a, b)) = <<n, a + 1>>
  BY <1>1 DEF Bytes
<1>4. \A i \in 1 .. b - (a + 1) : Tail(Bytes(n, a, b))[i] = Bytes(n, a + 1, b)[i]
  BY <1>1 DEF Bytes
<1>5. Tail(Bytes(n, a, b)) \in Streams /\ Len(Tail(Bytes(n, a, b))) = b - (a + 1)
  BY <1>1 DEF Streams
<1> QED
  BY <1>2, <1>3, <1>4, <1>5, SeqEqual DEF Streams

\* One more
LEMMA BytesNext ==
  ASSUME NEW n \in Nat, NEW a \in Nat, NEW b \in Nat, a <= b
  PROVE  Append(Bytes(n, a, b), <<n, b + 1>>) = Bytes(n, a, b + 1)
<1>1. Bytes(n, a, b) \in Streams /\ Len(Bytes(n, a, b)) = b - a
  BY BytesType
<1>2. Bytes(n, a, b + 1) \in Streams /\ Len(Bytes(n, a, b + 1)) = b + 1 - a
  BY BytesType
<1> DEFINE s == Append(Bytes(n, a, b), <<n, b + 1>>)
<1>3. s \in Streams /\ Len(s) = b + 1 - a
  BY <1>1 DEF Streams, Byte
<1>4. \A i \in 1 .. b + 1 - a : s[i] = Bytes(n, a, b + 1)[i]
  BY <1>1 DEF Bytes
<1> QED
  BY <1>2, <1>3, <1>4, SeqEqual DEF Streams

\* The caller's buffer takes the first Cap of them.
LEMMA CappedBytes ==
  ASSUME UciAssumption, NEW n \in Nat, NEW a \in Nat, NEW b \in Nat, a <= b
  PROVE  Capped(Bytes(n, a, b)) = Bytes(n, a, IF b - a < Cap THEN b ELSE a + Cap)
<1> DEFINE c == IF b - a < Cap THEN b ELSE a + Cap
<1>1. Bytes(n, a, b) \in Streams /\ Len(Bytes(n, a, b)) = b - a
  BY BytesType
<1>2. c \in Nat /\ a <= c /\ c <= b /\ Cap \in Nat
  BY DEF UciAssumption
<1>3. Bytes(n, a, c) \in Streams /\ Len(Bytes(n, a, c)) = c - a
  BY <1>2, BytesType
<1>4. Capped(Bytes(n, a, b)) = SubSeq(Bytes(n, a, b), 1, c - a)
  BY <1>1, <1>2 DEF Capped
<1>5. Capped(Bytes(n, a, b)) = [i \in 1 .. c - a |-> Bytes(n, a, b)[i]]
  BY <1>1, <1>2, <1>4 DEF Streams
<1>6. [i \in 1 .. c - a |-> Bytes(n, a, b)[i]] = Bytes(n, a, c)
  BY <1>2 DEF Bytes
<1> QED
  BY <1>5, <1>6

LEMMA CappedNone ==
  ASSUME UciAssumption PROVE Capped(<<>>) = <<>>
BY DEF UciAssumption, Capped

\* A byte is kept while there is room.
LEMMA CappedNext ==
  ASSUME UciAssumption, NEW n \in Nat, NEW a \in Nat, NEW b \in Nat, a <= b,
         NEW s, s = Capped(Bytes(n, a, b))
  PROVE  /\ Len(s) < Cap <=> b - a < Cap
         /\ Len(s) < Cap => Append(s, <<n, b + 1>>) = Capped(Bytes(n, a, b + 1))
         /\ ~(Len(s) < Cap) => s = Capped(Bytes(n, a, b + 1))
<1>1. s = Bytes(n, a, IF b - a < Cap THEN b ELSE a + Cap)
  BY CappedBytes
<1>2. Capped(Bytes(n, a, b + 1)) = Bytes(n, a, IF b + 1 - a < Cap THEN b + 1 ELSE a + Cap)
  BY CappedBytes
<1>3. Cap \in Nat
  BY DEF UciAssumption
<1>4. CASE b - a < Cap
  <2>1. s = Bytes(n, a, b) /\ Len(s) = b - a
    BY <1>1, <1>4, BytesType
  <2>2. Capped(Bytes(n, a, b + 1)) = Bytes(n, a, b + 1)
    <3>1. CASE b + 1 - a < Cap
      BY <1>2, <3>1
    <3>2. CASE b + 1 - a = Cap
      <4>1. b + 1 = a + Cap /\ ~(b + 1 - a < Cap)
        BY <1>3, <3>2
      <4> QED
        BY <1>2, <4>1
    <3> QED
      BY <1>3, <1>4, <3>1, <3>2
  <2> QED
    BY <1>4, <2>1, <2>2, BytesNext
<1>5. CASE ~(b - a < Cap)
  <2>1. ~(b + 1 - a < Cap) /\ a + Cap \in Nat /\ a <= a + Cap
    BY <1>3, <1>5
  <2>2. s = Bytes(n, a, a + Cap)
    BY <1>1, <1>5
  <2>3. \A c \in Nat : a <= c => Len(Bytes(n, a, c)) = c - a
    BY BytesType
  <2>4. Len(s) = Cap
    BY <1>3, <2>1, <2>2, <2>3
  <2> QED
    BY <1>2, <1>3, <1>5, <2>1, <2>2, <2>4
<1> QED
  BY <1>4, <1>5

-----------------------------------------------------------------------------
(***************************************************************************)
(* Blocks of a response                                                    *)
(***************************************************************************)

\* The ends of the blocks come one after the other.
LEMMA Ends ==
  ASSUME store.resp \in Response, NEW k \in 0 .. Len(store.resp)
  PROVE  /\ End(k, "data") \in Nat /\ End(k, "stat") \in Nat
         /\ k > 0 => /\ k - 1 \in 0 .. Len(store.resp)
                     /\ End(k - 1, "data") \in Nat /\ End(k - 1, "stat") \in Nat
                     /\ End(k - 1, "data") <= End(k, "data")
                     /\ End(k - 1, "stat") <= End(k, "stat")
<1>1. /\ Len(store.resp) \in Nat
      /\ \A i \in 1 .. Len(store.resp) : store.resp[i].data \in Nat /\ store.resp[i].stat \in Nat
  <2>1. store.resp \in Seq([data : Nat, stat : Nat])
    BY DEF Response
  <2>2. \A i \in 1 .. Len(store.resp) : store.resp[i] \in [data : Nat, stat : Nat]
    BY <2>1, ElementOfSeq
  <2> QED
    BY <2>1, <2>2
<1>2. \A i \in 2 .. Len(store.resp) : /\ store.resp[i - 1].data <= store.resp[i].data
                                      /\ store.resp[i - 1].stat <= store.resp[i].stat
  BY DEF Response
<1>3. CASE k = 0
  BY <1>3 DEF End
<1>4. CASE k = 1
  BY <1>1, <1>4 DEF End
<1>5. CASE k > 1
  <2>1. k \in 2 .. Len(store.resp) /\ k - 1 \in 1 .. Len(store.resp) /\ k - 1 # 0 /\ k # 0
    BY <1>1, <1>5
  <2> QED
    BY <1>1, <1>2, <2>1 DEF End
<1> QED
  BY <1>3, <1>4, <1>5

\* The bytes of a block, and how many they are
LEMMA BlockBytes ==
  ASSUME store.resp \in Response, NEW k \in 1 .. Len(store.resp), NEW n \in Nat
  PROVE  /\ Block(n, k) \in Entry
         /\ Block(n, k).data = Bytes(n, End(k - 1, "data"), End(k, "data"))
         /\ Block(n, k).stat = Bytes(n, End(k - 1, "stat"), End(k, "stat"))
         /\ Len(Block(n, k).data) = End(k, "data") - End(k - 1, "data")
         /\ Len(Block(n, k).stat) = End(k, "stat") - End(k - 1, "stat")
<1>1. /\ End(k - 1, "data") \in Nat /\ End(k - 1, "stat") \in Nat
      /\ End(k, "data") \in Nat /\ End(k, "stat") \in Nat
      /\ End(k - 1, "data") <= End(k, "data") /\ End(k - 1, "stat") <= End(k, "stat")
  <2>1. store.resp \in Seq([data : Nat, stat : Nat])
    BY DEF Response
  <2>2. k \in 0 .. Len(store.resp) /\ k > 0
    BY <2>1
  <2> QED
    BY <2>2, Ends
<1>2. /\ Block(n, k).data = Bytes(n, End(k - 1, "data"), End(k, "data"))
      /\ Block(n, k).stat = Bytes(n, End(k - 1, "stat"), End(k, "stat"))
      /\ Block(n, k) = [data |-> Block(n, k).data, stat |-> Block(n, k).stat]
  BY DEF Block
<1>3. /\ Bytes(n, End(k - 1, "data"), End(k, "data")) \in Streams
      /\ Bytes(n, End(k - 1, "stat"), End(k, "stat")) \in Streams
      /\ Len(Bytes(n, End(k - 1, "data"), End(k, "data"))) = End(k, "data") - End(k - 1, "data")
      /\ Len(Bytes(n, End(k - 1, "stat"), End(k, "stat"))) = End(k, "stat") - End(k - 1, "stat")
  BY <1>1, BytesType
<1> QED
  BY <1>2, <1>3 DEF Entry

\* While the response stays the same, so do its blocks and their ends.
LEMMA SameBlocks ==
  ASSUME store'.resp = store.resp
  PROVE  /\ \A k : End(k, "data")' = End(k, "data") /\ End(k, "stat")' = End(k, "stat")
         /\ \A n, k : Block(n, k)' = Block(n, k)
         /\ \A n, h : Handing(n, h)' = Handing(n, h)
<1>1. /\ \A k : End(k, "data")' = End(k, "data") /\ End(k, "stat")' = End(k, "stat")
      /\ \A n, k : Block(n, k)' = Block(n, k)
  BY DEF End, Block
<1>2. \A n, h : Handing(n, h)' = Handing(n, h)
  BY <1>1 DEF Handing, Capped
<1> QED
  BY <1>1, <1>2

\* What was received is so still when as much was read and handed over.
LEMMA ReceivedKept ==
  ASSUME Received, ram' = ram, store'.resp = store.resp,
         HandedOver' = HandedOver, Read("data")' = Read("data"), Read("stat")' = Read("stat"),
         Queued("data")', Queued("stat")'
  PROVE  Received'
<1>1. \A k : End(k, "data")' = End(k, "data") /\ End(k, "stat")' = End(k, "stat")
  BY SameBlocks
<1>2. KeptAll' <=> KeptAll
  BY DEF KeptAll
<1>3. KeptBlock' <=> KeptBlock
  BY SameBlocks DEF KeptBlock, Capped
<1> QED
  BY <1>2, <1>3 DEF Received

-----------------------------------------------------------------------------
(***************************************************************************)
(* The device                                                              *)
(***************************************************************************)

LEMMA TakePushStep ==
  ASSUME UciAssumption, UInv, TakePush
  PROVE  UInv'
<1> USE DEF UInv, Typed
<1>1. PICK r \in Responses :
        store' = [store EXCEPT !.pend = @ \ {"push"}, !.state = "busy", !.resp = r,
                               !.next = 1, !.ran = Append(@, store.cmd)]
  BY DEF TakePush
<1>2. /\ "push" \in store.pend /\ store.state = "idle"
      /\ ram' = ram /\ todo' = todo /\ mode' = mode
  BY DEF TakePush
<1>3. r \in Response /\ r \in Seq([data : Nat, stat : Nat]) /\ Len(r) \in Nat \ {0}
  BY DEF UciAssumption, Response
<1>4. Typed'
  <2>1. Append(store.ran, store.cmd) \in Seq(Nat) /\ store.pend \ {"push"} \in SUBSET Bits
    BY DEF StoreTyped, Registers
  <2>2. StoreTyped'
    BY <1>1, <1>3, <2>1 DEF StoreTyped, Registers, States
  <2>3. MoreToCome'
    BY <1>1, <1>3 DEF MoreToCome, StoreTyped, Registers
  <2> QED
    BY <1>2, <2>2, <2>3 DEF RamTyped, TodoTyped, Adjacent
<1>5. store'.ran = Append(store.ran, store.cmd) /\ store.ran \in Seq(Nat)
  BY <1>1 DEF StoreTyped, Registers
<1>6. Numbered'
  <2>1. todo.pc # "push"
    BY <1>2 DEF Numbered, QuietIdle
  <2>2. store'.cmd <= ram.n /\ \A i \in DOMAIN store'.ran : store'.ran[i] <= ram.n
    BY <1>1, <1>5 DEF Numbered, StoreTyped, Registers
  <2>3. Before => store'.cmd < ram.n /\ NeverRan'
    BY <1>1, <1>2, <1>5 DEF Numbered, NeverRan, StoreTyped, Registers
  <2>4. ~store'.refused
    BY <1>1 DEF Numbered, StoreTyped, Registers
  <2> QED
    BY <1>2, <2>1, <2>2, <2>3, <2>4 DEF Numbered, Before
<1>7. CommandOK'
  <2> SUFFICES ASSUME todo.after = "command"
               PROVE  store'.cmd = ram.n /\ (RanOnce /\ Shown /\ AtBlock /\ Received)'
    BY <1>2 DEF CommandOK
  <2>1. Waiting /\ store.cmd = ram.n
    BY <1>2 DEF CommandOK, AtBlock
  <2>2. store'.cmd = ram.n
    BY <1>1, <2>1 DEF StoreTyped, Registers
  <2>3. RanOnce'
    <3>1. \A i \in DOMAIN store.ran : store.ran[i] # ram.n
      BY <2>1 DEF Waiting, NeverRan, RamTyped, StoreTyped, Registers
    <3>2. /\ DOMAIN store'.ran = 1 .. Len(store.ran) + 1
          /\ store'.ran[Len(store.ran) + 1] = ram.n
          /\ \A i \in 1 .. Len(store.ran) : store'.ran[i] # ram.n
      BY <1>5, <2>1, <3>1
    <3> QED
      BY <1>2, <1>5, <3>2 DEF RanOnce
  <2>4. /\ store'.state = "busy" /\ store'.next = 1 /\ store'.resp = r
        /\ store'.pend = {} /\ store'.data = <<>> /\ store'.stat = <<>>
    BY <1>1, <2>1 DEF StoreTyped, Registers, Waiting, NoBytes
  <2>5. Shown'
    BY <1>3, <2>4 DEF Shown, NoBytes, Published
  <2>6. AtBlock'
    BY <1>2, <2>1, <2>4 DEF AtBlock, Waiting, Responding
  <2>7. Received'
    <3>1. Published' = 0 /\ HandedOver' = 0
      BY <2>4 DEF Published, HandedOver, Responding
    <3>2. /\ End(Published, "data")' = 0 /\ End(HandedOver, "data")' = 0
          /\ End(Published, "stat")' = 0 /\ End(HandedOver, "stat")' = 0
      BY <3>1 DEF End
    <3>3. Read("data")' = 0 /\ Read("stat")' = 0
      BY <2>4, <3>2 DEF Read
    <3>4. ram.n \in Nat /\ ram = Transfer(ram.n, ram.each)
      BY <2>1 DEF RamTyped, Waiting
    <3>5. Bytes(ram.n, 0, 0) = <<>> /\ Len(Bytes(ram.n, 0, 0)) = 0
      BY <3>4, BytesEmpty
    <3>6. Capped(Bytes(ram.n, 0, 0)) = <<>>
      BY <3>5, CappedNone
    <3>7. Queued("data")' /\ Queued("stat")'
      BY <1>2, <2>4, <3>2, <3>3, <3>5 DEF Queued
    <3>8. ram.data = <<>> /\ ram.stat = <<>> /\ ram.handed = <<>> /\ ~ram.dropped
      BY <3>4 DEF Transfer
    <3>9. KeptAll'
      BY <1>2, <3>3, <3>5, <3>6, <3>8 DEF KeptAll, UciAssumption
    <3>10. KeptBlock'
      BY <1>2, <3>1, <3>2, <3>3, <3>5, <3>6, <3>8 DEF KeptBlock, Handing
    <3> QED
      BY <3>7, <3>9, <3>10 DEF Received
  <2> QED
    BY <2>2, <2>3, <2>5, <2>6, <2>7
<1>8. Reported'
  BY <1>2 DEF Reported, OkIsWhole, QuietIdle
<1>9. Calm'
  BY <1>1, <1>2 DEF Calm, StoreTyped, Registers, Adjacent
<1> QED
  BY <1>4, <1>6, <1>7, <1>8, <1>9

LEMMA PublishStep ==
  ASSUME UciAssumption, UInv, Publish
  PROVE  UInv'
<1> USE DEF UInv, Typed
<1> DEFINE b == Block(store.cmd, store.next)
<1>1. store' = [store EXCEPT
        !.state = IF store.next = Len(store.resp) THEN "last" ELSE "more",
        !.data = b.data, !.stat = b.stat, !.next = @ + 1]
  BY DEF Publish
<1>2. /\ store.state = "busy" /\ ~(Adjacent /\ todo.pc = "advance" /\ todo.old = "more")
      /\ ram' = ram /\ todo' = todo /\ mode' = mode
  BY DEF Publish
<1>3. /\ store.resp \in Response /\ store.next \in 1 .. Len(store.resp)
      /\ Len(store.resp) \in Nat /\ store.cmd \in Nat
  BY <1>2 DEF MoreToCome, StoreTyped, Registers
<1>4. /\ b.data \in Streams /\ b.stat \in Streams
      /\ Len(b.data) = End(store.next, "data") - End(store.next - 1, "data")
      /\ Len(b.stat) = End(store.next, "stat") - End(store.next - 1, "stat")
      /\ b.data = Bytes(store.cmd, End(store.next - 1, "data"), End(store.next, "data"))
      /\ b.stat = Bytes(store.cmd, End(store.next - 1, "stat"), End(store.next, "stat"))
  BY <1>3, BlockBytes DEF Entry
<1> HIDE DEF b
<1>5. /\ store'.state = IF store.next = Len(store.resp) THEN "last" ELSE "more"
      /\ store'.data = b.data /\ store'.stat = b.stat /\ store'.next = store.next + 1
      /\ store'.pend = store.pend /\ store'.error = store.error /\ store'.resp = store.resp
      /\ store'.cmd = store.cmd /\ store'.ran = store.ran /\ store'.refused = store.refused
      /\ store'.late = store.late /\ store'.errors = store.errors
  BY <1>1 DEF StoreTyped, Registers
<1>6. Typed'
  <2>1. store'.state \in States /\ store.next + 1 \in Nat
    BY <1>3, <1>5 DEF States
  <2>2. store' = [store EXCEPT !.state = store'.state, !.data = b.data, !.stat = b.stat,
                               !.next = store.next + 1]
    BY <1>1, <1>5 DEF StoreTyped, Registers
  <2>3. StoreTyped'
    BY <1>4, <2>1, <2>2 DEF StoreTyped, Registers
  <2>4. MoreToCome'
    BY <1>3, <1>5 DEF MoreToCome
  <2> QED
    BY <1>2, <2>3, <2>4 DEF RamTyped, TodoTyped, Adjacent
<1>7. Numbered'
  BY <1>2, <1>5 DEF Numbered, Before, NeverRan, QuietIdle
<1>8. CommandOK'
  <2> SUFFICES ASSUME todo.after = "command"
               PROVE  (RanOnce /\ Shown /\ AtBlock /\ Received)'
    BY <1>2, <1>5 DEF CommandOK
  <2>1. RanOnce /\ Shown /\ AtBlock /\ Received /\ store.cmd = ram.n
    BY <1>2 DEF CommandOK, Waiting
  <2>2. RanOnce'
    BY <1>2, <1>5, <2>1 DEF RanOnce
  <2>3. store.pend = {} /\ store.data = <<>> /\ store.stat = <<>>
    BY <1>2, <2>1 DEF AtBlock, Shown, NoBytes, TodoTyped
  <2>4. Shown'
    BY <1>2, <1>3, <1>5, <2>1 DEF Shown, Published
  <2>5. AtBlock'
    BY <1>2, <1>3, <1>5, <2>1, <2>3 DEF AtBlock, Responding, Adjacent
  <2>6. Received'
    <3>1. /\ Published = store.next - 1 /\ HandedOver = store.next - 1
          /\ Published' = store.next /\ HandedOver' = store.next - 1
      BY <1>2, <1>3, <1>5, <2>3 DEF Published, HandedOver, Responding
    <3>2. /\ \A k : End(k, "data")' = End(k, "data") /\ End(k, "stat")' = End(k, "stat")
      BY <1>5, SameBlocks
    <3>3. /\ End(store.next, "data") \in Nat /\ End(store.next, "stat") \in Nat
          /\ End(store.next - 1, "data") \in Nat /\ End(store.next - 1, "stat") \in Nat
      BY <1>3, Ends
    <3>4. /\ Read("data") = End(store.next - 1, "data") /\ Read("stat") = End(store.next - 1, "stat")
      BY <2>3, <3>1, <3>3 DEF Read
    <3>5. /\ Read("data")' = Read("data") /\ Read("stat")' = Read("stat")
      <4>1. /\ Read("data")' = End(store.next, "data") - Len(b.data)
            /\ Read("stat")' = End(store.next, "stat") - Len(b.stat)
        BY <1>5, <3>1, <3>2 DEF Read
      <4> QED
        BY <1>4, <3>3, <3>4, <4>1
    <3>6. Queued("data")' /\ Queued("stat")'
      BY <1>2, <1>4, <1>5, <2>1, <3>1, <3>2, <3>3, <3>4, <3>5 DEF Queued
    <3> QED
      BY <1>2, <1>5, <2>1, <3>1, <3>5, <3>6, ReceivedKept
  <2> QED
    BY <2>2, <2>4, <2>5, <2>6
<1>9. Reported'
  BY <1>2 DEF Reported, OkIsWhole, QuietIdle
<1>10. Calm'
  BY <1>2, <1>5 DEF Calm, Adjacent
<1> QED
  BY <1>6, <1>7, <1>8, <1>9, <1>10

LEMMA TakeAcceptStep ==
  ASSUME UciAssumption, UInv, TakeAccept
  PROVE  UInv'
<1> USE DEF UInv, Typed
<1> DEFINE next == CASE store.state = "more" -> "busy" [] store.state = "last" -> "idle"
                     [] OTHER -> store.state
<1>1. store' = [store EXCEPT !.pend = @ \ {"accept"}, !.data = <<>>, !.stat = <<>>,
                             !.state = next]
  BY DEF TakeAccept, StoreTyped, Registers
<1>2. "accept" \in store.pend /\ ram' = ram /\ todo' = todo /\ mode' = mode
  BY DEF TakeAccept
<1>3. /\ next \in States
      /\ store.state = "more" => next = "busy"
      /\ store.state = "last" => next = "idle"
      /\ next \in {"busy", "more"} => store.state \in {"busy", "more"}
  BY DEF StoreTyped, Registers, States
<1> HIDE DEF next
<1>4. /\ store'.state = next /\ store'.data = <<>> /\ store'.stat = <<>>
      /\ store'.next = store.next
      /\ store'.pend = store.pend \ {"accept"} /\ store'.error = store.error
      /\ store'.resp = store.resp /\ store'.cmd = store.cmd /\ store'.ran = store.ran
      /\ store'.refused = store.refused
      /\ store'.late = store.late /\ store'.errors = store.errors
  BY <1>1 DEF StoreTyped, Registers
<1>5. Typed'
  <2>1. store.pend \ {"accept"} \in SUBSET Bits /\ <<>> \in Streams
    BY DEF StoreTyped, Registers, Streams
  <2>2. StoreTyped'
    BY <1>1, <1>3, <2>1 DEF StoreTyped, Registers
  <2>3. MoreToCome'
    BY <1>3, <1>4 DEF MoreToCome
  <2> QED
    BY <1>2, <2>2, <2>3 DEF RamTyped, TodoTyped, Adjacent
<1>6. Numbered'
  BY <1>2, <1>4 DEF Numbered, Before, NeverRan, QuietIdle
<1>7. CommandOK'
  <2> SUFFICES ASSUME todo.after = "command"
               PROVE  (RanOnce /\ Shown /\ AtBlock /\ Received)'
    BY <1>2, <1>4 DEF CommandOK
  <2>1. RanOnce /\ Shown /\ AtBlock /\ Received /\ store.cmd = ram.n
    BY <1>2 DEF CommandOK, Waiting
  <2>2. RanOnce'
    BY <1>2, <1>4, <2>1 DEF RanOnce
  <2>3. /\ store.pend = {"accept"} /\ NoBytes /\ store.state = todo.old
        /\ todo.pc \in {"advance", "settle"} /\ store'.pend = {}
    BY <1>2, <1>4, <2>1 DEF AtBlock
  <2>4. \/ todo.pc = "advance" /\ store.state = "more" /\ store'.state = "busy"
        \/ todo.pc = "settle" /\ store.state = "last" /\ store'.state = "idle"
    BY <1>3, <1>4, <2>1, <2>3 DEF AtBlock
  <2>5. Shown'
    BY <1>2, <1>4, <2>1, <2>4 DEF Shown, Published, NoBytes, MoreToCome
  <2>6. AtBlock'
    BY <1>2, <2>1, <2>3, <2>4 DEF AtBlock, Responding
  <2>7. Received'
    <3>1. Published' = Published /\ HandedOver = Published /\ HandedOver' = Published
      BY <1>4, <2>3, <2>4 DEF Published, HandedOver, Responding
    <3>2. \A k : End(k, "data")' = End(k, "data") /\ End(k, "stat")' = End(k, "stat")
      BY <1>4, SameBlocks
    <3>3. Read("data")' = Read("data") /\ Read("stat")' = Read("stat")
      BY <1>4, <2>3, <3>1, <3>2 DEF Read, NoBytes
    <3>4. Queued("data")' /\ Queued("stat")'
      BY <1>2, <1>4, <2>1, <2>3, <3>1, <3>2, <3>3 DEF Queued, Received, NoBytes
    <3> QED
      BY <1>2, <1>4, <2>1, <3>1, <3>3, <3>4, ReceivedKept
  <2> QED
    BY <2>2, <2>5, <2>6, <2>7
<1>8. Reported'
  BY <1>2 DEF Reported, OkIsWhole, QuietIdle
<1>9. Calm'
  BY <1>2, <1>4 DEF Calm, Adjacent
<1> QED
  BY <1>5, <1>6, <1>7, <1>8, <1>9

LEMMA TakeAbortStep ==
  ASSUME UciAssumption, UInv, TakeAbort
  PROVE  UInv'
<1> USE DEF UInv, Typed
<1>1. PICK keep \in BOOLEAN :
        store' = [store EXCEPT
          !.pend = @ \ {"abort", "accept"}, !.state = "idle", !.next = 0,
          !.data = IF keep THEN @ ELSE <<>>, !.stat = IF keep THEN @ ELSE <<>>]
  BY DEF TakeAbort
<1>2. "abort" \in store.pend /\ ram' = ram /\ todo' = todo /\ mode' = mode
  BY DEF TakeAbort
<1>3. /\ store'.state = "idle" /\ store'.error = store.error
      /\ store'.resp = store.resp /\ store'.cmd = store.cmd /\ store'.ran = store.ran
      /\ store'.refused = store.refused
      /\ store'.late = store.late /\ store'.errors = store.errors
  BY <1>1 DEF StoreTyped, Registers
<1>4. todo.after # "command" /\ todo.pc # "push" /\ ram.result # "ok"
  BY <1>2 DEF CommandOK, Waiting, AtBlock, Numbered, Reported, OkIsWhole, QuietIdle
<1>5. Typed'
  <2>1. store.pend \ {"abort", "accept"} \in SUBSET Bits /\ <<>> \in Streams
    BY DEF StoreTyped, Registers, Streams
  <2>2. StoreTyped'
    BY <1>1, <2>1 DEF StoreTyped, Registers, States
  <2>3. MoreToCome'
    BY <1>3 DEF MoreToCome
  <2> QED
    BY <1>2, <2>2, <2>3 DEF RamTyped, TodoTyped, Adjacent
<1>6. Numbered'
  BY <1>2, <1>3, <1>4 DEF Numbered, Before, NeverRan
<1>7. CommandOK'
  BY <1>2, <1>4 DEF CommandOK
<1>8. Reported'
  BY <1>2, <1>4 DEF Reported
<1>9. Calm'
  BY <1>2, <1>3 DEF Calm, Adjacent
<1> QED
  BY <1>5, <1>6, <1>7, <1>8, <1>9

\* What a command has done and received does not depend on the error bit, and on
\* how often something went wrong.
LEMMA CommandKept ==
  ASSUME CommandOK, ram' = ram, todo' = todo, mode' = mode,
         store'.cmd = store.cmd, store'.ran = store.ran, store'.state = store.state,
         store'.pend = store.pend, store'.data = store.data, store'.stat = store.stat,
         store'.resp = store.resp, store'.next = store.next
  PROVE  CommandOK'
<1>1. NoBytes' <=> NoBytes
  BY DEF NoBytes
<1>2. Waiting' <=> Waiting
  BY <1>1 DEF Waiting, NeverRan
<1>3. (RanOnce' <=> RanOnce) /\ (Shown' <=> Shown) /\ (AtBlock' <=> AtBlock)
  BY <1>1 DEF RanOnce, Shown, AtBlock, Published, Responding, Adjacent
<1>4. Received => Received'
  <2> SUFFICES ASSUME Received PROVE Received'
    OBVIOUS
  <2>1. Published' = Published /\ HandedOver' = HandedOver
    BY DEF Published, HandedOver, Responding
  <2>2. \A k : End(k, "data")' = End(k, "data") /\ End(k, "stat")' = End(k, "stat")
    BY SameBlocks
  <2>3. Read("data")' = Read("data") /\ Read("stat")' = Read("stat")
    BY <2>1, <2>2 DEF Read
  <2>4. Queued("data")' /\ Queued("stat")'
    BY <2>1, <2>2, <2>3 DEF Received, Queued
  <2> QED
    BY <2>1, <2>3, <2>4, ReceivedKept
<1> QED
  BY <1>2, <1>3, <1>4 DEF CommandOK

LEMMA RaiseErrorStep ==
  ASSUME UciAssumption, UInv, RaiseError
  PROVE  UInv'
<1> USE DEF UInv, Typed
<1>1. /\ store' = [store EXCEPT !.error = TRUE, !.errors = @ + 1]
      /\ store.state # "idle" /\ ram' = ram /\ todo' = todo /\ mode' = mode
  BY DEF RaiseError
<1>2. /\ store'.state = store.state /\ store'.pend = store.pend /\ store'.data = store.data
      /\ store'.stat = store.stat /\ store'.next = store.next
      /\ store'.resp = store.resp /\ store'.cmd = store.cmd /\ store'.ran = store.ran
      /\ store'.refused = store.refused
      /\ store'.late = store.late /\ store'.errors = store.errors + 1
  BY <1>1 DEF StoreTyped, Registers
<1>3. todo.pc # "push" /\ ram.result # "ok"
  BY <1>1 DEF Numbered, Reported, OkIsWhole, QuietIdle
<1>4. Typed'
  <2>1. PICK e \in BOOLEAN : store' = [store EXCEPT !.error = e, !.errors = @ + 1]
    BY <1>1, Zenon
  <2> DEFINE raised == [store EXCEPT !.error = e]
  <2>2. raised \in Registers
    BY DEF StoreTyped, Registers
  <2>5. store.errors + 1 \in Nat
    BY DEF StoreTyped, Registers
  <2>3. \A r \in Registers, m \in Nat : [r EXCEPT !.errors = m] \in Registers
    BY DEF Registers
  <2>4. StoreTyped'
    BY <2>1, <2>2, <2>3, <2>5, Zenon DEF StoreTyped
  <2>6. MoreToCome'
    BY <1>2 DEF MoreToCome
  <2> QED
    BY <1>1, <2>4, <2>6 DEF RamTyped, TodoTyped, Adjacent
<1>5. Numbered'
  BY <1>1, <1>2, <1>3 DEF Numbered, Before, NeverRan
<1>6. CommandOK'
  BY <1>1, <1>2, CommandKept
<1>7. Reported'
  BY <1>1, <1>3 DEF Reported
<1>8. Calm'
  BY <1>1, <1>2 DEF Calm, StoreTyped, Registers
<1> QED
  BY <1>4, <1>5, <1>6, <1>7, <1>8

-----------------------------------------------------------------------------
(***************************************************************************)
(* The gateways                                                            *)
(***************************************************************************)

LEMMA CallStep ==
  ASSUME UciAssumption, UInv, Call
  PROVE  UInv'
<1> USE DEF UInv, Typed
<1>1. PICK each \in BOOLEAN :
        /\ each => mode \in {"uzip", "setup"}
        /\ ram' = Transfer(ram.n + 1, each)
  BY DEF Call
<1>2. /\ todo.pc = "done" /\ todo' = [pc |-> "sync", after |-> "first", old |-> "none"]
      /\ store' = store /\ mode' = mode
  BY DEF Call, Goto
<1>3. /\ ram'.n = ram.n + 1 /\ (ram'.each <=> each) /\ ram'.result = "none"
      /\ ram' = Transfer(ram'.n, ram'.each) /\ ram.n \in Nat
  BY <1>1 DEF Transfer, RamTyped
<1>4. Typed'
  <2>1. RamTyped'
    BY <1>1, <1>2, <1>3 DEF RamTyped, Transfer, Streams, Adjacent
  <2>2. TodoTyped'
    BY <1>2 DEF TodoTyped, Loops
  <2> QED
    BY <1>2, <2>1, <2>2 DEF StoreTyped, Registers, MoreToCome
<1>5. Numbered'
  BY <1>2, <1>3 DEF Numbered, Before, NeverRan, StoreTyped, Registers
<1>6. CommandOK'
  BY <1>2 DEF CommandOK
<1>7. Reported'
  BY <1>3 DEF Reported
<1>8. Calm'
  BY <1>2, <1>3 DEF Calm, Adjacent
<1> QED
  BY <1>4, <1>5, <1>6, <1>7, <1>8

\* The end of a sync, and of one that did not come to an end
LEMMA SyncedStep ==
  ASSUME UciAssumption, UInv, todo.pc = "sync", QuietIdle, NoBytes, Synced,
         store' = store, mode' = mode
  PROVE  UInv'
<1> USE DEF UInv, Typed
<1>1. CASE todo.after = "failed"
  <2>1. /\ ram' = [ram EXCEPT !.result = "failed"]
        /\ todo' = [pc |-> "done", after |-> "none", old |-> "none"]
    BY <1>1 DEF Synced, Finish, Goto
  <2>2. Typed'
    BY <2>1 DEF StoreTyped, Registers, MoreToCome, RamTyped, TodoTyped, Adjacent, Loops
  <2>3. Numbered'
    BY <2>1 DEF Numbered, Before, NeverRan, RamTyped
  <2>4. CommandOK' /\ Reported'
    BY <2>1 DEF CommandOK, Reported, RamTyped
  <2>5. Calm'
    BY <1>1, <2>1 DEF Calm, Adjacent
  <2> QED
    BY <2>2, <2>3, <2>4, <2>5
<1>2. CASE todo.after # "failed"
  <2>1. ram' = ram /\ todo' = [pc |-> "push", after |-> "none", old |-> "none"]
    BY <1>2 DEF Synced, Goto
  <2>2. Before
    BY <1>2 DEF Before, TodoTyped
  <2>3. Typed'
    BY <2>1 DEF StoreTyped, Registers, MoreToCome, RamTyped, TodoTyped, Adjacent, Loops
  <2>4. Numbered'
    BY <2>1, <2>2 DEF Numbered, Before, NeverRan, QuietIdle, NoBytes
  <2>5. CommandOK' /\ Reported'
    BY <2>1 DEF CommandOK, Reported, Numbered
  <2>6. Calm'
    BY <2>1 DEF Calm, Adjacent, QuietIdle
  <2> QED
    BY <2>3, <2>4, <2>5, <2>6
<1> QED
  BY <1>1, <1>2

\* A gateway that gives up what it was waiting for: it recovers, or it reports the
\* failure.  Something has gone wrong then.
LEMMA RecoverStep ==
  ASSUME UciAssumption, UInv, todo.pc # "done", NEW late \in Nat,
         store' = [store EXCEPT !.late = late], mode' = mode,
         ~(Adjacent /\ late = 0 /\ store.errors = 0),
         NEW after \in {"second", "failed"}, Recover(after),
         after = "second" => todo.after = "first"
  PROVE  UInv'
<1> USE DEF UInv, Typed
<1>1. ram' = ram /\ todo' = [pc |-> "recover", after |-> after, old |-> "none"]
  BY DEF Recover, Goto
<1>2. /\ store'.state = store.state /\ store'.pend = store.pend
      /\ store'.next = store.next /\ store'.errors = store.errors /\ store'.late = late
      /\ store'.resp = store.resp /\ store'.cmd = store.cmd /\ store'.ran = store.ran
      /\ store'.refused = store.refused
  BY DEF StoreTyped, Registers
<1>3. Typed'
  BY <1>1, <1>2 DEF StoreTyped, Registers, MoreToCome, RamTyped, TodoTyped, Adjacent, Loops
<1>4. Numbered'
  BY <1>1, <1>2 DEF Numbered, Before, NeverRan
<1>5. CommandOK' /\ Reported'
  BY <1>1 DEF CommandOK, Reported, Numbered
<1>6. Calm'
  BY <1>2 DEF Calm, Adjacent
<1> QED
  BY <1>3, <1>4, <1>5, <1>6

LEMMA FailStep ==
  ASSUME UciAssumption, UInv, todo.pc # "done", NEW late \in Nat,
         store' = [store EXCEPT !.late = late], mode' = mode,
         ~(Adjacent /\ late = 0 /\ store.errors = 0), Finish("failed")
  PROVE  UInv'
<1> USE DEF UInv, Typed
<1>1. /\ ram' = [ram EXCEPT !.result = "failed"]
      /\ todo' = [pc |-> "done", after |-> "none", old |-> "none"]
  BY DEF Finish, Goto
<1>2. /\ store'.state = store.state /\ store'.pend = store.pend
      /\ store'.next = store.next /\ store'.errors = store.errors /\ store'.late = late
      /\ store'.resp = store.resp /\ store'.cmd = store.cmd /\ store'.ran = store.ran
      /\ store'.refused = store.refused
  BY DEF StoreTyped, Registers
<1>3. Typed'
  BY <1>1, <1>2 DEF StoreTyped, Registers, MoreToCome, RamTyped, TodoTyped, Adjacent, Loops
<1>4. Numbered'
  BY <1>1, <1>2 DEF Numbered, Before, NeverRan, RamTyped
<1>5. CommandOK' /\ Reported'
  BY <1>1 DEF CommandOK, Reported, RamTyped
<1>6. Calm'
  BY <1>2 DEF Calm, Adjacent
<1> QED
  BY <1>3, <1>4, <1>5, <1>6

LEMMA NotSyncedStep ==
  ASSUME UciAssumption, UInv, todo.pc # "done", NEW late \in Nat,
         store' = [store EXCEPT !.late = late], mode' = mode,
         ~(Adjacent /\ late = 0 /\ store.errors = 0), NotSynced
  PROVE  UInv'
<1>1. CASE todo.after = "first" /\ mode # "launcher"
  BY <1>1, RecoverStep DEF NotSynced
<1>2. CASE ~(todo.after = "first" /\ mode # "launcher")
  BY <1>2, FailStep DEF NotSynced
<1> QED
  BY <1>1, <1>2

\* In a sync nothing counts that is in the registers.
LEMMA SyncingStep ==
  ASSUME UciAssumption, UInv, todo.pc \in {"sync", "recover", "advance"},
         todo.after # "command", ram' = ram, mode' = mode,
         StoreTyped',
         store'.state = store.state, store'.next = store.next, store'.resp = store.resp,
         store'.cmd = store.cmd, store'.ran = store.ran, store'.late = store.late,
         store'.errors = store.errors, store'.refused <=> store.refused,
         store'.error => store.error,
         NEW pc \in {"sync", "advance"}, NEW old \in {"none", "last", "more"},
         pc = "advance" => old # "none" /\ ~store.error,
         todo' = [pc |-> pc, after |-> todo.after, old |-> old]
  PROVE  UInv'
<1> USE DEF UInv, Typed
<1>1. todo.after \in {"first", "second", "failed"}
  BY DEF TodoTyped
<1>2. Typed'
  BY <1>1 DEF MoreToCome, RamTyped, TodoTyped, Adjacent, Loops, States
<1>3. Numbered'
  BY <1>1 DEF Numbered, Before, NeverRan
<1>4. CommandOK' /\ Reported'
  BY <1>1 DEF CommandOK, Reported, Numbered
<1>5. Calm'
  BY DEF Calm, Adjacent
<1> QED
  BY <1>2, <1>3, <1>4, <1>5

LEMMA SyncStep ==
  ASSUME UciAssumption, UInv, Sync
  PROVE  UInv'
<1> USE DEF UInv, Typed
<1>1. /\ todo.pc = "sync" /\ todo.after # "command" /\ mode' = mode
      /\ store.pend \cup {"accept"} \in SUBSET Bits
  BY DEF Sync, StoreTyped, Registers, Bits, TodoTyped
<1>2. todo = [pc |-> todo.pc, after |-> todo.after, old |-> todo.old]
  BY DEF TodoTyped
<1> DEFINE Still == ram' = ram /\ todo' = todo
<1>3. CASE store.error /\ store' = [store EXCEPT !.error = FALSE] /\ Still
  <2>1. PICK e \in BOOLEAN : ~e /\ store' = [store EXCEPT !.error = e]
    BY <1>3, Zenon
  <2>2. /\ StoreTyped' /\ store'.state = store.state /\ store'.next = store.next
        /\ store'.resp = store.resp /\ store'.cmd = store.cmd /\ store'.ran = store.ran
        /\ store'.late = store.late /\ store'.errors = store.errors
        /\ (store'.refused <=> store.refused)
    BY <2>1 DEF StoreTyped, Registers
  <2> QED
    BY <1>1, <1>3, <2>2 DEF MoreToCome, RamTyped, TodoTyped, Adjacent, Numbered, Before,
                            NeverRan, CommandOK, Reported, Calm
<1>4. CASE store.data # <<>> /\ store' = [store EXCEPT !.data = Tail(@)] /\ Still
  <2>1. Tail(store.data) \in Streams
    BY <1>4 DEF StoreTyped, Registers, Streams
  <2>2. /\ StoreTyped' /\ store'.state = store.state /\ store'.next = store.next
        /\ store'.resp = store.resp /\ store'.cmd = store.cmd /\ store'.ran = store.ran
        /\ store'.late = store.late /\ store'.errors = store.errors
        /\ (store'.refused <=> store.refused) /\ (store'.error <=> store.error)
    BY <1>4, <2>1 DEF StoreTyped, Registers
  <2> QED
    BY <1>1, <1>4, <2>2 DEF MoreToCome, RamTyped, TodoTyped, Adjacent, Numbered, Before,
                            NeverRan, CommandOK, Reported, Calm
<1>5. CASE store.stat # <<>> /\ store' = [store EXCEPT !.stat = Tail(@)] /\ Still
  <2>1. Tail(store.stat) \in Streams
    BY <1>5 DEF StoreTyped, Registers, Streams
  <2>2. /\ StoreTyped' /\ store'.state = store.state /\ store'.next = store.next
        /\ store'.resp = store.resp /\ store'.cmd = store.cmd /\ store'.ran = store.ran
        /\ store'.late = store.late /\ store'.errors = store.errors
        /\ (store'.refused <=> store.refused) /\ (store'.error <=> store.error)
    BY <1>5, <2>1 DEF StoreTyped, Registers
  <2> QED
    BY <1>1, <1>5, <2>2 DEF MoreToCome, RamTyped, TodoTyped, Adjacent, Numbered, Before,
                            NeverRan, CommandOK, Reported, Calm
<1>6. CASE /\ ~store.error /\ Responding /\ store' = Request("accept")
           /\ Goto("advance", todo.after, store.state) /\ UNCHANGED ram
  <2>1. /\ StoreTyped' /\ store'.state = store.state /\ store'.next = store.next
        /\ store'.resp = store.resp /\ store'.cmd = store.cmd /\ store'.ran = store.ran
        /\ store'.late = store.late /\ store'.errors = store.errors
        /\ (store'.refused <=> store.refused) /\ (store'.error <=> store.error)
    BY <1>1, <1>6 DEF StoreTyped, Registers, Request
  <2>2. store.state \in {"last", "more"}
    BY <1>6 DEF Responding
  <2> QED
    BY <1>1, <1>6, <2>1, <2>2, SyncingStep DEF Goto
<1>7. CASE NoBytes /\ QuietIdle /\ Synced /\ UNCHANGED store
  BY <1>1, <1>7, SyncedStep
<1> QED
  BY <1>3, <1>4, <1>5, <1>6, <1>7 DEF Sync, NoBytes

LEMMA AbortStep ==
  ASSUME UciAssumption, UInv, Abort
  PROVE  UInv'
<1> USE DEF UInv, Typed
<1>1. /\ todo.pc = "recover" /\ todo.after # "command"
      /\ store' = Request("abort") /\ ram' = ram /\ mode' = mode
      /\ todo' = [pc |-> "sync", after |-> todo.after, old |-> "none"]
  BY DEF Abort, Goto, TodoTyped
<1>2. store.pend \cup {"abort"} \in SUBSET Bits
  BY DEF StoreTyped, Registers, Bits
<1>3. /\ StoreTyped' /\ store'.state = store.state /\ store'.next = store.next
      /\ store'.resp = store.resp /\ store'.cmd = store.cmd /\ store'.ran = store.ran
      /\ store'.late = store.late /\ store'.errors = store.errors
      /\ (store'.refused <=> store.refused) /\ (store'.error <=> store.error)
  BY <1>1, <1>2 DEF StoreTyped, Registers, Request
<1> QED
  BY <1>1, <1>3, SyncingStep

\* A push into an interface at rest, which is how Numbered has it: the command waits
\* to be taken up.
LEMMA PushStep ==
  ASSUME UciAssumption, UInv, Push
  PROVE  UInv'
<1> USE DEF UInv, Typed
<1>1. /\ todo.pc = "push" /\ QuietIdle /\ NoBytes /\ Before /\ ram' = ram /\ mode' = mode
      /\ todo' = [pc |-> "response", after |-> "command", old |-> "none"]
  BY DEF Push, Goto, Numbered, Before
<1>2. store' = [Request("push") EXCEPT !.cmd = ram.n]
  BY <1>1 DEF Push
<1>3. store.pend = {} /\ store.pend \cup {"push"} \in SUBSET Bits /\ ram.n \in Nat
  BY <1>1 DEF QuietIdle, Bits, RamTyped
<1>4. StoreTyped'
  BY <1>2, <1>3 DEF Request, StoreTyped, Registers
<1>5. /\ store'.state = store.state /\ store'.pend = {"push"} /\ store'.next = store.next
      /\ store'.data = store.data /\ store'.stat = store.stat /\ store'.cmd = ram.n
      /\ store'.resp = store.resp /\ store'.ran = store.ran
      /\ (store'.error <=> store.error) /\ (store'.refused <=> store.refused)
      /\ store'.late = store.late /\ store'.errors = store.errors
  BY <1>2, <1>3 DEF Request, StoreTyped, Registers
<1>6. Typed'
  BY <1>1, <1>4, <1>5 DEF MoreToCome, RamTyped, TodoTyped, Adjacent, Loops
<1>7. Numbered'
  BY <1>1, <1>3, <1>5 DEF Numbered, Before
<1>8. CommandOK'
  <2>1. Waiting'
    BY <1>1, <1>5 DEF Numbered, Waiting, NeverRan, NoBytes, QuietIdle
  <2> QED
    BY <1>1, <1>5, <2>1 DEF CommandOK
<1>9. Reported'
  BY <1>1 DEF Reported, Numbered
<1>10. Calm'
  BY <1>1, <1>5 DEF Calm, Adjacent, QuietIdle
<1> QED
  BY <1>6, <1>7, <1>8, <1>9, <1>10

\* An error while a command is under way is not the first one: the gateway gives up.
LEMMA ErrorStep ==
  ASSUME UciAssumption, UInv, store.error, todo.pc \notin {"done", "sync"},
         store' = store, mode' = mode, NEW after \in {"second", "failed"}, Recover(after),
         after = "second" => todo.after = "first"
  PROVE  UInv'
<1> USE DEF UInv, Typed
<1>1. ~(Adjacent /\ store.late = 0 /\ store.errors = 0)
  BY DEF Calm
<1>2. store.late \in Nat /\ store' = [store EXCEPT !.late = store.late]
  BY DEF StoreTyped, Registers
<1> QED
  BY <1>1, <1>2, RecoverStep

\* Another loop of the command, in the same block
LEMMA LoopStep ==
  ASSUME UciAssumption, UInv, todo.after = "command", store' = store, ram' = ram,
         mode' = mode, TodoTyped', todo'.after = "command",
         todo'.pc \in Loops, ~Waiting, AtBlock', Shown'
  PROVE  UInv'
<1> USE DEF UInv, Typed
<1>1. Typed'
  BY DEF StoreTyped, Registers, MoreToCome, RamTyped, Adjacent
<1>2. Numbered'
  BY DEF Numbered, Before, NeverRan, TodoTyped, Loops
<1>3. CommandOK'
  <2>1. RanOnce /\ Received /\ store.cmd = ram.n
    BY DEF CommandOK
  <2>2. RanOnce'
    BY <2>1 DEF RanOnce
  <2>3. Received'
    <3>1. HandedOver' = HandedOver /\ Published' = Published
      BY DEF HandedOver, Published, Responding
    <3>2. Read("data")' = Read("data") /\ Read("stat")' = Read("stat")
      BY <3>1 DEF Read, End
    <3>3. Queued("data")' /\ Queued("stat")'
      BY <2>1, <3>1, <3>2 DEF Received, Queued, End
    <3> QED
      BY <2>1, <3>1, <3>2, <3>3, ReceivedKept
  <2> QED
    BY <2>1, <2>2, <2>3 DEF CommandOK
<1>4. Reported'
  BY DEF Reported, Numbered, TodoTyped
<1>5. Calm'
  BY DEF Calm, Adjacent, TodoTyped, Loops
<1> QED
  BY <1>1, <1>2, <1>3, <1>4, <1>5

LEMMA AwaitResponseStep ==
  ASSUME UciAssumption, UInv, AwaitResponse
  PROVE  UInv'
<1> USE DEF UInv, Typed
<1>1. todo.pc = "response" /\ todo.after = "command" /\ store' = store /\ mode' = mode
  BY DEF AwaitResponse, TodoTyped, Loops
<1>2. CASE store.error
  BY <1>1, <1>2, ErrorStep DEF AwaitResponse
<1>3. CASE ~store.error
  <2>1. /\ Responding /\ ram' = ram
        /\ todo' = [pc |-> "top", after |-> "command", old |-> "none"]
    BY <1>3 DEF AwaitResponse, Goto
  <2>2. ~Waiting /\ Shown /\ AtBlock
    BY <1>1, <2>1 DEF CommandOK, Waiting, Responding
  <2>3. TodoTyped' /\ todo'.pc \in Loops /\ todo'.after = "command"
    BY <2>1 DEF TodoTyped, Loops
  <2>4. Shown' /\ AtBlock'
    BY <1>1, <2>1, <2>2 DEF Shown, AtBlock, NoBytes, Published, Responding
  <2> QED
    BY <1>1, <1>3, <2>1, <2>2, <2>3, <2>4, LoopStep
<1> QED
  BY <1>2, <1>3

LEMMA SeeBlockStep ==
  ASSUME UciAssumption, UInv, SeeBlock
  PROVE  UInv'
<1> USE DEF UInv, Typed
<1>1. todo.pc = "top" /\ todo.after = "command" /\ store' = store /\ mode' = mode
  BY DEF SeeBlock, TodoTyped, Loops
<1>2. CASE store.error
  BY <1>1, <1>2, ErrorStep DEF SeeBlock
<1>3. CASE ~store.error
  <2>1. ~Waiting /\ Shown /\ AtBlock /\ Responding
    BY <1>1 DEF CommandOK, Waiting, AtBlock
  <2>2. ram' = ram /\ todo' = [pc |-> "drain", after |-> "command", old |-> store.state]
    BY <1>3, <2>1 DEF SeeBlock, Goto
  <2>3. TodoTyped' /\ todo'.pc \in Loops /\ todo'.after = "command"
    BY <2>1, <2>2 DEF TodoTyped, Loops, Responding, States
  <2>4. Shown' /\ AtBlock'
    BY <1>1, <2>1, <2>2 DEF Shown, AtBlock, NoBytes, Published, Responding
  <2> QED
    BY <1>1, <1>3, <2>1, <2>2, <2>3, <2>4, LoopStep
<1> QED
  BY <1>2, <1>3

\* The loop that takes a block: the device shows it, and it is not handed over yet.
LEMMA AtDrain ==
  ASSUME UciAssumption, UInv, todo.pc = "drain"
  PROVE  /\ RanOnce /\ Shown /\ AtBlock /\ Received /\ Responding
         /\ todo.after = "command" /\ store.cmd = ram.n /\ ram.result = "none"
         /\ store.pend = {} /\ store.state = todo.old
         /\ Published \in 1 .. Len(store.resp) /\ HandedOver = Published - 1
<1> USE DEF UInv, Typed
<1>1. todo.after = "command" /\ ram.result = "none"
  BY DEF TodoTyped, Loops, Numbered
<1>2. store.cmd = ram.n /\ RanOnce /\ Shown /\ AtBlock /\ Received
  BY <1>1 DEF CommandOK, Waiting
<1>3. Responding /\ store.pend = {} /\ store.state = todo.old
  BY <1>2 DEF AtBlock
<1>4. Len(store.resp) \in Nat \ {0}
  BY <1>2 DEF Shown, Response
<1>5. Published \in 1 .. Len(store.resp)
  BY <1>2, <1>3, <1>4 DEF Shown, Responding, Published, StoreTyped, Registers
<1> QED
  BY <1>1, <1>2, <1>3, <1>5 DEF HandedOver

\* The byte that is read is the next one of the response.
LEMMA QueuedNext ==
  ASSUME StoreTyped, ram.n \in Nat, store.resp \in Response,
         Published \in 1 .. Len(store.resp), HandedOver \in 0 .. Len(store.resp),
         NEW part \in {"data", "stat"}, Queued(part)
  PROVE  /\ Read(part) \in Nat /\ End(HandedOver, part) \in Nat
         /\ End(HandedOver, part) <= Read(part) /\ Read(part) <= End(Published, part)
         /\ End(Published, part) \in Nat
         /\ store[part] = <<>> <=> Read(part) = End(Published, part)
         /\ store[part] # <<>> =>
              /\ Head(store[part]) = <<ram.n, Read(part) + 1>>
              /\ Tail(store[part]) = Bytes(ram.n, Read(part) + 1, End(Published, part))
              /\ Tail(store[part]) \in Streams
              /\ End(Published, part) - Len(Tail(store[part])) = Read(part) + 1
<1>1. store[part] \in Streams /\ Len(store[part]) \in Nat
  BY DEF StoreTyped, Registers, Streams
<1>2. End(HandedOver, part) \in Nat /\ End(Published, part) \in Nat
  <2>1. Published \in 0 .. Len(store.resp)
    OBVIOUS
  <2>2. End(HandedOver, "data") \in Nat /\ End(HandedOver, "stat") \in Nat
    BY Ends
  <2>3. End(Published, "data") \in Nat /\ End(Published, "stat") \in Nat
    BY <2>1, Ends
  <2> QED
    BY <2>2, <2>3
<1>3. /\ Read(part) \in Nat /\ End(HandedOver, part) <= Read(part)
      /\ Read(part) <= End(Published, part)
  BY <1>1, <1>2 DEF Queued, Read
<1>4. store[part] = Bytes(ram.n, Read(part), End(Published, part))
  BY DEF Queued
<1>5. store[part] = <<>> <=> Read(part) = End(Published, part)
  BY <1>2, <1>3, <1>4, BytesEmpty
<1>6. ASSUME store[part] # <<>>
      PROVE  /\ Head(store[part]) = <<ram.n, Read(part) + 1>>
             /\ Tail(store[part]) = Bytes(ram.n, Read(part) + 1, End(Published, part))
             /\ Tail(store[part]) \in Streams
             /\ End(Published, part) - Len(Tail(store[part])) = Read(part) + 1
  <2>1. Read(part) < End(Published, part)
    BY <1>2, <1>3, <1>5, <1>6
  <2>2. /\ Head(store[part]) = <<ram.n, Read(part) + 1>>
        /\ Tail(store[part]) = Bytes(ram.n, Read(part) + 1, End(Published, part))
    BY <1>2, <1>3, <1>4, <2>1, BytesFirst
  <2>3. Read(part) + 1 \in Nat /\ Read(part) + 1 <= End(Published, part)
    BY <1>2, <1>3, <2>1
  <2>4. /\ Tail(store[part]) \in Streams
        /\ Len(Tail(store[part])) = End(Published, part) - (Read(part) + 1)
    BY <1>2, <2>2, <2>3, BytesType
  <2> QED
    BY <1>2, <1>3, <2>2, <2>4
<1> QED
  BY <1>2, <1>3, <1>5, <1>6

\* A byte of the block was read.
LEMMA DrainedStep ==
  ASSUME UciAssumption, UInv, todo.pc = "drain", todo' = todo, mode' = mode,
         StoreTyped', RamTyped', ram'.n = ram.n, ram'.result = ram.result,
         store'.state = store.state, store'.pend = store.pend, store'.next = store.next,
         store'.resp = store.resp, store'.cmd = store.cmd, store'.ran = store.ran,
         store'.late = store.late, store'.errors = store.errors,
         store'.refused <=> store.refused, store'.error <=> store.error, Received'
  PROVE  UInv'
<1> USE DEF UInv, Typed
<1>1. /\ RanOnce /\ Shown /\ AtBlock /\ Responding /\ store.pend = {}
      /\ store.cmd = ram.n /\ ram.result = "none" /\ todo.after = "command"
  BY AtDrain
<1>2. Typed'
  BY DEF TodoTyped, MoreToCome
<1>3. Numbered'
  BY <1>1 DEF Numbered, Before
<1>4. RanOnce' /\ Shown' /\ AtBlock'
  BY <1>1 DEF RanOnce, Shown, AtBlock, Responding, Published, Adjacent
<1>5. CommandOK' /\ Reported'
  BY <1>1, <1>4 DEF CommandOK, Reported
<1>6. Calm'
  BY <1>1 DEF Calm, Adjacent
<1> QED
  BY <1>2, <1>3, <1>5, <1>6

\* Where what the caller has of a response begins: with the response, or with the block
Begin(part) == IF ram.each THEN End(HandedOver, part) ELSE 0

\* What the caller has after a byte, from what it had
LEMMA DrainReceived ==
  ASSUME UciAssumption, Received, mode' = mode, store'.resp = store.resp,
         HandedOver' = HandedOver, ram'.n = ram.n, ram'.each <=> ram.each,
         ram'.handed = ram.handed, Queued("data")', Queued("stat")',
         ram'.data = Capped(Bytes(ram.n, Begin("data"), Read("data")')),
         ram'.stat = Bytes(ram.n, Begin("stat"), Read("stat")'),
         ram.each \/ (ram'.dropped <=> Read("data")' > Cap)
  PROVE  Received'
<1>1. /\ \A k : End(k, "data")' = End(k, "data") /\ End(k, "stat")' = End(k, "stat")
      /\ \A n, h : Handing(n, h)' = Handing(n, h)
  BY SameBlocks
<1>2. CASE ram.each
  <2>1. KeptBlock'
    BY <1>1, <1>2 DEF Received, KeptBlock, Begin, Capped
  <2> QED
    BY <1>2, <2>1 DEF Received
<1>3. CASE ~ram.each
  <2>1. KeptAll'
    BY <1>1, <1>3 DEF Received, KeptAll, Begin, Capped
  <2> QED
    BY <1>3, <2>1 DEF Received
<1> QED
  BY <1>2, <1>3

LEMMA DrainStep ==
  ASSUME UciAssumption, UInv, Drain
  PROVE  UInv'
<1> USE DEF UInv, Typed
<1>1. /\ RanOnce /\ Shown /\ AtBlock /\ Received /\ Responding
      /\ store.pend = {} /\ Published \in 1 .. Len(store.resp) /\ HandedOver = Published - 1
  BY AtDrain DEF Drain
<1>2. todo.pc = "drain" /\ todo' = todo /\ mode' = mode
  BY DEF Drain
<1>3. /\ store.resp \in Response /\ ram.n \in Nat /\ Len(store.resp) \in Nat
      /\ HandedOver \in 0 .. Len(store.resp) /\ Queued("data") /\ Queued("stat")
  BY <1>1 DEF Shown, RamTyped, Received, Response
<1>4. /\ End(Published, "data") \in Nat /\ End(Published, "stat") \in Nat
      /\ Read("data") \in Nat /\ Read("stat") \in Nat
      /\ End(HandedOver, "data") \in Nat /\ End(HandedOver, "data") <= Read("data")
      /\ End(HandedOver, "stat") \in Nat /\ End(HandedOver, "stat") <= Read("stat")
  BY <1>1, <1>3, QueuedNext
<1>5. /\ Begin("data") \in Nat /\ Begin("data") <= Read("data")
      /\ Begin("stat") \in Nat /\ Begin("stat") <= Read("stat")
  BY <1>4 DEF Begin
<1>6. /\ ram.data = Capped(Bytes(ram.n, Begin("data"), Read("data")))
      /\ ram.stat = Bytes(ram.n, Begin("stat"), Read("stat"))
      /\ ram.each \/ (ram.dropped <=> Read("data") > Cap)
  BY <1>1 DEF Received, KeptAll, KeptBlock, Begin
<1>7. CASE /\ store.data # <<>>
           /\ ram' = Kept(Head(store.data)) /\ store' = [store EXCEPT !.data = Tail(@)]
  <2>1. /\ Head(store.data) = <<ram.n, Read("data") + 1>>
        /\ Tail(store.data) = Bytes(ram.n, Read("data") + 1, End(Published, "data"))
        /\ Tail(store.data) \in Streams
        /\ End(Published, "data") - Len(Tail(store.data)) = Read("data") + 1
    <3>1. store["data"] # <<>>
      BY <1>7
    <3> QED
      BY <1>1, <1>3, <3>1, QueuedNext
  <2>2. /\ StoreTyped' /\ store'.data = Tail(store.data) /\ store'.stat = store.stat
        /\ store'.state = store.state /\ store'.pend = store.pend
        /\ store'.next = store.next /\ store'.resp = store.resp
        /\ store'.cmd = store.cmd /\ store'.ran = store.ran
        /\ store'.late = store.late /\ store'.errors = store.errors
        /\ (store'.refused <=> store.refused) /\ (store'.error <=> store.error)
    BY <1>7, <2>1 DEF StoreTyped, Registers
  <2>3. Published' = Published /\ HandedOver' = HandedOver
    BY <2>2 DEF Published, HandedOver, Responding
  <2>4. \A k : End(k, "data")' = End(k, "data") /\ End(k, "stat")' = End(k, "stat")
    BY <2>2, SameBlocks
  <2>5. Read("data")' = Read("data") + 1 /\ Read("stat")' = Read("stat")
    BY <2>1, <2>2, <2>3, <2>4 DEF Read
  <2>6. /\ RamTyped' /\ ram'.n = ram.n /\ (ram'.each <=> ram.each)
        /\ ram'.handed = ram.handed /\ ram'.stat = ram.stat /\ ram'.result = ram.result
        /\ ram'.data = Capped(Bytes(ram.n, Begin("data"), Read("data") + 1))
        /\ ram.each \/ (ram'.dropped <=> Read("data") + 1 > Cap)
    <3>1. /\ Len(ram.data) < Cap <=> Read("data") - Begin("data") < Cap
          /\ Len(ram.data) < Cap =>
               Append(ram.data, <<ram.n, Read("data") + 1>>) =
                 Capped(Bytes(ram.n, Begin("data"), Read("data") + 1))
          /\ ~(Len(ram.data) < Cap) =>
               ram.data = Capped(Bytes(ram.n, Begin("data"), Read("data") + 1))
      <4>1. \A a, b \in Nat :
              a <= b /\ ram.data = Capped(Bytes(ram.n, a, b)) =>
                /\ Len(ram.data) < Cap <=> b - a < Cap
                /\ Len(ram.data) < Cap =>
                     Append(ram.data, <<ram.n, b + 1>>) = Capped(Bytes(ram.n, a, b + 1))
                /\ ~(Len(ram.data) < Cap) => ram.data = Capped(Bytes(ram.n, a, b + 1))
        BY <1>3, CappedNext
      <4> QED
        BY <1>4, <1>5, <1>6, <4>1
    <3>2. Cap \in Nat /\ <<ram.n, Read("data") + 1>> \in Byte
      BY <1>3, <1>4 DEF UciAssumption, Byte
    <3>3. CASE Len(ram.data) < Cap
      <4>1. ram' = [ram EXCEPT !.data = Append(@, <<ram.n, Read("data") + 1>>)]
        BY <1>7, <2>1, <3>3 DEF Kept
      <4>2. Append(ram.data, <<ram.n, Read("data") + 1>>) \in Streams
        BY <3>2 DEF RamTyped, Streams
      <4>3. /\ RamTyped' /\ ram'.n = ram.n /\ (ram'.each <=> ram.each)
            /\ ram'.handed = ram.handed /\ ram'.stat = ram.stat /\ ram'.result = ram.result
            /\ ram'.data = Append(ram.data, <<ram.n, Read("data") + 1>>)
            /\ (ram'.dropped <=> ram.dropped)
        BY <1>2, <4>1, <4>2 DEF RamTyped, Adjacent
      <4>4. ram.each \/ (Read("data") + 1 > Cap <=> Read("data") > Cap)
        BY <1>4, <3>1, <3>2, <3>3 DEF Begin
      <4> QED
        BY <1>6, <3>1, <3>3, <4>3, <4>4
    <3>4. CASE ~(Len(ram.data) < Cap)
      <4>1. PICK d \in BOOLEAN : d /\ ram' = [ram EXCEPT !.dropped = d]
        BY <1>7, <3>4, Zenon DEF Kept
      <4>2. /\ RamTyped' /\ ram'.n = ram.n /\ (ram'.each <=> ram.each)
            /\ ram'.handed = ram.handed /\ ram'.stat = ram.stat /\ ram'.result = ram.result
            /\ ram'.data = ram.data /\ ram'.dropped
        BY <1>2, <4>1 DEF RamTyped, Adjacent
      <4>3. ram.each \/ Read("data") + 1 > Cap
        BY <1>4, <3>1, <3>2, <3>4 DEF Begin
      <4> QED
        BY <3>1, <3>4, <4>2, <4>3
    <3> QED
      BY <3>3, <3>4
  <2>7. Queued("data")' /\ Queued("stat")'
    BY <1>3, <1>4, <2>1, <2>2, <2>3, <2>4, <2>5, <2>6 DEF Queued
  <2>8. Received'
    BY <1>1, <1>2, <1>6, <2>2, <2>3, <2>5, <2>6, <2>7, DrainReceived
  <2> QED
    BY <1>2, <2>2, <2>6, <2>8, DrainedStep
<1>8. CASE /\ store.stat # <<>>
           /\ ram' = [ram EXCEPT !.stat = Append(@, Head(store.stat))]
           /\ store' = [store EXCEPT !.stat = Tail(@)]
  <2>1. /\ Head(store.stat) = <<ram.n, Read("stat") + 1>>
        /\ Tail(store.stat) = Bytes(ram.n, Read("stat") + 1, End(Published, "stat"))
        /\ Tail(store.stat) \in Streams
        /\ End(Published, "stat") - Len(Tail(store.stat)) = Read("stat") + 1
    <3>1. store["stat"] # <<>>
      BY <1>8
    <3> QED
      BY <1>1, <1>3, <3>1, QueuedNext
  <2>2. /\ StoreTyped' /\ store'.stat = Tail(store.stat) /\ store'.data = store.data
        /\ store'.state = store.state /\ store'.pend = store.pend
        /\ store'.next = store.next /\ store'.resp = store.resp
        /\ store'.cmd = store.cmd /\ store'.ran = store.ran
        /\ store'.late = store.late /\ store'.errors = store.errors
        /\ (store'.refused <=> store.refused) /\ (store'.error <=> store.error)
    BY <1>8, <2>1 DEF StoreTyped, Registers
  <2>3. Published' = Published /\ HandedOver' = HandedOver
    BY <2>2 DEF Published, HandedOver, Responding
  <2>4. \A k : End(k, "data")' = End(k, "data") /\ End(k, "stat")' = End(k, "stat")
    BY <2>2, SameBlocks
  <2>5. Read("stat")' = Read("stat") + 1 /\ Read("data")' = Read("data")
    BY <2>1, <2>2, <2>3, <2>4 DEF Read
  <2>6. /\ RamTyped' /\ ram'.n = ram.n /\ (ram'.each <=> ram.each)
        /\ ram'.handed = ram.handed /\ ram'.data = ram.data /\ ram'.result = ram.result
        /\ ram'.stat = Bytes(ram.n, Begin("stat"), Read("stat") + 1)
        /\ (ram'.dropped <=> ram.dropped)
    <3>1. Append(ram.stat, <<ram.n, Read("stat") + 1>>) =
            Bytes(ram.n, Begin("stat"), Read("stat") + 1)
      <4>1. \A a, b \in Nat :
              a <= b => Append(Bytes(ram.n, a, b), <<ram.n, b + 1>>) = Bytes(ram.n, a, b + 1)
        BY <1>3, BytesNext
      <4> QED
        BY <1>4, <1>5, <1>6, <4>1
    <3>2. Append(ram.stat, <<ram.n, Read("stat") + 1>>) \in Streams
      BY <1>3, <1>4 DEF RamTyped, Streams, Byte
    <3>3. ram' = [ram EXCEPT !.stat = Append(@, <<ram.n, Read("stat") + 1>>)]
      BY <1>8, <2>1
    <3> QED
      BY <1>2, <3>1, <3>2, <3>3 DEF RamTyped, Adjacent
  <2>7. Queued("data")' /\ Queued("stat")'
    BY <1>3, <1>4, <2>1, <2>2, <2>3, <2>4, <2>5, <2>6 DEF Queued
  <2>8. Received'
    BY <1>1, <1>2, <1>6, <2>2, <2>3, <2>5, <2>6, <2>7, DrainReceived
  <2> QED
    BY <1>2, <2>2, <2>6, <2>8, DrainedStep
<1> QED
  BY <1>7, <1>8 DEF Drain

LEMMA DrainErrorStep ==
  ASSUME UciAssumption, UInv, DrainError
  PROVE  UInv'
BY ErrorStep DEF DrainError

\* A block more that was handed over
LEMMA HandingNext ==
  ASSUME NEW n \in Nat, NEW h \in Nat, NEW s \in Seq(Entry), s = Handing(n, h)
  PROVE  Append(s, [data |-> Capped(Block(n, h + 1).data), stat |-> Block(n, h + 1).stat]) =
           Handing(n, h + 1)
<1> DEFINE e(k) == [data |-> Capped(Block(n, k).data), stat |-> Block(n, k).stat]
<1>1. Handing(n, h) = [k \in 1 .. h |-> e(k)] /\ Handing(n, h + 1) = [k \in 1 .. h + 1 |-> e(k)]
  BY DEF Handing
<1> HIDE DEF e
<1>2. Len(s) = h /\ \A k \in 1 .. h : s[k] = e(k)
  BY <1>1
<1>3. Append(s, e(h + 1)) = [k \in 1 .. h + 1 |-> e(k)]
  BY <1>2
<1> QED
  BY <1>1, <1>3 DEF e

LEMMA AcceptStep ==
  ASSUME UciAssumption, UInv, Accept
  PROVE  UInv'
<1> USE DEF UInv, Typed
<1>1. /\ RanOnce /\ Shown /\ AtBlock /\ Received /\ Responding
      /\ todo.after = "command" /\ store.cmd = ram.n /\ ram.result = "none"
      /\ store.pend = {} /\ store.state = todo.old
      /\ Published \in 1 .. Len(store.resp) /\ HandedOver = Published - 1
  BY AtDrain DEF Accept
<1> DEFINE pc == IF todo.old = "last" THEN "settle" ELSE "advance"
<1>2. /\ todo.pc = "drain" /\ NoBytes /\ ~store.error
      /\ mode' = mode /\ ram' = Handed /\ store' = Request("accept")
      /\ todo' = [pc |-> pc, after |-> "command", old |-> todo.old]
  BY DEF Accept, Goto, NoBytes
<1>3. /\ store.resp \in Response /\ ram.n \in Nat /\ Len(store.resp) \in Nat
      /\ HandedOver \in 0 .. Len(store.resp) /\ Queued("data") /\ Queued("stat")
  BY <1>1 DEF Shown, RamTyped, Received, Response
<1>4. /\ End(Published, "data") \in Nat /\ End(Published, "stat") \in Nat
      /\ Read("data") = End(Published, "data") /\ Read("stat") = End(Published, "stat")
  <2>1. store["data"] = <<>> /\ store["stat"] = <<>>
    BY <1>2 DEF NoBytes
  <2> QED
    BY <1>1, <1>3, <2>1, QueuedNext
<1>5. /\ StoreTyped' /\ store'.pend = {"accept"} /\ store'.data = <<>> /\ store'.stat = <<>>
      /\ store'.state = store.state
      /\ store'.next = store.next /\ store'.resp = store.resp
      /\ store'.cmd = store.cmd /\ store'.ran = store.ran
      /\ store'.late = store.late /\ store'.errors = store.errors
      /\ (store'.refused <=> store.refused) /\ (store'.error <=> store.error)
  <2>1. store.pend \cup {"accept"} = {"accept"} /\ {"accept"} \in SUBSET Bits
    BY <1>1 DEF Bits
  <2>2. store' = [store EXCEPT !.pend = {"accept"}]
    BY <1>2, <2>1 DEF Request
  <2> QED
    BY <1>2, <2>1, <2>2 DEF StoreTyped, Registers, NoBytes
<1>6. Published' = Published /\ HandedOver' = Published
  BY <1>5 DEF Published, HandedOver
<1>7. /\ \A k : End(k, "data")' = End(k, "data") /\ End(k, "stat")' = End(k, "stat")
      /\ \A n, h : Handing(n, h)' = Handing(n, h)
  BY <1>5, SameBlocks
<1>8. Read("data")' = End(Published, "data") /\ Read("stat")' = End(Published, "stat")
  BY <1>4, <1>5, <1>6, <1>7 DEF Read
<1>9. /\ Bytes(ram.n, End(Published, "data"), End(Published, "data")) = <<>>
      /\ Bytes(ram.n, End(Published, "stat"), End(Published, "stat")) = <<>>
  BY <1>3, <1>4, BytesEmpty
<1>10. /\ RamTyped' /\ ram'.n = ram.n /\ (ram'.each <=> ram.each) /\ ram'.result = "none"
       /\ IF ram.each THEN KeptBlock' ELSE KeptAll'
  <2>1. CASE ~ram.each
    <3>1. ram' = ram /\ KeptAll
      BY <1>1, <1>2, <2>1 DEF Handed, Received
    <3>2. KeptAll'
      BY <1>4, <1>8, <3>1 DEF KeptAll, Capped
    <3> QED
      BY <1>1, <1>2, <2>1, <3>1, <3>2 DEF RamTyped, Adjacent
  <2>2. CASE ram.each
    <3> DEFINE entry == [data |-> ram.data, stat |-> ram.stat]
    <3>1. /\ ram' = [ram EXCEPT !.handed = Append(@, entry), !.data = <<>>, !.stat = <<>>]
          /\ KeptBlock
      BY <1>1, <1>2, <2>2 DEF Handed, Received
    <3>2. entry \in Entry /\ Append(ram.handed, entry) \in Seq(Entry) /\ <<>> \in Streams
      BY DEF RamTyped, Entry, Streams
    <3>3. entry = [data |-> Capped(Block(ram.n, Published).data),
                   stat |-> Block(ram.n, Published).stat]
      <4>1. /\ Block(ram.n, Published).data =
                 Bytes(ram.n, End(Published - 1, "data"), End(Published, "data"))
            /\ Block(ram.n, Published).stat =
                 Bytes(ram.n, End(Published - 1, "stat"), End(Published, "stat"))
        BY DEF Block
      <4> QED
        BY <1>1, <1>4, <3>1, <4>1 DEF KeptBlock
    <3> HIDE DEF entry
    <3>4. /\ RamTyped' /\ ram'.n = ram.n /\ (ram'.each <=> ram.each) /\ ram'.result = "none"
          /\ ram'.handed = Append(ram.handed, entry) /\ ram'.data = <<>> /\ ram'.stat = <<>>
      BY <1>1, <1>2, <3>1, <3>2 DEF RamTyped, Adjacent
    <3>5. Append(ram.handed, entry) = Handing(ram.n, Published)
      <4>1. Published - 1 \in Nat /\ Published = (Published - 1) + 1
        BY <1>1, <1>3
      <4>2. ram.handed = Handing(ram.n, Published - 1) /\ ram.handed \in Seq(Entry)
        BY <1>1, <3>1 DEF KeptBlock, RamTyped
      <4>3. \A h \in Nat :
              ram.handed = Handing(ram.n, h) =>
                Append(ram.handed, [data |-> Capped(Block(ram.n, h + 1).data),
                                    stat |-> Block(ram.n, h + 1).stat]) =
                  Handing(ram.n, h + 1)
        BY <1>3, <4>2, HandingNext
      <4> QED
        BY <3>3, <4>1, <4>2, <4>3
    <3>6. KeptBlock'
      BY <1>6, <1>7, <1>8, <1>9, <3>4, <3>5, CappedNone DEF KeptBlock, Capped
    <3> QED
      BY <2>2, <3>4, <3>6
  <2> QED
    BY <2>1, <2>2
<1>11. Typed'
  <2>1. TodoTyped'
    BY <1>1, <1>2 DEF TodoTyped, Loops, Responding, States
  <2> QED
    BY <1>5, <1>10, <2>1 DEF MoreToCome
<1>12. Numbered'
  BY <1>1, <1>2, <1>5, <1>10 DEF Numbered, Before
<1>13. CommandOK'
  <2>1. RanOnce'
    BY <1>1, <1>5, <1>10 DEF RanOnce
  <2>2. Shown'
    BY <1>1, <1>2, <1>5, <1>6 DEF Shown, Responding, NoBytes
  <2>3. AtBlock'
    BY <1>1, <1>2, <1>5 DEF AtBlock, Responding, NoBytes
  <2>4. Queued("data")' /\ Queued("stat")'
    BY <1>3, <1>4, <1>5, <1>6, <1>7, <1>8, <1>9, <1>10 DEF Queued
  <2>5. Received'
    BY <1>10, <2>4 DEF Received
  <2> QED
    BY <1>1, <1>2, <1>5, <1>10, <2>1, <2>2, <2>3, <2>5 DEF CommandOK
<1>14. Reported'
  BY <1>10 DEF Reported
<1>15. Calm'
  BY <1>2, <1>5, <1>10 DEF Calm, Adjacent
<1> QED
  BY <1>11, <1>12, <1>13, <1>14, <1>15


LEMMA AwaitAdvanceStep ==
  ASSUME UciAssumption, UInv, AwaitAdvance
  PROVE  UInv'
<1> USE DEF UInv, Typed
<1>1. /\ todo.pc = "advance" /\ store' = store /\ mode' = mode
      /\ store.late \in Nat /\ store' = [store EXCEPT !.late = store.late]
  BY DEF AwaitAdvance, StoreTyped, Registers
<1>2. CASE store.error /\ ~(Adjacent /\ todo.old = "more")
  <2>1. CASE todo.after = "command"
    BY <1>1, <1>2, <2>1, ErrorStep DEF AwaitAdvance
  <2>2. CASE todo.after # "command"
    <3>1. NotSynced /\ ~(Adjacent /\ store.late = 0 /\ store.errors = 0)
      BY <1>1, <1>2, <2>2 DEF AwaitAdvance, Calm
    <3> QED
      BY <1>1, <3>1, NotSyncedStep
  <2> QED
    BY <2>1, <2>2
<1>3. CASE ~(store.error /\ ~(Adjacent /\ todo.old = "more"))
  <2>1. /\ store.state # todo.old /\ ram' = ram
        /\ Goto(IF todo.after = "command" THEN "response" ELSE "sync", todo.after, "none")
    BY <1>3 DEF AwaitAdvance, Advanced
  <2>2. CASE todo.after = "command"
    <3>1. todo' = [pc |-> "response", after |-> "command", old |-> "none"]
      BY <2>1, <2>2 DEF Goto
    <3>2. ~Waiting /\ Shown /\ AtBlock /\ store.pend = {} /\ store.state # "idle"
      BY <1>1, <2>1, <2>2 DEF CommandOK, Waiting, AtBlock, Shown
    <3>3. TodoTyped' /\ todo'.pc \in Loops /\ todo'.after = "command"
      BY <3>1 DEF TodoTyped, Loops
    <3>4. Shown' /\ AtBlock'
      BY <1>1, <3>1, <3>2 DEF Shown, AtBlock, NoBytes, Published, Responding
    <3> QED
      BY <1>1, <2>1, <2>2, <3>2, <3>3, <3>4, LoopStep
  <2>3. CASE todo.after # "command"
    <3>1. todo' = [pc |-> "sync", after |-> todo.after, old |-> "none"]
      BY <2>1, <2>3 DEF Goto
    <3>2. StoreTyped'
      BY <1>1 DEF StoreTyped, Registers
    <3> QED
      BY <1>1, <2>1, <2>3, <3>1, <3>2, SyncingStep
  <2> QED
    BY <2>2, <2>3
<1> QED
  BY <1>2, <1>3


\* The last block was accepted and the interface is at rest: all blocks were read.
LEMMA SettleStep ==
  ASSUME UciAssumption, UInv, Settle
  PROVE  UInv'
<1> USE DEF UInv, Typed
<1>1. todo.pc = "settle" /\ todo.after = "command" /\ store' = store /\ mode' = mode
  BY DEF Settle, TodoTyped, Loops
<1>2. CASE store.error
  BY <1>1, <1>2, ErrorStep DEF Settle
<1>3. CASE ~store.error
  <2>1. /\ QuietIdle /\ ram' = [ram EXCEPT !.result = "ok"]
        /\ todo' = [pc |-> "done", after |-> "none", old |-> "none"]
    BY <1>3 DEF Settle, Finish, Goto
  <2>2. /\ RamTyped' /\ ram'.n = ram.n /\ (ram'.each <=> ram.each) /\ ram'.result = "ok"
        /\ ram'.data = ram.data /\ ram'.stat = ram.stat /\ ram'.handed = ram.handed
        /\ (ram'.dropped <=> ram.dropped)
    BY <1>1, <2>1 DEF RamTyped, Adjacent
  <2>3. RanOnce /\ Shown /\ Received
    BY <1>1 DEF CommandOK, Waiting
  <2>4. /\ store.state = "idle" /\ NoBytes /\ store.resp \in Response
        /\ Published = Len(store.resp) /\ HandedOver = Published
    BY <2>1, <2>3 DEF QuietIdle, Shown, HandedOver, Responding
  <2>5. Len(store.resp) \in Nat /\ DOMAIN store.resp = 1 .. Len(store.resp) /\ ram.n \in Nat
    BY <2>4 DEF Response, RamTyped
  <2>6. /\ End(Len(store.resp), "data") \in Nat /\ End(Len(store.resp), "stat") \in Nat
        /\ Read("data") = End(Len(store.resp), "data")
        /\ Read("stat") = End(Len(store.resp), "stat")
    <3>1. End(Len(store.resp), "data") \in Nat /\ End(Len(store.resp), "stat") \in Nat
      <4>1. \A k \in 0 .. Len(store.resp) : End(k, "data") \in Nat /\ End(k, "stat") \in Nat
        BY <2>4, Ends
      <4> QED
        BY <2>5, <4>1
    <3> QED
      BY <2>4, <3>1 DEF Read, NoBytes
  <2>7. Len(Whole("data")) = End(Len(store.resp), "data")
    <3>1. \A b \in Nat : Len(Bytes(ram.n, 0, b)) = b
      <4> TAKE b \in Nat
      <4>1. 0 \in Nat /\ 0 <= b /\ b - 0 = b
        OBVIOUS
      <4> QED
        BY <2>5, <4>1, BytesType
    <3> QED
      BY <2>6, <3>1 DEF Whole
  <2>8. Cardinality({i \in DOMAIN store.ran : store.ran[i] = ram.n}) = 1
    <3>1. PICK i : {j \in DOMAIN store.ran : store.ran[j] = ram.n} = {i}
      BY <2>3 DEF RanOnce
    <3> QED
      BY <3>1, FS_Singleton
  <2>9. /\ ram.each => ram.handed = Handing(ram.n, Len(store.resp))
        /\ ~ram.each => /\ ram.data = Capped(Whole("data")) /\ ram.stat = Whole("stat")
                        /\ ram.dropped <=> Len(Whole("data")) > Cap
    BY <2>3, <2>4, <2>6, <2>7 DEF Received, KeptBlock, KeptAll, Whole
  <2>10. OkIsWhole'
    <3>1. Whole("data")' = Whole("data") /\ Whole("stat")' = Whole("stat")
      BY <1>1, <2>2 DEF Whole, End
    <3>2. Cardinality({i \in DOMAIN store.ran : store.ran[i] = ram.n})' = 1
      BY <1>1, <2>2, <2>8
    <3>3. QuietIdle' /\ store'.data = <<>> /\ store'.stat = <<>>
      BY <1>1, <2>1, <2>4 DEF QuietIdle, NoBytes
    <3>4. ram.each => ram'.handed = [k \in DOMAIN store.resp |->
                                       [data |-> Capped(Block(ram.n, k).data),
                                        stat |-> Block(ram.n, k).stat]]
      BY <2>2, <2>5, <2>9 DEF Handing
    <3>5. \A n, k : Block(n, k)' = Block(n, k)
      BY <1>1, SameBlocks
    <3> QED
      BY <1>1, <2>2, <2>9, <3>1, <3>2, <3>3, <3>4, <3>5 DEF OkIsWhole, Capped
  <2>11. Typed'
    BY <1>1, <2>1, <2>2 DEF StoreTyped, Registers, MoreToCome, TodoTyped, Loops
  <2>12. Numbered'
    BY <1>1, <2>1, <2>2 DEF Numbered, Before
  <2>13. CommandOK'
    BY <2>1 DEF CommandOK
  <2>14. Reported'
    BY <1>1, <2>1, <2>2, <2>3, <2>10 DEF Reported, RanOnce
  <2>15. Calm'
    BY <1>1, <1>3, <2>1, <2>2 DEF Calm, Adjacent
  <2> QED
    BY <2>11, <2>12, <2>13, <2>14, <2>15
<1> QED
  BY <1>2, <1>3

LEMMA LateStep ==
  ASSUME UciAssumption, UInv, Late
  PROVE  UInv'
<1>1. PICK late \in Nat : late > 0 /\ store' = [store EXCEPT !.late = late]
  <2>1. store.late + 1 \in Nat /\ store.late + 1 > 0
    BY DEF UInv, Typed, StoreTyped, Registers
  <2> QED
    BY <2>1 DEF Late
<1>2. mode' = mode /\ ~(Adjacent /\ late = 0 /\ store.errors = 0)
  BY <1>1 DEF Late
<1>3. ASSUME todo.pc # "done", NotSynced PROVE UInv'
  BY <1>1, <1>2, <1>3, NotSyncedStep
<1>4. ASSUME todo.pc # "done", Recover("failed") PROVE UInv'
  BY <1>1, <1>2, <1>4, RecoverStep
<1> QED
  BY <1>3, <1>4 DEF Late

-----------------------------------------------------------------------------
(***************************************************************************)
(* The specification                                                       *)
(***************************************************************************)

LEMMA InitStep ==
  ASSUME UciAssumption, Init
  PROVE  UInv
<1>1. /\ ram = Transfer(0, FALSE) /\ todo = [pc |-> "done", after |-> "none", old |-> "none"]
      /\ store \in LeftBehind
  BY DEF Init
<1>2. /\ ram.n = 0 /\ ~ram.each /\ ram.data = <<>> /\ ram.stat = <<>> /\ ram.handed = <<>>
      /\ ~ram.dropped /\ ram.result = "none"
  BY <1>1 DEF Transfer
<1>3. RamTyped /\ TodoTyped
  BY <1>1, <1>2 DEF RamTyped, TodoTyped, Transfer, Streams, Loops, States
<1>4. StoreTyped /\ MoreToCome /\ store.cmd = 0 /\ store.ran = <<>> /\ ~store.refused
  <2> DEFINE Kind(r) == /\ r \in Registers
                        /\ r.state \in {"busy", "more"} =>
                             r.resp \in Response /\ r.next \in 1 .. Len(r.resp)
                        /\ r.cmd = 0 /\ r.ran = <<>> /\ ~r.refused
  <2>1. Left \in Registers /\ Kind(Left) /\ Left.state = "idle"
    BY DEF Left, Registers, Streams, States, Bits
  <2>2. Kind([Left EXCEPT !.error = TRUE])
    <3>1. \A e \in BOOLEAN : Kind([Left EXCEPT !.error = e])
      BY <2>1 DEF Registers
    <3> QED
      BY <3>1, Zenon
  <2>3. Kind([Left EXCEPT !.state = "last", !.data = <<<<0, 1>>>>])
    <3>1. <<<<0, 1>>>> \in Streams
      BY DEF Streams, Byte
    <3> QED
      BY <2>1, <3>1 DEF Registers, States
  <2>4. Kind([Left EXCEPT !.state = "busy", !.resp = <<[data |-> 1, stat |-> 1]>>, !.next = 1])
    <3> DEFINE one == <<[data |-> 1, stat |-> 1]>>
    <3>1. one \in Seq([data : Nat, stat : Nat]) /\ Len(one) = 1 /\ one # <<>>
      OBVIOUS
    <3>2. one \in Response
      BY <3>1 DEF Response
    <3>3. \A r \in Seq([data : Nat, stat : Nat]) :
            r \in Response /\ Len(r) = 1 =>
              Kind([Left EXCEPT !.state = "busy", !.resp = r, !.next = 1])
      <4> TAKE r \in Seq([data : Nat, stat : Nat])
      <4> DEFINE busy == [Left EXCEPT !.state = "busy", !.resp = r, !.next = 1]
      <4>1. busy \in Registers
        BY <2>1 DEF Registers, States
      <4>2. busy.resp = r /\ busy.next = 1 /\ busy.cmd = 0 /\ busy.ran = <<>> /\ ~busy.refused
        BY <2>1 DEF Registers
      <4> HIDE DEF busy
      <4>3. r \in Response /\ Len(r) = 1 => Kind(busy)
        BY <4>1, <4>2
      <4> QED
        BY <4>3 DEF busy
    <3> QED
      BY <3>1, <3>2, <3>3, Zenon
  <2>5. Kind(store)
    BY <1>1, <2>1, <2>2, <2>3, <2>4, Zenon DEF LeftBehind
  <2> QED
    BY <2>5 DEF StoreTyped, MoreToCome
<1>5. Numbered
  <2>1. ~Before /\ DOMAIN store.ran = {}
    BY <1>1, <1>4 DEF Before
  <2>2. store.cmd <= ram.n /\ \A i \in DOMAIN store.ran : store.ran[i] <= ram.n
    BY <1>2, <1>4, <2>1
  <2> QED
    BY <1>1, <1>4, <2>1, <2>2 DEF Numbered
<1>6. CommandOK /\ Reported /\ Calm
  BY <1>1, <1>2 DEF CommandOK, Reported, Calm
<1> QED
  BY <1>3, <1>4, <1>5, <1>6 DEF UInv, Typed

\* Every step of the device and of the gateways keeps the invariant.
LEMMA NextStep ==
  ASSUME UciAssumption, UInv, Next
  PROVE  UInv'
BY TakePushStep, PublishStep, TakeAcceptStep, TakeAbortStep, RaiseErrorStep, CallStep,
   SyncStep, PushStep, AwaitResponseStep, SeeBlockStep, DrainStep, DrainErrorStep, AcceptStep,
   AwaitAdvanceStep, SettleStep, AbortStep, LateStep DEF Next, Device, Gateway

LEMMA Stutter ==
  ASSUME UInv, UNCHANGED vars
  PROVE  UInv'
<1> USE DEF UInv, Typed
<1>1. ram' = ram /\ store' = store /\ todo' = todo /\ mode' = mode
  BY DEF vars
<1>2. Typed' /\ Numbered' /\ Calm'
  BY <1>1 DEF StoreTyped, RamTyped, TodoTyped, MoreToCome, Numbered, Calm, Adjacent, Before,
              NeverRan, NoBytes, QuietIdle
<1>3. CommandOK'
  BY <1>1, CommandKept
<1>4. Reported'
  <2>1. Whole("data")' = Whole("data") /\ Whole("stat")' = Whole("stat")
    BY <1>1 DEF Whole, End
  <2>2. \A n, k : Block(n, k)' = Block(n, k)
    BY <1>1, SameBlocks
  <2>3. OkIsWhole' <=> OkIsWhole
    BY <1>1, <2>1, <2>2 DEF OkIsWhole, Capped, QuietIdle
  <2> QED
    BY <1>1, <2>3 DEF Reported, RanOnce
<1> QED
  BY <1>2, <1>3, <1>4


\* Every state of every behaviour satisfies the invariant.
THEOREM UciInvariant ==
  UciAssumption => (Spec => []UInv)
<1> SUFFICES ASSUME UciAssumption PROVE Spec => []UInv
  OBVIOUS
<1>1. Init => UInv
  BY InitStep
<1>2. UInv /\ [Next]_vars => UInv'
  BY NextStep, Stutter
<1> QED
  BY <1>1, <1>2, PTL DEF Spec

\* A command that is reported as carried out ran once, and its caller has the whole
\* response: all blocks of it, in order, and nothing of an earlier one.
THEOREM CommandsAreWhole ==
  UciAssumption => (Spec => []OkIsWhole)
<1> SUFFICES ASSUME UciAssumption PROVE Spec => []OkIsWhole
  OBVIOUS
<1>1. UInv => OkIsWhole
  BY DEF UInv, Reported, OkIsWhole
<1> QED
  BY <1>1, UciInvariant, PTL

\* No gateway pushes a command into an interface that is not at rest.
THEOREM NoCommandRefused ==
  UciAssumption => (Spec => []NeverRefused)
<1> SUFFICES ASSUME UciAssumption PROVE Spec => []NeverRefused
  OBVIOUS
<1>1. UInv => NeverRefused
  BY DEF UInv, Numbered, NeverRefused
<1> QED
  BY <1>1, UciInvariant, PTL

\* In the gateways that watch for MORE -> BUSY in one piece no command fails that met
\* no error and no wait that ran out.
THEOREM CalmCommandsSucceed ==
  UciAssumption => (Spec => []CalmSucceeds)
<1> SUFFICES ASSUME UciAssumption PROVE Spec => []CalmSucceeds
  OBVIOUS
<1>1. UInv => CalmSucceeds
  BY DEF UInv, Calm, CalmSucceeds
<1> QED
  BY <1>1, UciInvariant, PTL

\* The three of them are what the run of the services asks of the gateways.
THEOREM GatewaysSound ==
  UciAssumption => (Spec => []Sound)
<1> SUFFICES ASSUME UciAssumption PROVE Spec => []Sound
  OBVIOUS
<1> QED
  BY CommandsAreWhole, NoCommandRefused, CalmCommandsSucceed, PTL DEF Sound
=============================================================================
