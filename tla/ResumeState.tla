---------------------------- MODULE ResumeState ----------------------------
(***************************************************************************)
(* What an app was doing is kept behind its snapshot, in the tail of its   *)
(* bank: a header and a payload (src/lib/resume_state_*.c).  Every switch  *)
(* runs the app's main again, which takes the payload back.  The header    *)
(* names a token, a schema and a length.  It does not name the app, and    *)
(* nothing clears it when the app is unloaded and its token and bank are   *)
(* given to another one.  It is written after the payload and has no sum   *)
(* of it: a save that a reset breaks off leaves the old header in front of *)
(* new bytes.  The number in the header, which nothing reads, is left out. *)
(***************************************************************************)
EXTENDS Integers, Sequences, TLC

CONSTANTS
  App,       \* app -> [segs, schema]: the lengths of what it keeps, in order
  Checkers,  \* the apps that invalidate a payload they do not like
  Tokens,
  Banks,
  TailSize,  \* what a bank has behind the snapshot and the header
  MaxSaves,  \* bound: saves
  NoApp,     \* nothing saved, nobody running, no header
  Modes

VARIABLES
  ram,    \* the running app: its token, bank and schema, what it went on with
  store,  \* in the banks: headers, tails, tokens, the banks that are free
  todo,   \* how many saves there were
  mode

vars == <<ram, store, todo, mode>>

-----------------------------------------------------------------------------
RECURSIVE SumTo(_, _)
SumTo(s, i) == IF i = 0 THEN 0 ELSE s[i] + SumTo(s, i - 1)

Segs(a) == App[a].segs
PayloadLen(a) == SumTo(Segs(a), Len(Segs(a)))

\* What an app keeps, as it was at its nth save: one byte after the other.
Image(a, n) == [i \in 1 .. PayloadLen(a) |-> <<a, n, i>>]

\* The bytes of segment k, and where they go in the tail.
SegOffset(a, k) == SumTo(Segs(a), k - 1)
SegBytes(a, n, k) == SubSeq(Image(a, n), SegOffset(a, k) + 1, SegOffset(a, k) + Segs(a)[k])

\* A transfer to or from a tail; one of length 0 would move 64K and is not made.
Stash(tail, off, bytes) ==
  [i \in 1 .. TailSize |-> IF i \in off + 1 .. off + Len(bytes) THEN bytes[i - off] ELSE tail[i]]
Fetch(tail, off, len) == SubSeq(tail, off + 1, off + len)

-----------------------------------------------------------------------------
\* resume_init_for_app: the bank comes from the token table.
InitForApp(a, t) ==
  IF store.token[t] = NoApp THEN [app |-> a, token |-> t, bank |-> 0, schema |-> 0]
  ELSE [app |-> a, token |-> t, bank |-> store.token[t].bank, schema |-> App[a].schema]

HeaderIsValid(hdr, r, maxLen) ==
  /\ hdr # NoApp /\ hdr.token = r.token /\ hdr.schema = r.schema
  /\ hdr.len # 0 /\ hdr.len <= maxLen /\ hdr.len <= TailSize

\* resume_load_segments, and resume_try_load with the comparison of the lengths that
\* every caller makes: the payload, or nothing.
LoadSegments(r) ==
  LET hdr  == store.hdr[r.bank]
      want == PayloadLen(r.app)
      RECURSIVE From(_)
      From(k) == IF k = 0 THEN <<>>
                 ELSE From(k - 1) \o Fetch(store.tail[r.bank], SegOffset(r.app, k), Segs(r.app)[k])
  IN  IF r.schema # 0 /\ want \in 1 .. TailSize /\ HeaderIsValid(hdr, r, want) /\ hdr.len = want
      THEN From(Len(Segs(r.app))) ELSE <<>>

\* resume_save_segments and resume_save: the first k segments of the payload are in the
\* tail, and then the header too.
Written(r, n, k) ==
  LET RECURSIVE After(_)
      After(j) == IF j = 0 THEN store.tail[r.bank]
                  ELSE Stash(After(j - 1), SegOffset(r.app, j), SegBytes(r.app, n, j))
  IN  [store EXCEPT !.tail[r.bank] = After(k), !.half[r.bank] = @ \cup {<<r.app, n>>}]
SaveSegments(r, n) ==
  [Written(r, n, Len(Segs(r.app)))
     EXCEPT !.hdr[r.bank] = [token |-> r.token, schema |-> r.schema, len |-> PayloadLen(r.app)],
            !.last[r.bank] = [app |-> r.app, n |-> n, token |-> r.token],
            !.half[r.bank] = {}]

Invalidate(r) == [store EXCEPT !.hdr[r.bank] = NoApp, !.last[r.bank] = NoApp]

-----------------------------------------------------------------------------
Nobody == [app |-> NoApp]

Init ==
  /\ ram = Nobody /\ todo = 0 /\ mode \in Modes
  /\ store = [hdr |-> [b \in Banks |-> NoApp], tail |-> [b \in Banks |-> [i \in 1 .. TailSize |-> NoApp]],
              token |-> [t \in Tokens |-> NoApp], free |-> Banks,
              last |-> [b \in Banks |-> NoApp],  \* history: the last save there,
              half |-> [b \in Banks |-> {}]]     \* the ones broken off since

\* The launcher loads an app that is not loaded: a token and a bank that are free.
Load ==
  /\ ram = Nobody
  /\ \E a \in DOMAIN App, t \in Tokens, b \in store.free :
        /\ store.token[t] = NoApp
        /\ \A u \in Tokens : store.token[u] # NoApp => store.token[u].app # a
        /\ store' = [store EXCEPT !.token[t] = [app |-> a, bank |-> b], !.free = @ \ {b}]
  /\ UNCHANGED <<ram, todo, mode>>

\* It unloads an app: the token and the bank are free again, the tail stays.
Unload ==
  /\ ram = Nobody
  /\ \E t \in Tokens :
        /\ store.token[t] # NoApp
        /\ store' = [store EXCEPT !.token[t] = NoApp, !.free = @ \cup {store.token[t].bank}]
  /\ UNCHANGED <<ram, todo, mode>>

\* An app is launched or switched to: its main begins with the payload, or without.
\* One that does not like it does without, and some of them invalidate it.
Start ==
  /\ ram = Nobody
  /\ \E t \in {u \in Tokens : store.token[u] # NoApp} :
       LET r     == InitForApp(store.token[t].app, t)
           got   == LoadSegments(r)
           alien == got # <<>> /\ got[1][1] # r.app
       IN  \E likes \in IF alien THEN BOOLEAN ELSE {TRUE} :
             /\ ram' = r @@ [got |-> IF likes THEN got ELSE <<>>]
             /\ store' = IF ~likes /\ r.app \in Checkers THEN Invalidate(r) ELSE store
  /\ UNCHANGED <<todo, mode>>

Saves == ram.schema # 0 /\ PayloadLen(ram.app) \in 1 .. TailSize

\* The app saves what it was doing and leaves, for the launcher or another app.
Leave ==
  /\ ram # Nobody /\ todo < MaxSaves
  /\ todo' = todo + 1
  /\ store' = IF Saves THEN SaveSegments(ram, todo + 1) ELSE store
  /\ ram' = Nobody /\ UNCHANGED mode

\* A cold start forgets the tokens.  The banks keep their types: they are not free.
ColdStart(s) == [s EXCEPT !.token = [t \in Tokens |-> NoApp]]

\* The app's own end is a restart of the machine, after the payload is invalidated.
Quit ==
  /\ ram # Nobody /\ ram.app \in Checkers
  /\ store' = ColdStart(Invalidate(ram))
  /\ ram' = Nobody /\ UNCHANGED <<todo, mode>>

Reset ==
  /\ store' = ColdStart(store)
  /\ ram' = Nobody /\ UNCHANGED <<todo, mode>>

\* A reset in the middle of a save.
BreakOff ==
  /\ ram # Nobody /\ todo < MaxSaves /\ Saves
  /\ \E k \in 1 .. Len(Segs(ram.app)) : store' = ColdStart(Written(ram, todo + 1, k))
  /\ todo' = todo + 1 /\ ram' = Nobody /\ UNCHANGED mode

\* A start with another Skip value finds no table where the ReadyOS bank is now, and
\* every bank is free.  Only then can a bank of an earlier session be given again.
SkipChanged ==
  /\ store' = [ColdStart(store) EXCEPT !.free = Banks]
  /\ ram' = Nobody /\ UNCHANGED <<todo, mode>>

Next == Load \/ Unload \/ Start \/ Leave \/ Quit \/ Reset \/ BreakOff \/ SkipChanged

Spec == Init /\ [][Next]_vars

-----------------------------------------------------------------------------
\* An app goes on with the bytes of one save, the last one in its bank: never with some of
\* one and some of another, unless a reset broke a save off.  That save was made under the
\* same token with the same schema, by this app or by one that keeps as many bytes.
Entire ==
  ram # Nobody /\ ram.got # <<>> =>
    LET last == store.last[ram.bank] IN
      /\ last # NoApp /\ last.token = ram.token /\ App[last.app].schema = ram.schema
      /\ Len(ram.got) = PayloadLen(last.app)
      /\ \A i \in DOMAIN ram.got :
           \E s \in {<<last.app, last.n>>} \cup store.half[ram.bank] :
             ram.got[i] = <<s[1], s[2], i>>

\* An app that saved last in the bank it has, under the token it has, gets that back.
OwnBack ==
  ram # Nobody =>
    LET last == store.last[ram.bank] IN
      last # NoApp /\ last.app = ram.app /\ last.token = ram.token /\ store.half[ram.bank] = {} =>
        ram.got = Image(ram.app, last.n)

\* The tails of two loaded apps are two tails, and none of them is free.
Apart ==
  \A t, u \in {x \in Tokens : store.token[x] # NoApp} :
    /\ store.token[t].bank \notin store.free
    /\ t # u => store.token[t].bank # store.token[u].bank

Sound == Entire /\ OwnBack /\ Apart
=============================================================================
