------------------------------- MODULE Cal26 -------------------------------
(***************************************************************************)
(* The calendar (src/apps/cal26/cal26.c): appointments in a relative file, *)
(* a doubly linked list of records per day and a free list, changed one    *)
(* record at a time.                                                       *)
(*                                                                         *)
(* An operation is the sequence `todo' of its accesses to the file.  Each  *)
(* carries the memory the program has when it makes the access, so that an *)
(* access that fails leaves the assignments before it done, as in the      *)
(* code, and a reset loses them.  Reading and writing cannot be disturbed  *)
(* by anyone else, so the values an operation reads are those of its start *)
(* (the tail of a list apart, which create reads after it wrote).          *)
(***************************************************************************)
EXTENDS Naturals, Sequences, SequencesExt, FiniteSets

CONSTANTS
  NDays,       \* days of the year: 365 in the code
  MaxRecord,   \* bound: records of the file
  Text,        \* what an appointment says, and whether it is done
  DoneText,    \* the ones that are done
  MaxDayItems, \* appointments the day view holds: 32 in the code
  PageSize,    \* appointments on an upcoming page: 6 in the code
  Blank,       \* the text of a freed record
  Modes        \* what may go wrong in a behaviour, see mode

VARIABLES
  ram,    \* the program's data
  store,  \* rel: the file; saved: the resume payload, or {}
  todo,   \* accesses the operation under way has still to make
  mode    \* what may still go wrong.  "calm": nothing; "faulty": one access
          \* may fail or be lost, or one operation be cut off by a reset
          \* ("hit" or "torn" from then on); "resume": the program is left,
          \* the file may be changed without it, and it finds its payload
          \* when it starts

vars == <<ram, store, todo, mode>>

REC_SUPERBLOCK == 1
REC_DAY_BASE   == 2
REC_EVENT_BASE == REC_DAY_BASE + NDays

Day     == 1 .. NDays
Records == REC_SUPERBLOCK .. MaxRecord
Events  == REC_EVENT_BASE .. MaxRecord
Links   == Events \cup {0}

DayRecord(d) == REC_DAY_BASE + (d - 1)

NoIndex == [head |-> 0, tail |-> 0, count |-> 0]

\* clear_calendar_data, and the flags it goes with
Cleared == [loaded |-> FALSE, free |-> 0, next |-> REC_EVENT_BASE,
            index |-> [d \in Day |-> NoIndex], day |-> 1, cache |-> <<>>]

Superblock(m) == [type |-> "c26e", free |-> m.free, next |-> m.next]
DayIndex(m, d) == [type |-> "i", index |-> m.index[d]]
Event(d, prev, next, x) == [type |-> "e", deleted |-> FALSE, day |-> d,
                            prev |-> prev, next |-> next, text |-> x]
Deleted(next) == [type |-> "e", deleted |-> TRUE, day |-> 0,
                  prev |-> 0, next |-> next, text |-> Blank]
Unwritten == [type |-> "none"]

-----------------------------------------------------------------------------
\* event_record_in_range
InRange(r, next) == r >= REC_EVENT_BASE /\ r < next

\* read_event and validate_active_event_link
ValidLink(rel, next, d, r) ==
  /\ InRange(r, next)
  /\ rel[r].type = "e" /\ rel[r].day = d /\ ~rel[r].deleted
  /\ r \notin {rel[r].prev, rel[r].next}
  /\ \A l \in {rel[r].prev, rel[r].next} \ {0} : InRange(l, next)

\* active_event_traversal_budget
Budget(next) == IF next <= REC_EVENT_BASE THEN 0 ELSE next - REC_EVENT_BASE

\* The records a traversal of day d from record r with a budget of n accepts,
\* followed by 0 when it ends with BAD DAY CHAIN.
Walk(rel, next, d) ==
  LET walk[n \in 0 .. MaxRecord, r \in Links] ==
        CASE r = 0 -> <<>>
          [] r # 0 /\ (n = 0 \/ ~ValidLink(rel, next, d, r)) -> <<0>>
          [] OTHER -> <<r>> \o walk[n - 1, rel[r].next]
  IN  walk

Chain(rel, m, d) == Walk(rel, m.next, d)[Budget(m.next), m.index[d].head]

\* The elements from first to last, as far as there are any.
Slice(s, first, last) == SubSeq(s, first, IF last < Len(s) THEN last ELSE Len(s))

\* load_day_cache: a bad link within the items it shows leaves the view empty.
DayCache(rel, m, d) ==
  LET c == Chain(rel, m, d)
      shown == Slice(c, 1, MaxDayItems)
  IN  IF 0 \in ToSet(shown) THEN <<>> ELSE shown

\* build_upcoming_page: one budget for all days from today on; the page's
\* records.  A bad chain ends the page.
Upcoming(rel, m, page, today) ==
  LET from[d \in 1 .. NDays + 1, left \in 0 .. MaxRecord] ==
        IF d > NDays THEN <<>>
        ELSE LET c == Walk(rel, m.next, d)[left, m.index[d].head]
             IN  IF 0 \in ToSet(c) THEN c
                 ELSE c \o from[d + 1, left - Len(c)]
      open == SelectSeq(from[today, Budget(m.next)],
                        LAMBDA r : r = 0 \/ rel[r].text \notin DoneText)
      first == page * PageSize + 1
  IN  Slice(open, first, first + PageSize - 1)

-----------------------------------------------------------------------------
\* Accesses.  Put writes a whole record, Link reads one and writes it with one
\* link changed, Cache reads the records of the day view, Load the tables.
Put(m, r, v)     == [kind |-> "put", ram |-> m, rec |-> r, val |-> v]
Link(m, r, f, v) == [kind |-> "link", ram |-> m, rec |-> r, field |-> f,
                     val |-> v]
Cache(m)         == [kind |-> "cache", ram |-> m]
Load(m)          == [kind |-> "load", ram |-> m]

PutSuperblock(m)  == Put(m, REC_SUPERBLOCK, Superblock(m))
PutDayIndex(m, d) == Put(m, DayRecord(d), DayIndex(m, d))

\* alloc_event_record: the record and the memory after it.
Alloc(m, rel) ==
  IF m.free # 0
  THEN [rec |-> m.free, ram |-> [m EXCEPT !.free = rel[m.free].next]]
  ELSE [rec |-> m.next, ram |-> [m EXCEPT !.next = @ + 1]]

\* Mutant: the old tail is not told.
CreateStepsNoLink(m, rel, d, x) ==
  LET a    == Alloc(m, rel)
      tail == m.index[d].tail
      m2   == [a.ram EXCEPT
                !.index[d] = [head |-> IF tail = 0 THEN a.rec ELSE @.head,
                              tail |-> a.rec, count |-> @.count + 1]]
  IN  <<PutSuperblock(a.ram), Put(a.ram, a.rec, Event(d, tail, 0, x)),
        PutDayIndex(m2, d), Cache(m2)>>

\* create_event_on_day
CreateSteps(m, rel, d, x) ==
  LET a    == Alloc(m, rel)
      tail == m.index[d].tail
      m2   == [a.ram EXCEPT
                !.index[d] = [head |-> IF tail = 0 THEN a.rec ELSE @.head,
                              tail |-> a.rec, count |-> @.count + 1]]
  IN  <<PutSuperblock(a.ram), Put(a.ram, a.rec, Event(d, tail, 0, x))>>
      \o (IF tail = 0 THEN <<>> ELSE <<Link(a.ram, tail, "next", a.rec)>>)
      \o <<PutDayIndex(m2, d), Cache(m2)>>

\* Mutant: the free list gets the record before the record is marked.
FreeStepsHeadFirst(m, r) ==
  LET m2 == [m EXCEPT !.free = r]
  IN  <<PutSuperblock(m2), Put(m2, r, Deleted(m.free))>>

\* free_event_record
FreeSteps(m, r) ==
  LET m2 == [m EXCEPT !.free = r]
  IN  <<Put(m, r, Deleted(m.free)), PutSuperblock(m2)>>

\* Mutant: what follows the record is cut off.
DeleteStepsCutsTail(m, rel, d, r) ==
  LET ev == rel[r]
      m1 == IF ev.prev = 0 THEN [m EXCEPT !.index[d].head = ev.next] ELSE m
      m2 == IF ev.next = 0 THEN [m1 EXCEPT !.index[d].tail = ev.prev] ELSE m1
      m3 == [m2 EXCEPT !.index[d].count = IF @ > 0 THEN @ - 1 ELSE 0]
      m4 == [m3 EXCEPT !.free = r]
  IN  (IF ev.prev = 0 THEN <<>> ELSE <<Link(m, ev.prev, "next", 0)>>)
      \o FreeSteps(m3, r) \o <<PutDayIndex(m4, d), Cache(m4)>>

\* delete_event_on_day
DeleteSteps(m, rel, d, r) ==
  LET ev == rel[r]
      m1 == IF ev.prev = 0 THEN [m EXCEPT !.index[d].head = ev.next] ELSE m
      m2 == IF ev.next = 0 THEN [m1 EXCEPT !.index[d].tail = ev.prev] ELSE m1
      m3 == [m2 EXCEPT !.index[d].count = IF @ > 0 THEN @ - 1 ELSE 0]
      m4 == [m3 EXCEPT !.free = r]
  IN  (IF ev.prev = 0 THEN <<>> ELSE <<Link(m, ev.prev, "next", ev.next)>>)
      \o (IF ev.next = 0 THEN <<>> ELSE <<Link(m1, ev.next, "prev", ev.prev)>>)
      \o FreeSteps(m3, r)
      \o <<PutDayIndex(m4, d), Cache(m4)>>

\* swap_event_payload: flags and text change places, links stay.
SwapSteps(m, rel, a, b) ==
  LET With(r, s) == [rel[r] EXCEPT !.deleted = rel[s].deleted,
                                   !.text = rel[s].text]
  IN  <<Put(m, a, With(a, b)), Put(m, b, With(b, a)), Cache(m)>>

\* init_events_file
InitSteps ==
  <<PutSuperblock(Cleared)>>
  \o [d \in Day |-> PutDayIndex(Cleared, d)]

-----------------------------------------------------------------------------
\* load_superblock, load_day_index_table: what the file says, when it can be
\* read at all.
Readable(rel) == /\ rel[REC_SUPERBLOCK].type = "c26e"
                 /\ \A d \in Day : rel[DayRecord(d)].type = "i"

\* load_calendar_storage
Loaded(rel, day) ==
  IF ~Readable(rel) THEN [Cleared EXCEPT !.day = day]
  ELSE LET m == [loaded |-> TRUE, day |-> day, cache |-> <<>>,
                 free |-> rel[REC_SUPERBLOCK].free,
                 next |-> rel[REC_SUPERBLOCK].next,
                 index |-> [d \in Day |-> rel[DayRecord(d)].index]]
       IN  [m EXCEPT !.cache = DayCache(rel, m, day)]

\* read_event refuses a record that is none.
CanRun(w, rel) == w.kind = "link" => rel[w.rec].type = "e"

Written(w, rel) ==
  CASE w.kind = "put"  -> [rel EXCEPT ![w.rec] = w.val]
    [] w.kind = "link" -> [rel EXCEPT ![w.rec][w.field] = w.val]
    [] OTHER           -> rel

\* The memory after access w has been made.
After(w, rel) ==
  CASE w.kind = "cache" -> [w.ram EXCEPT !.cache = DayCache(rel, w.ram, w.ram.day)]
    [] w.kind = "load"  -> Loaded(rel, w.ram.day)
    [] OTHER            -> w.ram

\* The memory after access w has failed.
AfterFailure(w) ==
  CASE w.kind = "cache" -> [w.ram EXCEPT !.cache = <<>>]
    [] w.kind = "load"  -> [Cleared EXCEPT !.day = w.ram.day]
    [] OTHER            -> w.ram

-----------------------------------------------------------------------------
Init ==
  /\ ram = Cleared
  /\ store = [rel |-> [r \in Records |-> Unwritten], saved |-> {}]
  /\ todo = <<>>
  /\ mode \in Modes

Idle == todo = <<>>

\* The file when all accesses of an operation have been made.
FileAfter(steps) ==
  LET after[i \in 0 .. Len(steps)] ==
        IF i = 0 THEN store.rel ELSE Written(steps[i], after[i - 1])
  IN  after[Len(steps)]

\* An operation begins.  When nothing can come between its accesses they count
\* as one.  A behaviour is not followed once it is torn: nothing is claimed
\* of it.
Begin(steps) ==
  /\ mode # "torn"
  /\ IF mode = "calm"
     THEN /\ store' = [store EXCEPT !.rel = FileAfter(steps)]
          /\ ram' = After(Last(steps), FileAfter(steps))
          /\ UNCHANGED todo
     ELSE todo' = steps /\ UNCHANGED <<ram, store>>
  /\ UNCHANGED mode

\* The next access of the operation under way.
Step ==
  /\ ~Idle /\ CanRun(Head(todo), store.rel)
  /\ store' = [store EXCEPT !.rel = Written(Head(todo), @)]
  /\ ram' = After(Head(todo), store.rel)
  /\ todo' = Tail(todo)
  /\ UNCHANGED mode

\* A delete has marked its record and not yet written the tables, or a new
\* file is half written.
Halfway ==
  /\ Head(todo).kind = "put" /\ Head(todo).rec \notin Events
  /\ \/ \E i \in DOMAIN ram.cache : store.rel[ram.cache[i]].deleted
     \/ Last(todo).kind = "load"

\* It fails, and so does the operation.
Fail ==
  /\ ~Idle
  /\ \/ mode = "faulty" /\ mode' = IF Halfway THEN "torn" ELSE "hit"
     \/ ~CanRun(Head(todo), store.rel) /\ UNCHANGED mode
  /\ ram' = AfterFailure(Head(todo))
  /\ todo' = <<>>
  /\ UNCHANGED store

\* The writes LiveRecordsStable survives the loss of: a link to the next
\* appointment; the record of one, unless it should have replaced a live one that
\* was there before the file was rebuilt; the superblock that gives a record back;
\* the index of a day that got one more.  Not those of a delete's mark, its
\* backward link and its index, of the superblock that takes a record, of a new
\* file.
Spared(w, rel) ==
  LET old == rel[w.rec]
      Places(v) == [v EXCEPT !.text = Blank]
  IN  \/ w.kind = "link" /\ w.field = "next"
      \/ /\ w.kind = "put" /\ w.rec \in Events /\ ~w.val.deleted
         /\ old.type = "e" /\ ~old.deleted => Places(old) = Places(w.val)
      \/ /\ w.rec = REC_SUPERBLOCK /\ w.val.free # 0
         /\ rel[w.val.free].next = old.free
      \/ /\ w.rec \in {DayRecord(d) : d \in Day}
         /\ old.type = "i" /\ old.index.count < w.val.index.count

\* A write is lost: rel_write_record_session does not ask the drive what became
\* of the bytes, and the operation goes on.
Lose ==
  /\ ~Idle /\ Head(todo).kind \in {"put", "link"} /\ CanRun(Head(todo), store.rel)
  /\ mode = "faulty"
  /\ mode' = IF Spared(Head(todo), store.rel) THEN "hit" ELSE "torn"
  /\ ram' = After(Head(todo), store.rel)
  /\ todo' = Tail(todo)
  /\ UNCHANGED store

\* L: the tables are read.
LoadStorage == Idle /\ Begin(<<Load(ram)>>)

\* Two transient errors in a row while the tables are read count as a missing
\* file: init_or_load_events writes a new one.
LoadWipes ==
  /\ Idle /\ mode = "faulty" /\ mode' = "hit"
  /\ todo' = InitSteps \o <<Load([Cleared EXCEPT !.day = ram.day])>>
  /\ UNCHANGED <<ram, store>>

\* R
Rebuild == Idle /\ Begin(InitSteps \o <<Load([Cleared EXCEPT !.day = ram.day])>>)

\* A day is chosen and its view loaded.
SelectDay(d) ==
  /\ Idle /\ ram.loaded /\ d # ram.day
  /\ Begin(<<Cache([ram EXCEPT !.day = d])>>)

Selectable == IF Idle /\ ram.loaded THEN DOMAIN ram.cache ELSE {}
Reads(r)   == store.rel[r].type = "e"

\* N, F3
Create(x) ==
  /\ Idle /\ ram.loaded
  /\ ram.free # 0 => Reads(ram.free)
  /\ Alloc(ram, store.rel).rec <= MaxRecord        \* bound
  /\ ram.index[ram.day].count < MaxRecord          \* bound
  /\ Begin(CreateSteps(ram, store.rel, ram.day, x))

\* DEL, X
Delete(i) ==
  /\ i \in Selectable /\ Reads(ram.cache[i])
  /\ Begin(DeleteSteps(ram, store.rel, ram.day, ram.cache[i]))

\* RETURN, SPACE: the record is written with other text or flags.
Edit(i, x) ==
  /\ i \in Selectable /\ Reads(ram.cache[i])
  /\ x # store.rel[ram.cache[i]].text
  /\ Begin(<<Put(ram, ram.cache[i],
                 [store.rel[ram.cache[i]] EXCEPT !.text = x])>>)

\* + and -
Move(i) ==
  /\ {i, i + 1} \subseteq Selectable
  /\ Reads(ram.cache[i]) /\ Reads(ram.cache[i + 1])
  /\ Begin(SwapSteps(ram, store.rel, ram.cache[i], ram.cache[i + 1]))

\* The calendar is left with a payload.  What follows until it comes back may be
\* done to the file by another session: on another machine, to which the disk was
\* carried, or on this one, before a start with another Skip value gives the old
\* bank again (see ResumeState).
Leave ==
  /\ Idle /\ mode = "resume"
  /\ store' = [store EXCEPT !.saved = {ram}]
  /\ UNCHANGED <<ram, todo, mode>>

\* RUN/STOP, or a reset, or the return; the calendar is started again.
Restart ==
  /\ \/ mode = "faulty" /\ ~Idle
        /\ mode' = IF Halfway THEN "torn" ELSE "hit"
     \/ mode \in {"hit", "torn", "resume"} /\ Idle /\ UNCHANGED mode
  /\ todo' = <<>>
  /\ ram' \in IF store.saved = {} THEN {Cleared} ELSE store.saved
  /\ UNCHANGED store

Next ==
  \/ Step \/ Fail \/ Lose
  \/ LoadStorage \/ LoadWipes \/ Rebuild
  \/ \E d \in Day : SelectDay(d)
  \/ \E x \in Text : Create(x)
  \/ \E i \in 1 .. MaxDayItems :
       Delete(i) \/ Move(i) \/ \E x \in Text : Edit(i, x)
  \/ Leave \/ Restart

Spec == Init /\ [][Next]_vars

-----------------------------------------------------------------------------
\* The records a fresh load of a file shows for a day, in full.
FileChain(rel, d) ==
  LET next == rel[REC_SUPERBLOCK].next
  IN  IF ~Readable(rel) THEN <<>>
      ELSE Walk(rel, next, d)[Budget(next), rel[DayRecord(d)].index.head]

Lists(rel) ==
  LET text(r) == IF r = 0 THEN Blank ELSE rel[r].text
  IN  [d \in Day |-> [i \in DOMAIN FileChain(rel, d) |->
                         text(FileChain(rel, d)[i])]]

\* The calendar as DayLists sees it.
ListsView == IF mode = "calm" THEN Lists(store.rel) ELSE [d \in Day |-> <<>>]

\* The records an allocation may hand out, now or later: the free list as far
\* as it goes, and what was never used.
FreeList(rel, head) ==
  LET from[n \in 0 .. MaxRecord, r \in Links] ==
        IF n = 0 \/ r = 0 THEN {}
        ELSE {r} \cup IF rel[r].type = "e" THEN from[n - 1, rel[r].next] ELSE {}
  IN  from[MaxRecord, head]

Allocatable == FreeList(store.rel, ram.free) \cup {r \in Events : r >= ram.next}

Shown == UNION {ToSet(FileChain(store.rel, d)) : d \in Day}

-----------------------------------------------------------------------------
\* As long as nothing goes wrong, what the program keeps in memory is what a
\* fresh load of the file gives, the counts and tails are those of the lists,
\* and the free list and the lists account for every record ever used.
TablesMatch ==
  mode = "calm" /\ Idle /\ ram.loaded =>
    /\ Loaded(store.rel, ram.day) = ram
    /\ \A d \in Day :
         LET c == Chain(store.rel, ram, d)
         IN  /\ ram.index[d].count = Len(c)
             /\ ram.index[d].tail = IF c = <<>> THEN 0 ELSE Last(c)
    /\ Allocatable \cup Shown = Events

\* The upcoming pages, one after the other, list the open appointments from
\* today, whatever day that is, to the end of the year in order, and no other:
\* the one budget for all days is never used up too early.
UpcomingComplete ==
  mode = "calm" /\ Idle /\ ram.loaded =>
    \A today \in Day :
      LET coming == FlattenSeq([i \in 1 .. NDays - today + 1 |->
                                  Chain(store.rel, ram, today + i - 1)])
          open == SelectSeq(coming, LAMBDA r : store.rel[r].text \notin DoneText)
      IN  FlattenSeq([p \in 1 .. MaxRecord |->
                        Upcoming(store.rel, ram, p - 1, today)]) = open

\* "record numbers are stable for live events until deletion"
\* (docs/cal26_rel_format.md): no appointment the file shows is on the free list
\* or beyond the records used, where the next one would overwrite it.  It
\* holds through resets, failed accesses and lost writes, except where a delete is
\* cut off after it has marked its record (repeated by the user, it frees the
\* record a second time), a new file is half written, or a write is lost that is
\* not Spared ("torn").
LiveRecordsStable ==
  mode # "torn" /\ Idle /\ ram.loaded => Allocatable \cap Shown = {}
=============================================================================
