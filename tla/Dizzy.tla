------------------------------- MODULE Dizzy -------------------------------
(***************************************************************************)
(* The Dizzy board (src/apps/dizzy/dizzy.c): cards in columns, a selection *)
(* in each column, a filter, and two relative files, of which one holds a  *)
(* superblock with a checksum and a record for each card, the other what   *)
(* is selected.  Every change is written to both.  What is drawn is left   *)
(* out, but for the part of each column that is in view.                   *)
(***************************************************************************)
EXTENDS Integers, Sequences, FiniteSets, SequencesExt, FiniteSetsExt

CONSTANTS
  NUM_COLUMNS,
  MAX_CARDS,
  LIST_BODY_ROWS,
  NoNumber,   \* 65535: the largest checksum, and what rd_dec returns for no number
  Today,      \* today_day: the day of the build
  Titles,     \* mode -> the titles typed; the empty one is NoTitle
  NoTitle,
  Weight,     \* title -> the sum of its characters
  Searches,   \* mode -> what is searched for
  Matching,   \* search -> the titles with it
  NoFilter,   \* the empty search
  Uses,       \* mode -> "view", "flags", "edit", "disk"
  Modes

VARIABLES
  ram,    \* cards, columns and selections; failed: the last save failed; disk:
          \* the files board and cfg, sets of at most one
  store,  \* the resume payload while the program is left, or {}
  todo,   \* "keys", or "left"
  mode

vars == <<ram, store, todo, mode>>

Ids     == 1 .. MAX_CARDS
Columns == 1 .. NUM_COLUMNS
InUse(what) == what \in Uses[mode]

-----------------------------------------------------------------------------
\* card_by_id: the cards in use have a record.
Used(m) == DOMAIN m.cards

\* rebuild_visible_lists; a card that is not in use is passed over.
Visible(m, c) ==
  SelectSeq(m.col[c], LAMBDA id : id \in Used(m)
                                  /\ m.cards[id].title \in Matching[m.search])

\* clamp_selection
Clamped(m) ==
  LET n(c) == Len(Visible(m, c))
      idx  == [c \in Columns |-> IF n(c) = 0 THEN 0
                                 ELSE IF m.idx[c] >= n(c) THEN n(c) - 1 ELSE m.idx[c]]
  IN  [m EXCEPT !.idx = idx,
                !.top = [c \in Columns |->
                           IF n(c) = 0 THEN 0
                           ELSE IF idx[c] < @[c] THEN idx[c]
                           ELSE IF idx[c] >= @[c] + LIST_BODY_ROWS
                           THEN (idx[c] - LIST_BODY_ROWS) + 1 ELSE @[c]]]

\* selected_card_id: a set of at most one
Selected(m) ==
  LET v == Visible(m, m.sel)
  IN  IF m.idx[m.sel] < Len(v) THEN {v[m.idx[m.sel] + 1]} ELSE {}

\* clear_board_model; column 2 is MAYBE?.
Config == [sel |-> 2, idx |-> [c \in Columns |-> 0], view |-> 1]
Cleared(m) ==
  Config @@ [m EXCEPT !.cards = <<>>, !.col = [c \in Columns |-> <<>>],
                      !.top = [c \in Columns |-> 0]]

-----------------------------------------------------------------------------
\* add_card_model, alloc_card_slot: the first record that is free; the selection
\* stays where it is.
NewCard(title) == [title |-> title, flags |-> {}, created |-> Today, snooze |-> 0]
Added(m, title) ==
  IF title = NoTitle \/ Used(m) = Ids THEN {}
  ELSE LET id == Min(Ids \ Used(m))
       IN  {[m EXCEPT !.cards = [i \in Used(m) \cup {id} |->
                                   IF i = id THEN NewCard(title) ELSE @[i]],
                      !.col[m.sel] = Append(@, id)]}

\* Mutant: the selection stays where it is.
MovedUnselected(m, id, delta) ==
  LET target == m.sel + delta
  IN  IF target \notin Columns THEN m
      ELSE [m EXCEPT !.col[m.sel] = Remove(@, id),
                     !.col[target] = Append(@, id),
                     !.sel = target]

\* move_selected_horizontal_model
Moved(m, id, delta) ==
  LET target == m.sel + delta
  IN  IF target \notin Columns THEN m
      ELSE [m EXCEPT !.col[m.sel] = Remove(@, id),
                     !.col[target] = Append(@, id),
                     !.sel = target,
                     !.idx[target] = Len(m.col[target])]

Position(s, x) == CHOOSE i \in DOMAIN s : s[i] = x

\* swap_selected_with_prev_model and swap_selected_with_next_model, and the
\* selection that dizzy_loop moves with them.
Reordered(m, id, delta) ==
  LET column == m.col[m.sel]
      i == Position(column, id)
      j == i + delta
      k == m.idx[m.sel] + delta
  IN  [m EXCEPT !.col[m.sel] = IF j \in DOMAIN @
                               THEN [@ EXCEPT ![i] = column[j], ![j] = column[i]] ELSE @,
                !.idx[m.sel] = IF k \in 0 .. Len(Visible(m, m.sel)) - 1 THEN k ELSE @]

\* delete_selected_model
Removed(m, id) ==
  [m EXCEPT !.cards = [i \in Used(m) \ {id} |-> @[i]],
            !.col[m.sel] = Remove(@, id)]

\* Keys D, A and S
Toggled(card, flag) ==
  [card EXCEPT !.flags = IF flag \in @ THEN @ \ {flag} ELSE @ \cup {flag}]

Snoozed(card) ==
  LET day == IF card.snooze <= Today THEN Today + 1
             ELSE IF card.snooze = Today + 1 THEN Today + 3
             ELSE IF card.snooze = Today + 3 THEN Today + 7 ELSE 0
  IN  [card EXCEPT !.snooze = day,
                   !.flags = IF day # 0 THEN @ \cup {"snoozed"} ELSE @ \ {"snoozed"}]

-----------------------------------------------------------------------------
\* board_payload_checksum; all days are below 256.
FlagBits == [done |-> 1, archived |-> 2, snoozed |-> 4]
CardSum(card) ==
  SumSet({FlagBits[f] : f \in card.flags}) + card.created + card.snooze
  + Weight[card.title]

Checksum(m) ==
  LET places == {<<c, i>> \in Columns \X (1 .. MAX_CARDS) :
                   i \in DOMAIN m.col[c] /\ m.col[c][i] \in Used(m)}
      sum(p) == LET id == m.col[p[1]][p[2]]
                IN  id + (p[1] - 1) + (p[2] - 1) + CardSum(m.cards[id])
  IN  (FoldSet(LAMBDA c, n : n + Len(m.col[c]), 0, Columns)
       + MapThenSumSet(sum, places)) % (NoNumber + 1)

\* build_superblock_record, build_id_layout_maps, encode_card_record; a card that
\* is not in use has an empty record.
Super(m) == [used |-> Cardinality(Used(m)), sum |-> Checksum(m)]
Record(m, id) ==
  IF id \notin Used(m) THEN {}
  ELSE LET c == CHOOSE k \in Columns : id \in Range(m.col[k])
       IN  {[card |-> m.cards[id], col |-> c, ord |-> Position(m.col[c], id)]}

\* write_board_rel, broken off after n records or, n being 1 + MAX_CARDS, not.
\* A record behind the end of the file is not in its domain.
NoRecords == [super |-> {}, recs |-> <<>>]
OldFile(m) == IF m.disk.board = {} THEN NoRecords
              ELSE CHOOSE f \in m.disk.board : TRUE
BoardWritten(m, n) ==
  LET old == OldFile(m)
  IN  IF n = 0 THEN m
      ELSE [m EXCEPT !.disk.board =
              {[super |-> {Super(m)},
                recs |-> [id \in DOMAIN old.recs \cup (1 .. n - 1) |->
                            IF id < n THEN Record(m, id) ELSE old.recs[id]]]}]

Whole == 1 + MAX_CARDS

\* save_config_rel
ConfigOf(m) == [f \in DOMAIN Config |-> m[f]]
ConfigWritten(m) == [m EXCEPT !.disk.cfg = {ConfigOf(m)}]

\* parse_superblock_record: used and checksum, unless it has no number there.
Parsed(f) == {s \in f.super : s.sum # NoNumber}

\* rebuild_columns_from_maps: in each column by place, then by number
Rebuilt(m, recs) ==
  LET rec(id) == CHOOSE r \in recs[id] : TRUE
      used == {id \in Ids : recs[id] # {}}
      before(a, b) == rec(a).ord < rec(b).ord \/ (rec(a).ord = rec(b).ord /\ a < b)
  IN  [Cleared(m) EXCEPT
         !.cards = [id \in used |-> rec(id).card],
         !.col = [c \in Columns |-> SetToSortSeq({id \in used : rec(id).col = c}, before)]]

\* load_board_rel: the board, {} if the file is not a good one
ReadBoard(m) ==
  LET f == OldFile(m)
  IN  IF DOMAIN f.recs = Ids
      THEN {n \in {Rebuilt(m, f.recs)} : Super(n) \in Parsed(f)} ELSE {}

\* A record is missing: a short read, which is no reason to begin a new board.
Short(m) == Parsed(OldFile(m)) # {} /\ DOMAIN OldFile(m).recs # Ids

-----------------------------------------------------------------------------
\* What can go wrong with a file: an error of those that are taken for a sign
\* that there is none (twice, if it is one that is tried again), or another one.
Faulty        == InUse("faults")
IfFaulty(S)   == IF Faulty THEN S ELSE {}
NotLoaded(m)  == [Cleared(m) EXCEPT !.loaded = FALSE, !.failed = FALSE]
LoadedAs(c, m) == [c @@ m EXCEPT !.loaded = TRUE, !.failed = FALSE]

\* init_or_load_cfg_rel, with the end of load_dizzy_storage
ConfigInits(m) ==
  {LoadedAs(Config, [m EXCEPT !.disk.cfg = {Config}])}
  \cup IfFaulty({NotLoaded([m EXCEPT !.disk.cfg = {}])})

ConfigLoads(m) ==
  (IF m.disk.cfg = {} THEN ConfigInits(m) ELSE {LoadedAs(c, m) : c \in m.disk.cfg})
  \cup IfFaulty({NotLoaded(m)} \cup ConfigInits(m))

\* init_board_rel and the second load in init_or_load_board_rel
BoardInits(m) ==
  LET new == Cleared(m)
  IN  ConfigLoads(BoardWritten(new, Whole))
      \cup IfFaulty({NotLoaded(BoardWritten(new, n)) : n \in 0 .. Whole})

\* load_dizzy_storage
Loads(m) ==
  (IF Short(m) THEN {NotLoaded(m)}
   ELSE IF ReadBoard(m) = {} THEN BoardInits(m)
   ELSE UNION {ConfigLoads(b) : b \in ReadBoard(m)})
  \cup IfFaulty({NotLoaded(m)} \cup BoardInits(m))

\* rebuild_dizzy_storage; whether a file could be scratched is not asked.
Rebuilds(m) ==
  LET new(d) == [Cleared(m) EXCEPT !.disk = d]
      disks == {[board |-> {}, cfg |-> {}]} \cup IfFaulty({m.disk})
  IN  UNION {Loads(ConfigWritten(BoardWritten(new(d), Whole)))
             \cup IfFaulty({NotLoaded(BoardWritten(new(d), n)) : n \in 0 .. Whole})
             : d \in disks}

\* persist_board
Persists(m) ==
  IF InUse("disk")
  THEN {[ConfigWritten(BoardWritten(m, Whole)) EXCEPT !.failed = FALSE]}
       \cup IfFaulty({[BoardWritten(m, n) EXCEPT !.failed = TRUE] : n \in 0 .. Whole})
  ELSE {m}

-----------------------------------------------------------------------------
\* main; without files, a board that has been loaded.
Machine(disk) ==
  Cleared([cards |-> <<>>, col |-> <<>>, top |-> <<>>, search |-> NoFilter,
           loaded |-> ~InUse("disk"), failed |-> FALSE, disk |-> disk])

Init ==
  /\ mode \in Modes
  /\ ram = Machine([board |-> {}, cfg |-> {}])
  /\ store = {} /\ todo = "keys"

\* The loop draws the screen after each key, and clamps the selections.
Running    == todo = "keys"
OnBoard    == Running /\ ram.loaded
Becomes(m) == ram' = Clamped(m) /\ UNCHANGED <<store, todo, mode>>
Changes(m) == \E n \in Persists(m) : Becomes(n)

\* dizzy_loop
Load    == Running /\ InUse("disk") /\ \E n \in Loads(ram) : Becomes(n)
Rebuild == Running /\ InUse("disk") /\ \E n \in Rebuilds(ram) : Becomes(n)

Column ==
  /\ OnBoard
  /\ \E c \in {ram.sel - 1, ram.sel + 1, (ram.sel % NUM_COLUMNS) + 1} \cap Columns :
       Becomes([ram EXCEPT !.sel = c])

Row ==
  /\ OnBoard
  /\ \E k \in {ram.idx[ram.sel] - 1, ram.idx[ram.sel] + 1} :
       k \in 0 .. Len(Visible(ram, ram.sel)) - 1 /\ Becomes([ram EXCEPT !.idx[ram.sel] = k])

View ==
  OnBoard /\ InUse("view") /\ Becomes([ram EXCEPT !.view = 3 - @])

Search == OnBoard /\ \E s \in Searches[mode] : Becomes([ram EXCEPT !.search = s])

New    == OnBoard /\ \E title \in Titles[mode] : \E m \in Added(ram, title) : Changes(m)
Move   == OnBoard /\ \E id \in Selected(ram), d \in {-1, 1} : Changes(Moved(ram, id, d))
Order  == OnBoard /\ \E id \in Selected(ram), d \in {-1, 1} : Changes(Reordered(ram, id, d))
Delete == OnBoard /\ \E id \in Selected(ram) : Changes(Removed(ram, id))

\* action_edit_card, and the keys D, A and S
Edit   == OnBoard /\ InUse("edit") /\ \E id \in Selected(ram), title \in Titles[mode] :
            Changes([ram EXCEPT !.cards[id].title = title])
Toggle == OnBoard /\ InUse("flags") /\ \E id \in Selected(ram), flag \in {"done", "archived"} :
            Changes([ram EXCEPT !.cards[id] = Toggled(@, flag)])
Snooze == OnBoard /\ InUse("flags") /\ \E id \in Selected(ram) :
            Changes([ram EXCEPT !.cards[id] = Snoozed(@)])

\* handle_global_switch and resume_save_state; RUN/STOP resets the machine.
Left == {"cards", "col", "sel", "idx", "top", "view", "search", "loaded"}
Leave ==
  /\ Running /\ todo' = "left"
  /\ store' \in {{}, {[f \in Left |-> ram[f]]}}
  /\ UNCHANGED <<ram, mode>>

\* main and resume_restore_state
Resumed(m, p) == Clamped(p @@ m)
Restart ==
  /\ todo = "left"
  /\ ram' \in IF store = {} THEN {Machine(ram.disk)} ELSE {Resumed(ram, p) : p \in store}
  /\ store' = {} /\ todo' = "keys" /\ UNCHANGED mode

Next ==
  \/ Load \/ Rebuild \/ Column \/ Row \/ View \/ Search
  \/ New \/ Edit \/ Move \/ Order \/ Delete \/ Toggle \/ Snooze
  \/ Leave \/ Restart

-----------------------------------------------------------------------------
\* Each card in use has one place on the board, also on a board that was read
\* from what a broken off save has left.
CardsPlaced(m) ==
  LET places == {<<c, i>> \in Columns \X (1 .. MAX_CARDS) : i \in DOMAIN m.col[c]}
      ids == {m.col[p[1]][p[2]] : p \in places}
  IN  ids = Used(m) /\ Cardinality(places) = Cardinality(ids)

SelectionInView(m) ==
  \A c \in Columns :
    LET n == Len(Visible(m, c))
    IN  IF n = 0 THEN m.idx[c] = 0 /\ m.top[c] = 0
        ELSE m.idx[c] < n /\ m.idx[c] - m.top[c] \in 0 .. LIST_BODY_ROWS - 1

\* A card that is moved stays selected, unless it changes places with one that
\* the filter hides.
SelectionFollows(m) ==
  \A id \in Selected(m), d \in {-1, 1} :
    LET column == m.col[m.sel]
        j == Position(column, id) + d
    IN  /\ Selected(Clamped(Moved(m, id, d))) = {id}
        /\ j \in DOMAIN column /\ column[j] \in Range(Visible(m, m.sel)) =>
             Selected(Clamped(Reordered(m, id, d))) = {id}

\* A board loads as it was saved, but for the one whose checksum is taken for
\* no number.
Shows(n, m) == n.cards = m.cards /\ n.col = m.col
SavedLoads(m) ==
  IF Checksum(m) = NoNumber THEN ReadBoard(BoardWritten(m, Whole)) = {}
  ELSE \E n \in ReadBoard(BoardWritten(m, Whole)) : Shows(n, m)

\* A board that was loaded is on the disk as it is shown, unless the last save
\* failed.
DiskCurrent(m) ==
  InUse("disk") /\ m.loaded /\ ~m.failed /\ Checksum(m) # NoNumber =>
    \E n \in ReadBoard(m) : Shows(n, m)

LeftComesBack == todo = "left" => \A p \in store : Resumed(ram, p) = ram

Sound ==
  /\ CardsPlaced(ram) /\ SelectionInView(ram) /\ LeftComesBack
  /\ ram.loaded => SelectionFollows(ram) /\ SavedLoads(ram) /\ DiskCurrent(ram)
=============================================================================
