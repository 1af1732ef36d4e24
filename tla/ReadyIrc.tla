------------------------------ MODULE ReadyIrc ------------------------------
(***************************************************************************)
(* The one-channel chat client (src/apps/readyirc/readyirc.c).  It polls a *)
(* TCP socket between keys, puts what the server sends together to lines,  *)
(* and keeps a ring of screen rows in a bank of its own, or, when there is *)
(* none, the rows in view only.  The server and the network are external:  *)
(* they may drop the connection, or refuse one, at any time.               *)
(*                                                                         *)
(* A line of the server is a sequence of pieces, each a row on the screen. *)
(* How a line is worded and coloured, the editing of the settings and of   *)
(* the input line, and status texts are left out.                          *)
(***************************************************************************)
EXTENDS Integers, Sequences, SequencesExt, FiniteSetsExt

CONSTANTS
  OUTPUT_H,        \* rows in view
  REU_MAX_LINES,   \* rows the bank holds
  ScrollCap,       \* how far back one may scroll; 255 in the code
  IRC_IN_MAX,      \* pieces of a line that are kept
  SEND_MAX,        \* the size of send_buf
  INPUT_MAX,       \* characters of the input line
  Channels,        \* the channels a user may choose ...
  ChannelLen,      \* ... and their lengths
  Texts,           \* texts a user may enter, by mode, and their lengths
  TextLen,
  ServerLines,     \* lines the server may send, by mode: their kinds
  Pieces,          \* the pieces of a line of a kind
  Uses,            \* what may happen, by mode
  Modes

VARIABLES
  ram,    \* the program's data, the bank's and, in net, the server's view
  store,  \* the resume payload, or {}
  todo,   \* "keys", or "left"
  mode

vars == <<ram, store, todo, mode>>

InUse(use) == use \in Uses[mode]
Rows == 0 .. OUTPUT_H - 1

\* What a row shows when it is blank, a status text, or not the conversation's.
Blank == <<"blank", 0>>
Status == <<"status", 0>>
Covered == [r \in Rows |-> <<"covered", 0>>]

-----------------------------------------------------------------------------
\* physical_line, fetch_line, draw_output_row
Line(m, rel) == IF rel < m.count THEN m.log[(m.first + rel) % m.max] ELSE Blank

\* output_start_rel, which also limits scroll_back
Start(m)    == Max({m.count - OUTPUT_H, 0})
Limited(m)  == [m EXCEPT !.back = IF m.count <= OUTPUT_H THEN @ ELSE Min({@, Start(m)})]
TopRow(m)   == IF m.count <= OUTPUT_H THEN 0 ELSE Start(m) - Limited(m).back
Picture(m)  == [r \in Rows |-> Line(m, TopRow(m) + r)]

\* draw_shell and draw_output; draw_setup; draw_help_popup
DrawShell(m) == [Limited(m) EXCEPT !.help = FALSE, !.shown = Picture(m)]
DrawSetup(m) == [m EXCEPT !.help = FALSE, !.shown = Covered]
DrawHelp(m)  == [m EXCEPT !.help = TRUE, !.shown = Covered]

\* shift_output_up and shift_output_down, with the row that comes into view
ShiftUp(m) ==
  [Limited(m) EXCEPT !.shown = [r \in Rows |->
     IF r < OUTPUT_H - 1 THEN @[r + 1] ELSE Line(m, TopRow(m) + OUTPUT_H - 1)]]
ShiftDown(m) ==
  [Limited(m) EXCEPT !.shown = [r \in Rows |->
     IF r > 0 THEN @[r - 1] ELSE Line(m, TopRow(m))]]

\* store_line: a row is added to the ring, and to the screen unless the view is
\* scrolled back, when it stays where it is for as long as it can.  said is what
\* the ring should hold.
StoreRow(m, row) ==
  LET at == (m.first + m.count) % m.max
      n  == [m EXCEPT !.log[at] = row,
               !.said  = SubSeq(@ \o <<row>>, Max({Len(@) + 2 - m.max, 1}), Len(@) + 1),
               !.count = Min({@ + 1, m.max}),
               !.first = IF m.count < m.max THEN @ ELSE (@ + 1) % m.max]
      stays == m.back # 0 /\ m.back < Min({Start(n), ScrollCap})
  IN  CASE stays -> [n EXCEPT !.back = @ + 1]
        [] ~stays /\ m.help -> n
        [] ~stays /\ ~m.help /\ m.back = 0 /\ m.count < OUTPUT_H ->
             [n EXCEPT !.shown[m.count] = row]
        [] OTHER -> ShiftUp(n)

StoreRows(m, rows) == FoldLeft(StoreRow, m, rows)

-----------------------------------------------------------------------------
\* append_fit and append_wire_eol: a line of n characters is cut to the buffer,
\* and ends only when there is room for its end.
Whole(n) == n + 2 < SEND_MAX

\* The lengths of the lines that carry a text to the channel
PrivmsgLen(m, text) == 8 + ChannelLen[m.channel] + 2 + TextLen[text]
ActionLen(m, text)  == 8 + ChannelLen[m.channel] + 3 + 7 + (TextLen[text] - 4) + 1

\* send_raw: the server hears a line when it comes whole and behind a whole one;
\* the result of the write is not looked at.
Heard(m, n) == m.connected /\ ~m.net.broken /\ Whole(n)
Sent(m, n)  == {[m EXCEPT !.net.broken = @ \/ ~Whole(n)]}
               \cup IF InUse("faults") THEN {m, [m EXCEPT !.net.broken = TRUE]} ELSE {}

\* The text is shown as said, whether the server heard it or not.
Says(m, n) ==
  {StoreRow([s EXCEPT !.unheard = @ \/ ~Heard(m, n) \/ s.net.broken], <<"own", 0>>) :
     s \in Sent(m, n)}

Joins(m, channel) ==
  [m EXCEPT !.channel = channel,
            !.net.joined = IF m.net.broken THEN @ ELSE channel]

\* connect_irc, send_login: a new socket, on which nothing was said yet.  What
\* was received of a line on the old socket is kept.
NewSocket(m) ==
  [m EXCEPT !.connected = TRUE,
            !.net = [line |-> <<>>, joined |-> m.channel, broken |-> FALSE,
                     mixed |-> m.in # <<>> \/ m.dropping]]
Connected(m)  == {StoreRow(NewSocket(StoreRow(m, Status)), Status)}
NotDetected(m) == {StoreRow(m, Status)}
ConnectFailed(m) ==
  IF InUse("faults")
  THEN NotDetected(m) \cup {[StoreRows(m, <<Status, Status, Status>>) EXCEPT !.connected = FALSE]}
  ELSE {}

SetUp(m) == DrawSetup([m EXCEPT !.wanted = FALSE, !.ui = "setup"])

\* connection_lost
Lost(m) ==
  LET gone == StoreRow([m EXCEPT !.connected = FALSE], Status)
  IN  IF gone.wanted
      THEN {StoreRow(n, Status) : n \in Connected(gone)} \cup
             {SetUp(n) : n \in ConnectFailed(gone)}
      ELSE {SetUp(gone)}

\* disconnect_irc
Disconnected(m) ==
  IF m.connected THEN StoreRow([m EXCEPT !.connected = FALSE], Status) ELSE m

-----------------------------------------------------------------------------
\* parse_irc_line: the kind of a line is that of its first piece.
Parsed(m, line) ==
  CASE line[1][1] = "ping" -> Sent(m, 5 + Len(line))
    [] line[1][1] = "dm"   -> {StoreRow(m, Status)}
    [] OTHER               -> {StoreRows(m, line)}

\* Mutant: the mark of a line that is dropped is left.
EndOfLineKept(m) ==
  LET n == [m EXCEPT !.in = <<>>, !.net.mixed = FALSE]
  IN  IF m.dropping \/ m.in = <<>> THEN {n} ELSE Parsed(n, m.in)

\* process_rx_byte, for the end of a line ...
EndOfLine(m) ==
  LET n == [m EXCEPT !.in = <<>>, !.dropping = FALSE, !.net.mixed = FALSE]
  IN  IF m.dropping \/ m.in = <<>> THEN {n} ELSE Parsed(n, m.in)

\* ... and for a part of one.
Received(m, piece) ==
  CASE m.dropping -> m
    [] ~m.dropping /\ Len(m.in) < IRC_IN_MAX -> [m EXCEPT !.in = Append(@, piece)]
    [] OTHER -> [m EXCEPT !.dropping = TRUE]

\* The server goes on with its line, ends it, or starts another.
Reads(m) ==
  IF m.net.line = <<>>
  THEN {Received([m EXCEPT !.net.line = <<k, 1>>], <<k, 1>>) : k \in ServerLines[mode]}
  ELSE LET kind == m.net.line[1] n == m.net.line[2]
       IN  IF n < Pieces[kind]
           THEN {Received([m EXCEPT !.net.line[2] = n + 1], <<kind, n + 1>>)}
           ELSE EndOfLine([m EXCEPT !.net.line = <<>>])

\* poll_network and probe_resumed_connection: bytes, none, or an error.  Several
\* pieces that are read at once have the effect of several reads.
Polls(m) == Reads(m) \cup IF InUse("faults") THEN Lost(m) ELSE {}

-----------------------------------------------------------------------------
\* main, with or without a bank for the rows
NoNet == [line |-> <<>>, joined |-> "", broken |-> FALSE, mixed |-> FALSE]
Machine(reu, channel) ==
  LET max == IF reu THEN REU_MAX_LINES ELSE OUTPUT_H
  IN  [ui |-> "setup", help |-> FALSE, connected |-> FALSE, wanted |-> FALSE,
       channel |-> channel, input |-> "", max |-> max, first |-> 0, count |-> 0,
       back |-> 0, log |-> [i \in 0 .. max - 1 |-> Blank], said |-> <<>>,
       shown |-> Covered, in |-> <<>>, dropping |-> FALSE, net |-> NoNet,
       unheard |-> FALSE]

Machines == {Machine(reu, CHOOSE c \in Channels : TRUE) :
               reu \in IF InUse("noreu") THEN {FALSE} ELSE {TRUE}}

Init ==
  /\ mode \in Modes
  /\ ram \in Machines
  /\ store = {} /\ todo = "keys"

Running    == todo = "keys"
Becomes(m) == ram' = m /\ UNCHANGED <<store, todo, mode>>
Keys(ui)   == Running /\ ~ram.help /\ ram.ui = ui

Poll == Running /\ ram.ui = "chat" /\ ram.connected /\ \E n \in Polls(ram) : Becomes(n)

Help      == Running /\ ~ram.help /\ InUse("help") /\ Becomes(DrawHelp(ram))
CloseHelp == Running /\ ram.help /\
               Becomes(IF ram.ui = "setup" THEN DrawSetup(ram) ELSE DrawShell(ram))

\* setup_connect, after the settings were edited
Connect ==
  /\ Keys("setup")
  /\ \E c \in Channels :
       LET m == DrawShell([ram EXCEPT !.channel = c, !.wanted = TRUE, !.ui = "chat"])
       IN  \E n \in Connected(m) \cup {SetUp(f) : f \in ConnectFailed(m)} : Becomes(n)

\* disconnect_to_setup
Disconnects(m) == \E n \in Sent(m, 27) : Becomes(SetUp(Disconnected(n)))
Disconnect == Keys("chat") /\ InUse("quit") /\ Disconnects(ram)

\* handle_chat_key
Enter ==
  /\ Keys("chat") /\ ram.input = ""
  /\ \E text \in Texts[mode] : TextLen[text] <= INPUT_MAX /\
       Becomes([ram EXCEPT !.input = text])

ScrollUp ==
  /\ Keys("chat") /\ InUse("scroll")
  /\ ram.back < Min({Start(ram), ScrollCap})
  /\ Becomes(ShiftDown([ram EXCEPT !.back = @ + 1]))

ScrollDown ==
  /\ Keys("chat") /\ ram.back > 0
  /\ Becomes(ShiftUp([ram EXCEPT !.back = @ - 1]))

\* handle_input_submit
Submit(texts) == Keys("chat") /\ ram.input \in texts
Cleared(m) == [m EXCEPT !.input = ""]

SubmitText ==
  /\ Submit({"text", "long"})
  /\ \E n \in Says(ram, PrivmsgLen(ram, ram.input)) : Becomes(Cleared(n))

SubmitAction ==
  /\ Submit({"/me", "/me long"})
  /\ \E n \in Says(ram, ActionLen(ram, ram.input)) : Becomes(Cleared(n))

SubmitJoin ==
  /\ Submit({"/join"})
  /\ \E c \in Channels :
       IF c = ram.channel THEN Becomes(Cleared(StoreRow(ram, Status)))
       ELSE \E n \in Sent(ram, 23 + ChannelLen[ram.channel]) :
              \E k \in Sent(Joins(n, c), 5 + ChannelLen[c]) :
                Becomes(Cleared(StoreRow(k, Status)))

SubmitNames ==
  /\ Submit({"/names"})
  /\ \E n \in Sent(ram, 6 + ChannelLen[ram.channel]) : Becomes(Cleared(n))

SubmitDisconnect == Submit({"/disconnect"}) /\ Disconnects(Cleared(ram))

\* "/msg", and "/join" or "/names" of what is no channel
SubmitOther == Submit({"/msg"}) /\ Becomes(Cleared(StoreRow(ram, Status)))

-----------------------------------------------------------------------------
\* resume_save_state; what the bank holds stays there.
Payload(m) ==
  [f \in {"ui", "connected", "wanted", "channel", "input", "max", "first", "count",
          "back", "in", "dropping", "log", "said"} |-> m[f]]
Away(m) == [Machine(m.max # OUTPUT_H, m.channel) EXCEPT !.net = m.net, !.unheard = m.unheard]

LeaveAs(m) ==
  todo' = "left" /\ store' = {Payload(m)} /\ ram' = Away(m) /\ UNCHANGED mode

Leave == Running /\ InUse("resume") /\ LeaveAs(ram)

SubmitQuit ==
  /\ Submit({"/quit"})
  /\ \E n \in Sent(ram, 14) :
       LeaveAs([Disconnected(n) EXCEPT !.wanted = FALSE, !.ui = "setup"])

\* RUN/STOP, or a reset, and a session that gives the program the same bank again
\* (see ResumeState): the payload of an earlier time is found.  Only
\* for a program whose rows are in the payload: with a bank, its later rows and
\* the older counters would meet.
Stop ==
  /\ Running /\ InUse("stop")
  /\ todo' = "left" /\ ram' = Away(ram) /\ UNCHANGED <<store, mode>>

\* main and resume_restore_state; the socket is tried.
Stale == InUse("stop")
Restored(m, p) ==
  LET n == p @@ [m EXCEPT !.connected = p.connected /\ p.wanted,
                          !.net.mixed = @ \/ Stale]
  IN  IF n.ui = "setup" THEN {DrawSetup(n)}
      ELSE LET d == DrawShell(n)
               s == IF n.max = OUTPUT_H THEN StoreRow(d, Status) ELSE d
           IN  CASE s.wanted /\ s.connected -> {s} \cup Polls(s)
                 [] s.wanted /\ ~s.connected ->
                      Connected(s) \cup {SetUp(f) : f \in ConnectFailed(s)}
                 [] OTHER -> {s}

Restart ==
  /\ todo = "left" /\ todo' = "keys"
  /\ IF store = {} THEN ram' \in Machines
     ELSE \E p \in store : ram' \in Restored(ram, p)
  /\ store' = IF Stale THEN store ELSE {}
  /\ UNCHANGED mode

Next ==
  \/ Poll \/ Help \/ CloseHelp \/ Connect \/ Disconnect \/ Enter
  \/ ScrollUp \/ ScrollDown
  \/ SubmitText \/ SubmitAction \/ SubmitJoin \/ SubmitNames
  \/ SubmitDisconnect \/ SubmitOther \/ SubmitQuit
  \/ Leave \/ Stop \/ Restart

-----------------------------------------------------------------------------
\* draw_output_row: the rows on the screen are those a full redraw would show,
\* although a row that comes in and a scroll draw one row only.
ScreenShowsLog ==
  Running => ram.shown = IF ram.help \/ ram.ui = "setup" THEN Covered ELSE Picture(ram)

\* store_line: the ring holds the rows said last, in order, also after a resume.
LogKept ==
  Running => [i \in 1 .. ram.count |-> Line(ram, i - 1)] = ram.said

\* connection_lost: when keys are read in the conversation there is a connection
\* that is wanted, and a failed attempt leads back to the settings.
ChatIsOnline == Running => (ram.ui = "chat" <=> ram.connected) /\
                           (ram.ui = "chat" <=> ram.wanted)

\* process_rx_byte: what was kept of a line is what the server sent of it, across
\* polls and a resume; the first line of a new socket apart, which is appended to
\* what was left of the old one.
LinesWhole ==
  LET sent == IF ram.net.line = <<>> THEN <<>>
              ELSE [i \in 1 .. ram.net.line[2] |-> <<ram.net.line[1], i>>]
  IN  Running /\ ram.connected /\ ~ram.net.mixed =>
        /\ ram.in = SubSeq(sent, 1, Min({Len(sent), IRC_IN_MAX}))
        /\ ram.dropping = (Len(sent) > IRC_IN_MAX)

\* send_login, handle_input_submit: the channel messages are sent to is the one
\* the server knows this user in, as long as every line was heard.
InItsChannel ==
  Running /\ ram.connected /\ ~ram.net.broken => ram.net.joined = ram.channel

\* handle_input_submit: a text that is shown as said was heard by the server as a
\* line of its own.  Claimed where no write fails and no channel has a long name.
TextIsHeard == ~ram.unheard

Sound ==
  /\ ScreenShowsLog /\ ChatIsOnline /\ LinesWhole
  /\ InUse("stop") \/ LogKept
  /\ InUse("faults") \/ InUse("long") \/ (InItsChannel /\ TextIsHeard)

\* store_line: a row that comes in while the view is scrolled back does not move
\* it, unless the view is at its limit already.
ViewHolds ==
  Running /\ todo' = "keys" /\ ~ram.help /\ ram.ui = "chat" /\ ram'.ui = "chat"
  /\ ram'.said # ram.said /\ ram.back # 0 /\ ram'.back < Min({Start(ram'), ScrollCap})
    => ram'.shown = ram.shown
=============================================================================
