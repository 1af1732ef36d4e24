------------------------------ MODULE UciLink ------------------------------
(***************************************************************************)
(* The Ultimate's command interface and the four gateways to it: Ultimate  *)
(* Zip's (uz_uci.c), ReadyIRC's (readyirc_uci.c), SETUP's (setup_uci.c)    *)
(* and the launcher's (launcher_uci_dma.s).  The cartridge runs beside the *)
(* C64: a push, an accept and an abort are requests that it takes up some  *)
(* time later, and the response comes in blocks.  A gateway only polls the *)
(* status register, and every wait of it may run out.                      *)
(*                                                                         *)
(* `mode' is the gateway, `todo' the loop it is in.  A byte is a pair of   *)
(* the command it answers and its place in the response.                   *)
(***************************************************************************)
EXTENDS Naturals, Sequences, FiniteSets

CONSTANTS
  Responses, \* sequences of blocks [data, stat], the response's bytes up to their ends
  Cap,       \* data bytes that the caller's buffer takes
  Commands,  \* bound: commands in a behaviour
  MaxLate,   \* bound: waits that run out
  MaxErrors, \* bound: errors that the device raises
  Modes      \* "uzip", "readyirc", "setup", "launcher"

VARIABLES
  ram,   \* the transfer record and its result
  store, \* the device: registers, queues, blocks to come, its last response
  todo,  \* [pc, after, old]: the loop, who waits for it, the state it left
  mode

vars == <<ram, store, todo, mode>>

\* A response has a block at least, and no block takes bytes back.
Response ==
  {r \in Seq([data : Nat, stat : Nat]) :
     /\ r # <<>>
     /\ \A k \in 2 .. Len(r) : r[k - 1].data <= r[k].data /\ r[k - 1].stat <= r[k].stat}
UciAssumption ==
  /\ Responses \subseteq Response
  /\ {Cap, Commands, MaxLate, MaxErrors} \subseteq Nat

\* MORE -> BUSY is watched for in the same routine that wrote the accept, with
\* interrupts off
Adjacent == mode \in {"uzip", "setup"}

Transfer(n, each) ==
  [n |-> n, each |-> each, data |-> <<>>, stat |-> <<>>, handed |-> <<>>,
   dropped |-> FALSE, result |-> "none"]

Pends(bits)     == store.pend \cap bits # {}
Responding      == store.state \in {"last", "more"}

\* Nothing to read is not part of it; the callers drain both queues first.
QuietIdle == store.state = "idle" /\ store.pend = {} /\ ~store.error

-----------------------------------------------------------------------------
\* The device.

\* The bytes from, from + 1, ... of the response to the nth command
Bytes(n, from, to) == [j \in 1 .. to - from |-> <<n, from + j>>]
End(k, part) == IF k = 0 THEN 0 ELSE store.resp[k][part]
Block(n, k) ==
  [data |-> Bytes(n, End(k - 1, "data"), End(k, "data")),
   stat |-> Bytes(n, End(k - 1, "stat"), End(k, "stat"))]

TakePush ==
  /\ "push" \in store.pend /\ store.state = "idle"
  /\ \E r \in Responses :
       store' = [store EXCEPT !.pend = @ \ {"push"}, !.state = "busy", !.resp = r,
                              !.next = 1, !.ran = Append(@, store.cmd)]
  /\ UNCHANGED <<ram, todo, mode>>

Publish ==
  /\ store.state = "busy" /\ store.next > 0
  /\ ~(Adjacent /\ todo.pc = "advance" /\ todo.old = "more")
  /\ LET b == Block(store.cmd, store.next)
     IN store' = [store EXCEPT
          !.state = IF store.next = Len(store.resp) THEN "last" ELSE "more",
          !.data = b.data, !.stat = b.stat, !.next = @ + 1]
  /\ UNCHANGED <<ram, todo, mode>>

TakeAccept ==
  /\ "accept" \in store.pend
  /\ store' = [store EXCEPT
       !.pend = @ \ {"accept"}, !.data = <<>>, !.stat = <<>>,
       !.state = CASE @ = "more" -> "busy" [] @ = "last" -> "idle" [] OTHER -> @]
  /\ UNCHANGED <<ram, todo, mode>>

\* What lies in the queues may stay there.
TakeAbort ==
  /\ "abort" \in store.pend
  /\ \E keep \in BOOLEAN :
       store' = [store EXCEPT
         !.pend = @ \ {"abort", "accept"}, !.state = "idle", !.next = 0,
         !.data = IF keep THEN @ ELSE <<>>, !.stat = IF keep THEN @ ELSE <<>>]
  /\ UNCHANGED <<ram, todo, mode>>

RaiseError ==
  /\ store.state # "idle" /\ ~store.error /\ store.errors < MaxErrors
  /\ store' = [store EXCEPT !.error = TRUE, !.errors = @ + 1]
  /\ UNCHANGED <<ram, todo, mode>>

Device == TakePush \/ Publish \/ TakeAccept \/ TakeAbort \/ RaiseError

-----------------------------------------------------------------------------
\* The gateways.  A poll that finds nothing new leaves everything as it is.

Goto(pc, after, old) == todo' = [pc |-> pc, after |-> after, old |-> old]
Finish(result) ==
  /\ ram' = [ram EXCEPT !.result = result]
  /\ Goto("done", "none", "none")
Recover(after) == Goto("recover", after, "none") /\ UNCHANGED ram
Request(bit) == [store EXCEPT !.pend = @ \cup {bit}]

\* The loops for which a sync is done: before a command, before it once more after
\* an abort, and after a command that has failed.
Synced ==
  IF todo.after = "failed" THEN Finish("failed")
  ELSE Goto("push", "none", "none") /\ UNCHANGED ram

NotSynced ==
  IF todo.after = "first" /\ mode # "launcher" THEN Recover("second")
  ELSE Finish("failed")

Call ==
  /\ todo.pc = "done" /\ ram.n < Commands
  /\ \E each \in BOOLEAN :
       /\ each => mode \in {"uzip", "setup"}
       /\ ram' = Transfer(ram.n + 1, each)
  /\ Goto("sync", "first", "none") /\ UNCHANGED <<store, mode>>

\* One turn of sync_interface
Sync ==
  /\ todo.pc = "sync"
  /\ \/ /\ store.error
        /\ store' = [store EXCEPT !.error = FALSE] /\ UNCHANGED <<ram, todo>>
     \/ /\ ~store.error /\ ~Pends({"abort"})
        /\ \/ /\ store.data # <<>>
              /\ store' = [store EXCEPT !.data = Tail(@)] /\ UNCHANGED <<ram, todo>>
           \/ /\ store.data = <<>> /\ store.stat # <<>>
              /\ store' = [store EXCEPT !.stat = Tail(@)] /\ UNCHANGED <<ram, todo>>
           \/ /\ store.data = <<>> /\ store.stat = <<>> /\ Responding
              /\ store' = Request("accept")
              /\ Goto("advance", todo.after, store.state) /\ UNCHANGED ram
           \/ /\ store.data = <<>> /\ store.stat = <<>> /\ QuietIdle
              /\ Synced /\ UNCHANGED store
  /\ UNCHANGED mode

\* A push outside of a quiet IDLE is an error.
Push ==
  /\ todo.pc = "push"
  /\ store' = IF QuietIdle
              THEN [Request("push") EXCEPT !.cmd = ram.n]
              ELSE [store EXCEPT !.error = TRUE, !.refused = TRUE]
  /\ Goto("response", "command", "none") /\ UNCHANGED <<ram, mode>>

\* wait_response_state
AwaitResponse ==
  /\ todo.pc = "response"
  /\ IF store.error THEN Recover("failed")
     ELSE Responding /\ Goto("top", "command", "none") /\ UNCHANGED ram
  /\ UNCHANGED <<store, mode>>

\* The head of the command's loop: the state that the block is taken in
SeeBlock ==
  /\ todo.pc = "top"
  /\ IF store.error THEN Recover("failed")
     ELSE /\ Goto(IF Responding THEN "drain" ELSE "response", "command", store.state)
          /\ UNCHANGED ram
  /\ UNCHANGED <<store, mode>>

Kept(byte) ==
  IF Len(ram.data) < Cap THEN [ram EXCEPT !.data = Append(@, byte)]
  ELSE [ram EXCEPT !.dropped = TRUE]

Drain ==
  /\ todo.pc = "drain" /\ ~store.error
  /\ \/ /\ store.data # <<>>
        /\ ram' = Kept(Head(store.data)) /\ store' = [store EXCEPT !.data = Tail(@)]
     \/ /\ store.data = <<>> /\ store.stat # <<>>
        /\ ram' = [ram EXCEPT !.stat = Append(@, Head(store.stat))]
        /\ store' = [store EXCEPT !.stat = Tail(@)]
  /\ UNCHANGED <<todo, mode>>

DrainError ==
  /\ todo.pc = "drain" /\ store.error
  /\ Recover("failed") /\ UNCHANGED <<store, mode>>

\* on_block gets what the block had, and the buffers are empty again.
Handed ==
  IF ~ram.each THEN ram
  ELSE [ram EXCEPT !.handed = Append(@, [data |-> ram.data, stat |-> ram.stat]),
                   !.data = <<>>, !.stat = <<>>]

Accept ==
  /\ todo.pc = "drain" /\ ~store.error /\ store.data = <<>> /\ store.stat = <<>>
  /\ ram' = Handed /\ store' = Request("accept")
  /\ Goto(IF todo.old = "last" THEN "settle" ELSE "advance", "command", todo.old)
  /\ UNCHANGED mode

AtOnce == TRUE
\* wait_accept_advance, or what uz_uci_asm_accept_more_transition waits for: the
\* state of the block that was accepted is no news.
Advanced == store.state # todo.old

AwaitAdvance ==
  /\ todo.pc = "advance"
  /\ IF store.error /\ ~(Adjacent /\ todo.old = "more")
     THEN IF todo.after = "command" THEN Recover("failed") ELSE NotSynced
     ELSE /\ Advanced /\ UNCHANGED ram
          /\ Goto(IF todo.after = "command" THEN "response" ELSE "sync", todo.after, "none")
  /\ UNCHANGED <<store, mode>>

\* wait_idle
Settle ==
  /\ todo.pc = "settle"
  /\ IF store.error THEN Recover("failed") ELSE QuietIdle /\ Finish("ok")
  /\ UNCHANGED <<store, mode>>

\* abort_and_recover: an abort that is under way is not asked for again.
Abort ==
  /\ todo.pc = "recover"
  /\ store' = Request("abort")
  /\ Goto("sync", todo.after, "none") /\ UNCHANGED <<ram, mode>>

\* A wait that has run out without what it waits for
Late ==
  /\ store.late < MaxLate
  /\ store' = [store EXCEPT !.late = @ + 1]
  /\ \/ todo.pc = "sync" /\ NotSynced
     \/ todo.pc = "advance" /\ ~Advanced /\ todo.after # "command" /\ NotSynced
     \/ todo.pc = "advance" /\ ~Advanced /\ todo.after = "command" /\ Recover("failed")
     \/ todo.pc = "response" /\ ~Responding /\ Recover("failed")
     \/ todo.pc = "settle" /\ ~QuietIdle /\ Recover("failed")
     \/ todo.pc = "drain" /\ store.data # <<>> /\ Recover("failed")
  /\ UNCHANGED mode

Gateway ==
  \/ Call \/ Sync \/ Push \/ AwaitResponse \/ SeeBlock \/ Drain \/ DrainError
  \/ Accept \/ AwaitAdvance \/ Settle \/ Abort \/ Late

-----------------------------------------------------------------------------
\* A block of an earlier program, an error or nothing may have been left behind.
Left == [state |-> "idle", pend |-> {}, error |-> FALSE, data |-> <<>>, stat |-> <<>>,
         resp |-> <<>>, next |-> 0, cmd |-> 0, ran |-> <<>>, refused |-> FALSE,
         late |-> 0, errors |-> 0]
LeftBehind ==
  {Left, [Left EXCEPT !.error = TRUE],
   [Left EXCEPT !.state = "last", !.data = <<<<0, 1>>>>],
   [Left EXCEPT !.state = "busy", !.resp = <<[data |-> 1, stat |-> 1]>>, !.next = 1]}

Init ==
  /\ mode \in Modes /\ ram = Transfer(0, FALSE)
  /\ todo = [pc |-> "done", after |-> "none", old |-> "none"]
  /\ store \in LeftBehind

Next == Device \/ Gateway

Spec == Init /\ [][Next]_vars

-----------------------------------------------------------------------------
TypeOK ==
  /\ store.state \in {"idle", "busy", "last", "more"}
  /\ store.pend \subseteq {"push", "accept", "abort"}
  /\ ram.result \in {"none", "ok", "failed"}

Capped(bytes) == SubSeq(bytes, 1, IF Len(bytes) < Cap THEN Len(bytes) ELSE Cap)
Whole(part) == Bytes(ram.n, 0, End(Len(store.resp), part))

\* A command that is reported as carried out was carried out once, what the caller
\* has is its response, all of it and nothing else, up to the size of the buffer,
\* and the interface is at rest.
OkIsWhole ==
  ram.result = "ok" =>
    /\ Cardinality({i \in DOMAIN store.ran : store.ran[i] = ram.n}) = 1
    /\ IF ram.each
       THEN ram.handed = [k \in DOMAIN store.resp |->
                            [data |-> Capped(Block(ram.n, k).data),
                             stat |-> Block(ram.n, k).stat]]
       ELSE /\ ram.data = Capped(Whole("data")) /\ ram.stat = Whole("stat")
            /\ ram.dropped <=> Len(Whole("data")) > Cap
    /\ QuietIdle /\ store.data = <<>> /\ store.stat = <<>>

\* A command is only pushed into an interface at rest, so no gateway sees its own
\* command refused.
NeverRefused == ~store.refused

\* A command of which nothing goes wrong does not fail in the gateways that watch
\* for MORE -> BUSY in one piece.
CalmSucceeds ==
  Adjacent /\ store.late = 0 /\ store.errors = 0 => ram.result # "failed"

Sound == OkIsWhole /\ NeverRefused /\ CalmSucceeds
=============================================================================
