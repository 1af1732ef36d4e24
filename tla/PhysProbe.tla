----------------------------- MODULE PhysProbe -----------------------------
(***************************************************************************)
(* The launcher's probe for the size of the RAM expansion                  *)
(* (src/lib/reu_phys_probe.c).  An REU with fewer banks than a bank number *)
(* can name wraps around: bank n + size is bank n.  The probe marks one    *)
(* byte of its base bank and looks for the first higher bank whose write   *)
(* changes it.  It runs on every start, over banks that hold snapshots and *)
(* data, so it must put every byte back.                                   *)
(***************************************************************************)
EXTENDS Naturals

CONSTANTS
  W,     \* banks a bank number can name: 256 in the code
  Base,  \* the first bank after the ReadyOS bank; the build keeps Base + size
         \* below W for every size below W
  Byte,  \* values of a byte
  Modes  \* sizes of the REU

Mark  == "5A"
Probe == "C3"

VARIABLES
  ram,    \* bank: the loop variable; base, cand, got: bytes; count: the
          \* result, where 0 stands for W; found: the REU's bytes at the start
  store,  \* the REU: [0..size-1 -> the byte at the probed offset]
  todo,   \* the next transfer
  mode    \* the size of the REU

vars == <<ram, store, todo, mode>>

\* The build places the base bank so that a smaller REU shows an alias of it.
ProbeAssumption ==
  /\ W \in Nat \ {0} /\ Base \in 0 .. W - 1
  /\ Modes \subseteq 1 .. W
  /\ \A size \in Modes : size < W => Base + size < W

\* reu_phys_fetch_probe_byte, reu_phys_stash_probe_byte
Fetch(b)    == store[b % mode]
Stash(b, v) == store' = [store EXCEPT ![b % mode] = v]

Start(mem) == [found |-> mem, bank |-> 0, base |-> Mark, cand |-> Mark,
               got |-> Mark, count |-> 0]

Init ==
  /\ mode \in Modes
  /\ store \in [0 .. mode - 1 -> Byte]
  /\ ram = Start(store) /\ todo = "begin"

Begin ==
  /\ todo = "begin"
  /\ ram' = [ram EXCEPT !.found = store, !.base = Fetch(Base),
                        !.bank = Base + 1]
  /\ Stash(Base, Mark)
  /\ todo' = "fetch" /\ UNCHANGED mode

FetchCandidate ==
  /\ todo = "fetch" /\ ram.bank < W
  /\ ram' = [ram EXCEPT !.cand = Fetch(ram.bank)]
  /\ todo' = "stash" /\ UNCHANGED <<store, mode>>

StashCandidate ==
  /\ todo = "stash"
  /\ Stash(ram.bank, Probe)
  /\ todo' = "look" /\ UNCHANGED <<ram, mode>>

LookAtBase ==
  /\ todo = "look"
  /\ ram' = [ram EXCEPT !.got = Fetch(Base)]
  /\ todo' = "back" /\ UNCHANGED <<store, mode>>

PutBack ==
  /\ todo = "back"
  /\ Stash(ram.bank, ram.cand)
  /\ IF ram.got = Probe THEN todo' = "end" /\ UNCHANGED ram
     ELSE todo' = "fetch" /\ ram' = [ram EXCEPT !.bank = @ + 1]
  /\ UNCHANGED mode

Finish(count) ==
  /\ Stash(Base, ram.base)
  /\ ram' = [ram EXCEPT !.count = count]
  /\ todo' = "done" /\ UNCHANGED mode

\* An alias of the base bank: their distance is the size.
Wrapped == todo = "end" /\ Finish((ram.bank - Base) % W)

\* No alias up to the last bank: all W banks exist.
Exhausted == todo = "fetch" /\ ram.bank >= W /\ Finish(0)

\* A reset, at any time; the next start probes what this one left.
Reset ==
  /\ todo # "begin"
  /\ ram' = [Start(store) EXCEPT !.found = ram.found]
  /\ todo' = "begin" /\ UNCHANGED <<store, mode>>

Next == \/ Begin \/ FetchCandidate \/ StashCandidate \/ LookAtBase \/ PutBack
        \/ Wrapped \/ Exhausted \/ Reset

Spec == Init /\ [][Next]_vars

-----------------------------------------------------------------------------
\* The count is the REU's size, whatever the bytes were: 0x5A and 0xC3 may
\* be what a bank held, and an earlier probe may have been cut off.
CountRight == todo = "done" => ram.count = mode % W

\* Every byte is back, the base bank's too, which the probe has overwritten
\* through its alias.
BytesBack == todo = "done" => store = ram.found
=============================================================================
