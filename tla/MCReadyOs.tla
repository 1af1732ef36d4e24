----------------------------- MODULE MCReadyOs -----------------------------
(***************************************************************************)
(* Instances of ReadyOs for TLC.                                           *)
(***************************************************************************)
EXTENDS ReadyOs

CONSTANTS ed, pl, qn, irc, rb

\* Two plain programs, the first with default hotkey 1, a notes program and a
\* chat client that own banks, and ReadyBASIC.
MCProg        == {ed, pl, qn, irc, rb}
MCDefaultSlot == (ed :> IF NSlots = 0 THEN 0 ELSE 1) @@ [p \in MCProg |-> 0]

\* The notes program takes two banks, the chat client one.
MCNoteBanks   == (qn :> 2) @@ (irc :> 1)

EditorAlone    == <<ed>>
EditorAndNotes == <<ed, qn>>
EditorAndChat  == <<ed, irc>>
=============================================================================
