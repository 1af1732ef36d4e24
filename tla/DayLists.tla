------------------------------ MODULE DayLists ------------------------------
(***************************************************************************)
(* What the calendar promises its users: every day has a list of           *)
(* appointments, new ones at the end (docs/cal26_rel_format.md).           *)
(***************************************************************************)
EXTENDS Naturals, Sequences

CONSTANTS Day, Text

VARIABLE lists   \* [Day -> Seq(Text)]

Init == lists = [d \in Day |-> <<>>]

Create(d, x) == lists' = [lists EXCEPT ![d] = Append(@, x)]

Delete(d, i) ==
  lists' = [lists EXCEPT ![d] = SubSeq(@, 1, i - 1)
                                  \o SubSeq(@, i + 1, Len(@))]

Edit(d, i, x) == lists' = [lists EXCEPT ![d][i] = x]

\* An item changes places with the one behind it.
Move(d, i) ==
  lists' = [lists EXCEPT ![d][i] = lists[d][i + 1], ![d][i + 1] = lists[d][i]]

Rebuild == Init'

Next ==
  \/ \E d \in Day, x \in Text : Create(d, x)
  \/ \E d \in Day : \E i \in DOMAIN lists[d] :
       \/ Delete(d, i)
       \/ \E x \in Text : Edit(d, i, x)
       \/ i < Len(lists[d]) /\ Move(d, i)
  \/ Rebuild

Spec == Init /\ [][Next]_lists
=============================================================================
