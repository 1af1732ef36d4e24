------------------------------ MODULE ItemList ------------------------------
(***************************************************************************)
(* What the clipboard promises its users (src/lib/clipboard.h): a list of  *)
(* at most Max items, the newest first.                                    *)
(***************************************************************************)
EXTENDS Naturals, Sequences

CONSTANTS Item, Max

VARIABLE items

Init == items = <<>>

Copy(x) == Len(items) < Max /\ items' = <<x>> \o items

Delete(i) ==
  items' = SubSeq(items, 1, i - 1) \o SubSeq(items, i + 1, Len(items))

Clear == items' = <<>>

Next == \/ \E x \in Item : Copy(x)
        \/ \E i \in DOMAIN items : Delete(i)
        \/ Clear

Spec == Init /\ [][Next]_items
=============================================================================
