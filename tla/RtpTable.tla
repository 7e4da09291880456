------------------------------- MODULE RtpTable -------------------------------
(***************************************************************************)
(* What RTPHashTable and RTPKeyHashTable promise: keys without duplicates, *)
(* in the order they were added, and a cursor that goes over them.         *)
(*                                                                         *)
(* The cursor is a position, 0 when there is no current element, or Stale: *)
(* the constructor does not set it, and Clear leaves it at an element that *)
(* is gone.  A stale cursor may only be set to a new place.                *)
(***************************************************************************)
EXTENDS Integers, Sequences, SequencesExt

CONSTANT Key

Stale == -1

VARIABLES items, cursor

tablevars == <<items, cursor>>

Init == items = <<>> /\ cursor = Stale

GotoFirstElement ==
    /\ cursor' = IF items = <<>> THEN 0 ELSE 1
    /\ UNCHANGED items

GotoLastElement ==
    /\ cursor' = Len(items)
    /\ UNCHANGED items

GotoNextElement ==
    /\ cursor # Stale
    /\ cursor' = IF cursor \in {0, Len(items)} THEN 0 ELSE cursor + 1
    /\ UNCHANGED items

GotoPreviousElement ==
    /\ cursor # Stale
    /\ cursor' = IF cursor = 0 THEN 0 ELSE cursor - 1
    /\ UNCHANGED items

\* 0 when the key is not there.
Position(k) == SelectInSeq(items, LAMBDA j : j = k)

GotoElement(k) ==
    /\ cursor' = Position(k)
    /\ UNCHANGED items

HasElement(k) == Position(k) # 0

AddElement(k) ==
    /\ ~HasElement(k)
    /\ items' = Append(items, k)
    /\ UNCHANGED cursor

\* The cursor moves on to the next element.
DeleteAt(p) ==
    /\ items' = RemoveAt(items, p)
    /\ cursor' = IF p = Len(items) THEN 0 ELSE p

DeleteCurrentElement ==
    /\ cursor \in DOMAIN items
    /\ DeleteAt(cursor)

DeleteElement(k) ==
    IF HasElement(k) THEN DeleteAt(Position(k))
    ELSE cursor' = 0 /\ UNCHANGED items

Clear ==
    /\ items' = <<>>
    /\ cursor' = IF cursor = 0 THEN 0 ELSE Stale

Next ==
    \/ GotoFirstElement
    \/ GotoLastElement
    \/ GotoNextElement
    \/ GotoPreviousElement
    \/ \E k \in Key : GotoElement(k) \/ AddElement(k) \/ DeleteElement(k)
    \/ DeleteCurrentElement
    \/ Clear

Spec == Init /\ [][Next]_tablevars

=============================================================================
