------------------------------ MODULE ListSeq ------------------------------
(***************************************************************************)
(* What the list of include/ccore/list.h promises: a sequence of distinct   *)
(* objects, a cursor that walks it either way, and a clear that hands every *)
(* object, first to last, to a destructor.  LinkedList.tla implements it.   *)
(***************************************************************************)
EXTENDS Naturals, SequencesExt

CONSTANTS Objects, Null

VARIABLES items,    \* the objects in the list, first to last
          doomed,   \* those that a clear has yet to destroy
          cursor    \* the object that the last query returned, or Null

vars == <<items, doomed, cursor>>

Members == {items[i] : i \in DOMAIN items}

Place(o) == CHOOSE i \in DOMAIN items : items[i] = o

ItemOrNull(i) == IF i \in DOMAIN items THEN items[i] ELSE Null

\* o becomes the item number i.
Put(o, i) == /\ doomed = <<>>
             /\ o \notin Members
             /\ items' = InsertAt(items, i, o)
             /\ UNCHANGED <<doomed, cursor>>

Take(i) == /\ doomed = <<>>
           /\ i \in DOMAIN items
           /\ items' = RemoveAt(items, i)
           /\ UNCHANGED <<doomed, cursor>>

Point(o) == /\ doomed = <<>>
            /\ cursor' = o
            /\ UNCHANGED <<items, doomed>>

Init == items = <<>> /\ doomed = <<>> /\ cursor = Null

\* Positions count from 0; one beyond the end is the end.
PutNth(o, n) == Put(o, IF n < Len(items) THEN n + 1 ELSE Len(items) + 1)

PutFirst(o) == Put(o, 1)

PutLast(o) == Put(o, Len(items) + 1)

PutAfter(o, item) == item \in Members /\ Put(o, Place(item) + 1)

PutBefore(o, item) == item \in Members /\ Put(o, Place(item))

TakeObject(o) == o \in Members /\ Take(Place(o))

TakeFirst == Take(1)

TakeLast == Take(Len(items))

PointFirst == Point(ItemOrNull(1))

PointLast == Point(ItemOrNull(Len(items)))

PointNext == cursor \in Members /\ Point(ItemOrNull(Place(cursor) + 1))

PointPrev == cursor \in Members /\ Point(ItemOrNull(Place(cursor) - 1))

Clear == /\ doomed = <<>>
         /\ doomed' = items
         /\ items' = <<>>
         /\ UNCHANGED cursor

Destroy == /\ doomed # <<>>
           /\ doomed' = Tail(doomed)
           /\ UNCHANGED <<items, cursor>>

Next == \/ \E o \in Objects : \/ \E n \in 0 .. Len(items) : PutNth(o, n)
                              \/ PutFirst(o) \/ PutLast(o) \/ TakeObject(o)
                              \/ \E i \in Objects : PutAfter(o, i) \/ PutBefore(o, i)
        \/ TakeFirst \/ TakeLast \/ PointFirst \/ PointLast \/ PointNext \/ PointPrev
        \/ Clear \/ Destroy

Spec == Init /\ [][Next]_vars
=============================================================================
