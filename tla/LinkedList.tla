---------------------------- MODULE LinkedList ----------------------------
(***************************************************************************)
(* The intrusive doubly linked list of src/list.c: a ring of nodes, each    *)
(* inside its object, closed by the node head inside the list.  A list is   *)
(* used by one thread at a time, under the lock of its owner.               *)
(*                                                                          *)
(* A node is its object or ListHead; get_node and get_ptr, which convert    *)
(* between the two by the offset, are not visible here, but that they       *)
(* convert a null pointer into another pointer is: see CursorNext.          *)
(***************************************************************************)
EXTENDS Naturals, Sequences, FiniteSets

CONSTANTS
  Objects,   \* the objects that may be inserted
  ListHead,  \* &list->head
  Null,      \* the null pointer, and what a freed node holds
  Asserts    \* TRUE in a debug build, FALSE under NDEBUG

ASSUME NodesAssumption ==
  /\ ListHead \notin Objects
  /\ Null \notin Objects \cup {ListHead}
  /\ Asserts \in BOOLEAN
  /\ IsFiniteSet(Objects)

Nodes == Objects \cup {ListHead}

VARIABLES
  next, prev,   \* the two links of every node
  size,         \* list->size
  members,      \* the objects that the callers have in the list
  item,         \* the local variable of a cclist_clear in progress, or Null
  cur,          \* what the last query returned to its caller
  aborted       \* TRUE after a failed assertion

vars == <<next, prev, size, members, item, cur, aborted>>

\* The nodes from n along the links f, up to ListHead or a null link.
Path(f, n) ==
  LET Count == Cardinality(Objects)
      at[i \in 0 .. Count] == IF i = 0 THEN n
                              ELSE IF at[i - 1] \in Objects THEN f[at[i - 1]] ELSE at[i - 1]
  IN  [i \in 1 .. Cardinality({j \in 0 .. Count : at[j] \in Objects}) |-> at[i - 1]]

\* A caller may use the list unless a clear is in progress.
Idle == ~aborted /\ item = Null

-----------------------------------------------------------------------------
(* Insertion of an object that is not in the list *)

\* Fault: node->next is overwritten before its old value is used.
DoInsertAfterLate(o, node) ==
  /\ next' = [next EXCEPT ![o] = next[node], ![node] = o]
  /\ prev' = [prev EXCEPT ![o] = o]
  /\ size' = size + 1
  /\ members' = members \cup {o}
  /\ UNCHANGED <<item, cur, aborted>>

\* The four assignments of cclist_do_insert_after, in their order.
DoInsertAfter(o, node) ==
  LET succ == next[node]
  IN  /\ next' = [next EXCEPT ![o] = succ, ![node] = o]
      /\ prev' = [prev EXCEPT ![o] = node, ![succ] = o]
      /\ size' = size + 1
      /\ members' = members \cup {o}
      /\ UNCHANGED <<item, cur, aborted>>

DoInsertBefore(o, node) ==
  LET pred == prev[node]
  IN  /\ next' = [next EXCEPT ![o] = node, ![pred] = o]
      /\ prev' = [prev EXCEPT ![o] = pred, ![node] = o]
      /\ size' = size + 1
      /\ members' = members \cup {o}
      /\ UNCHANGED <<item, cur, aborted>>

InsertFirst(o) == Idle /\ o \notin members /\ DoInsertAfter(o, ListHead)

InsertLast(o) == Idle /\ o \notin members /\ DoInsertBefore(o, ListHead)

InsertAfter(o, i) ==
  Idle /\ o \notin members /\ i \in members /\ DoInsertAfter(o, i)

InsertBefore(o, i) ==
  Idle /\ o \notin members /\ i \in members /\ DoInsertBefore(o, i)

\* cclist_nth_item: the node n links from the first, or ListHead when the list
\* ends before.  Its loop decrements the size_t n once more when n is what
\* stops it, so that the assertion that n is zero holds only if the end of
\* the list stopped it with n just used up.
NthItem(n) == LET p == Path(next, next[ListHead])
              IN  IF n < Len(p) THEN p[n + 1] ELSE ListHead

NthItemLeft(n) == n = Len(Path(next, next[ListHead]))

InsertAt(o, n) ==
  /\ Idle
  /\ o \notin members
  /\ IF Asserts /\ ~NthItemLeft(n)
     THEN aborted' = TRUE /\ UNCHANGED <<next, prev, size, members, item, cur>>
     ELSE DoInsertBefore(o, NthItem(n))

-----------------------------------------------------------------------------
(* Removal *)

Remove(o) ==
  /\ Idle
  /\ o \in members
  /\ next' = [[next EXCEPT ![prev[o]] = next[o]] EXCEPT ![o] = Null]
  /\ prev' = [[prev EXCEPT ![next[o]] = prev[o]] EXCEPT ![o] = Null]
  /\ size' = size - 1
  /\ members' = members \ {o}
  /\ UNCHANGED <<item, cur, aborted>>

\* The node that leaves keeps its links.
RemoveFirst ==
  LET first == next[ListHead]
  IN  /\ Idle
      /\ size # 0
      /\ next' = [next EXCEPT ![ListHead] = next[first]]
      /\ prev' = [prev EXCEPT ![next[first]] = ListHead]
      /\ size' = size - 1
      /\ members' = members \ {first}
      /\ UNCHANGED <<item, cur, aborted>>

RemoveLast ==
  LET last == prev[ListHead]
  IN  /\ Idle
      /\ size # 0
      /\ prev' = [prev EXCEPT ![ListHead] = prev[last]]
      /\ next' = [next EXCEPT ![prev[last]] = ListHead]
      /\ size' = size - 1
      /\ members' = members \ {last}
      /\ UNCHANGED <<item, cur, aborted>>

\* cclist_clear up to its loop.
ClearBegin ==
  /\ Idle
  /\ item' = next[ListHead]
  /\ UNCHANGED <<next, prev, size, members, cur, aborted>>

\* Fault: the link is read after the destructor.
ClearStepLate ==
  /\ ~aborted
  /\ item \in Objects
  /\ item' = Null
  /\ next' = [next EXCEPT ![item] = Null]
  /\ prev' = [prev EXCEPT ![item] = Null]
  /\ members' = members \ {item}
  /\ UNCHANGED <<size, cur, aborted>>

\* One turn: the link is read before the destructor frees the object.
ClearStep ==
  /\ ~aborted
  /\ item \in Objects
  /\ item' = next[item]
  /\ next' = [next EXCEPT ![item] = Null]
  /\ prev' = [prev EXCEPT ![item] = Null]
  /\ members' = members \ {item}
  /\ UNCHANGED <<size, cur, aborted>>

ClearEnd ==
  /\ ~aborted
  /\ item = ListHead
  /\ next' = [next EXCEPT ![ListHead] = ListHead]
  /\ prev' = [prev EXCEPT ![ListHead] = ListHead]
  /\ size' = 0
  /\ item' = Null
  /\ UNCHANGED <<members, cur, aborted>>

-----------------------------------------------------------------------------
(* Queries; a caller asks for the neighbour of an object that is in the list *)

ObjectOrNull(n) == IF n = ListHead THEN Null ELSE n

Point(n) == /\ Idle
            /\ cur' = ObjectOrNull(n)
            /\ UNCHANGED <<next, prev, size, members, item, aborted>>

CursorFirst == Point(next[ListHead])

CursorLast == Point(prev[ListHead])

CursorNext == cur \in members /\ Point(next[cur])

CursorPrev == cur \in members /\ Point(prev[cur])

-----------------------------------------------------------------------------
\* The links as cclist_init leaves them; those of an object are not
\* initialised before it is inserted.
EmptyRing == [n \in Nodes |-> IF n = ListHead THEN ListHead ELSE Null]

Init == /\ next = EmptyRing
        /\ prev = EmptyRing
        /\ size = 0
        /\ members = {}
        /\ item = Null
        /\ cur = Null
        /\ aborted = FALSE

Insert(o) == \/ InsertFirst(o)
             \/ InsertLast(o)
             \/ \E i \in Objects : InsertAfter(o, i) \/ InsertBefore(o, i)
             \/ \E n \in 0 .. Cardinality(Objects) : InsertAt(o, n)

Next == \/ \E o \in Objects : Insert(o) \/ Remove(o)
        \/ RemoveFirst \/ RemoveLast
        \/ ClearBegin \/ ClearStep \/ ClearEnd
        \/ CursorFirst \/ CursorLast \/ CursorNext \/ CursorPrev

Spec == Init /\ [][Next]_vars

-----------------------------------------------------------------------------
(* Properties *)

Links == Objects \cup {ListHead, Null}

\* The types of the variables; a size_t that went below zero would be huge.
TypeOK == /\ next \in [Nodes -> Links]
          /\ prev \in [Nodes -> Links]
          /\ size \in Nat
          /\ members \subseteq Objects
          /\ item \in Links
          /\ cur \in Objects \cup {Null}
          /\ aborted \in BOOLEAN

\* Outside a clear, the links of the ring lead from members to members and
\* each undoes the other.
RingLinked ==
  item = Null => \A n \in members \cup {ListHead} :
                   /\ next[n] \in members \cup {ListHead}
                   /\ prev[n] \in members \cup {ListHead}
                   /\ prev[next[n]] = n
                   /\ next[prev[n]] = n

\* list->size, which the callers test for emptiness, counts the members.
SizeCounts == item = Null => size = Cardinality(members)

\* Through every order of insertions and removals, at either end and in the
\* middle, the ring stays closed and its size, kept apart from it, right.
RingInv == TypeOK /\ RingLinked /\ SizeCounts

-----------------------------------------------------------------------------
(* Refinement: the ring is a sequence *)

Abstract == INSTANCE ListSeq WITH
  items  <- IF item = Null THEN Path(next, next[ListHead]) ELSE <<>>,
  doomed <- Path(next, item),
  cursor <- cur

ImplementsListSeq == Abstract!Spec
=============================================================================
