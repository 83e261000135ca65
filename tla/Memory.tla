------------------------------- MODULE Memory -------------------------------
(***************************************************************************)
(* The allocation functions of src/memory.c.  Every function of the library *)
(* goes through the one allocator that is installed, to allocate and to     *)
(* free, so that a block that is freed after cc_set_allocator goes to an    *)
(* allocator that did not make it.                                          *)
(***************************************************************************)
EXTENDS Naturals, FiniteSets

CONSTANTS
  Blocks,       \* what allocators hand out
  Allocators,   \* the functions that may be installed, "default" for cc_default_alloc
  Asserts,      \* TRUE in a build with assertions
  Null          \* the null pointer

ASSUME MemoryAssumption ==
  /\ Null \notin Blocks
  /\ "default" \in Allocators
  /\ Asserts \in BOOLEAN
  /\ IsFiniteSet(Blocks)   \* the addresses there are

VARIABLES
  allocator,   \* __cc_alloc
  maker,       \* the allocator of each block that is allocated
  misfreed,    \* TRUE once a block was freed that was not allocated, or not by the allocator
  ended        \* "no", or how the program has ended: "aborted" or "crashed"

memory == <<allocator, maker, misfreed, ended>>

Allocated == DOMAIN maker

Ends(how) == ended' = how /\ UNCHANGED <<allocator, maker, misfreed>>

\* An allocator that has none left gives a null pointer, of which only cc_default_alloc
\* takes notice, with an assertion; who called cc_alloc writes through it.
cc_alloc_fails ==
  IF Asserts /\ allocator = "default" THEN Ends("aborted") ELSE Ends("crashed")

\* An allocator gives a block that is not in use.
cc_alloc(b) == /\ b \notin Allocated
               /\ maker' = [d \in Allocated \cup {b} |-> IF d = b THEN allocator ELSE maker[d]]
               /\ UNCHANGED <<allocator, misfreed, ended>>

cc_free(b) ==
  /\ maker' = [d \in Allocated \ {b} |-> maker[d]]
  /\ misfreed' = (misfreed \/ b \notin Allocated \/ maker[b] # allocator)
  /\ UNCHANGED <<allocator, ended>>

\* A program changes allocators while it has no memory of the old one.
cc_set_allocator(a) == /\ Allocated = {}
                       /\ allocator' = a
                       /\ UNCHANGED <<maker, misfreed, ended>>

MemoryInit == /\ allocator = "default"
              /\ maker = [b \in {} |-> Null]
              /\ misfreed = FALSE
              /\ ended = "no"
=============================================================================
