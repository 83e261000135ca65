----------------------------- MODULE ObjectHeap -----------------------------
(***************************************************************************)
(* The objects of src/value.c: gc_new links each object in front of a chain *)
(* that gc_deinit frees.  gc_collect, which is called once more objects     *)
(* were made than the threshold, follows the chain and frees nothing yet.   *)
(***************************************************************************)
EXTENDS Memory, Sequences

CONSTANT Threshold   \* GC_INITIAL_THRESHOLD

ASSUME ObjectHeapAssumption == Threshold \in Nat

VARIABLES
  gc,          \* the obj_gc_t: "raw" before gc_init, "live" after it, "deleting" in gc_deinit
  obj,         \* the local variable of gc_deinit
  head,        \* gc->head
  allocated,   \* gc->allocated
  link,        \* the field next of every object that is allocated
  strayed      \* TRUE once gc_collect has followed a link of a block that was freed

objects == <<gc, obj, head, allocated, link, strayed>>

\* The blocks from b along the links, as far as they are objects.
Chain(b) ==
  LET Count == Cardinality(Blocks)
      at[i \in 0 .. Count] == IF i = 0 THEN b
                              ELSE IF at[i - 1] \in DOMAIN link THEN link[at[i - 1]] ELSE at[i - 1]
  IN  [i \in 1 .. Cardinality({j \in 0 .. Count - 1 : at[j] \in DOMAIN link}) |-> at[i - 1]]

\* Where the objects begin that are left.
First == IF gc = "deleting" THEN obj ELSE head

InChain == {Chain(First)[i] : i \in DOMAIN Chain(First)}

gc_init == /\ gc = "raw"
           /\ gc' = "live"
           /\ head' = Null
           /\ allocated' = 0
           /\ link' = [b \in {} |-> Null]
           /\ UNCHANGED <<obj, strayed, memory>>

DeinitBegin == /\ gc = "live"
               /\ gc' = "deleting"
               /\ obj' = head
               /\ UNCHANGED <<head, allocated, link, strayed, memory>>

\* Fault: the link is read after the object is freed, and is gone.
NextOf_late(b) == IF b \in DOMAIN link' THEN link'[b] ELSE Null

NextOf(b) == link[b]

\* A turn of the loop of gc_deinit, between which other threads allocate and free.
DeinitNext == /\ gc = "deleting"
              /\ obj # Null
              /\ cc_free(obj)
              /\ link' = [b \in DOMAIN link \ {obj} |-> link[b]]
              /\ obj' = NextOf(obj)
              /\ UNCHANGED <<gc, head, allocated, strayed>>

\* Initialises the collector again.
DeinitEnd == /\ gc = "deleting"
             /\ obj = Null
             /\ gc' = "live"
             /\ head' = Null
             /\ allocated' = 0
             /\ UNCHANGED <<obj, link, strayed, memory>>

gc_deinit == DeinitBegin \/ DeinitNext \/ DeinitEnd

\* Counts the object, collects, and only then links the object in.
gc_new(b) ==
  /\ gc = "live"
  /\ cc_alloc(b)
  /\ allocated' = allocated + 1
  /\ strayed' = (strayed \/ (allocated' > Threshold /\ ~(InChain \subseteq Allocated)))
  /\ link' = [d \in DOMAIN link \cup {b} |-> IF d = b THEN head ELSE link[d]]
  /\ head' = b
  /\ UNCHANGED <<gc, obj>>

gc_new_fails == gc = "live" /\ cc_alloc_fails /\ UNCHANGED objects

ObjectInit == /\ gc = "raw"
              /\ obj = Null
              /\ head = Null
              /\ allocated = 0
              /\ link = [b \in {} |-> Null]
              /\ strayed = FALSE
=============================================================================
