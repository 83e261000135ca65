------------------------------ MODULE Storage ------------------------------
(***************************************************************************)
(* A program that joins and trims paths, reads files and keeps objects: what *)
(* src/filesystem.c and src/value.c allocate and free through src/memory.c. *)
(* One thread keeps the objects and another reads the files, which another  *)
(* process writes.                                                          *)
(***************************************************************************)
EXTENDS FileSystem, ObjectHeap

CONSTANT Trims   \* the arguments num_dirs of ccfs_path_rtrim_i

ASSUME TrimsAssumption == Trims \subseteq Nat

ComponentLists == UNION {[1 .. n -> Components] : n \in 0 .. MaxParts}

\* Paths are made while nothing is allocated: they have no part in the rest.
MakePath == /\ Allocated = {}
            /\ gc = "raw"
            /\ UNCHANGED objects
            /\ \/ \E cs \in ComponentLists, room \in Sizes : ccfs_path_concat(cs, room)
               \/ \E n \in Trims : ccfs_path_rtrim_i(n)

UseFiles == /\ UNCHANGED objects
            /\ \/ ccfs_file_open \/ Measure \/ ReadFails
               \/ \E b \in Blocks : ReadAll(b) \/ FreeData(b)
               \/ \E length \in 0 .. MaxLength : OtherWrites(length)

UseObjects == /\ UNCHANGED files
              /\ gc_init \/ gc_deinit \/ gc_new_fails \/ \E b \in Blocks : gc_new(b)

UseMemory == /\ UNCHANGED <<files, objects>>
             /\ \E a \in Allocators : cc_set_allocator(a)

Init == MemoryInit /\ FileInit /\ ObjectInit

Next == ended = "no" /\ (MakePath \/ UseFiles \/ UseObjects \/ UseMemory)

vars == <<memory, files, objects>>

Spec == Init /\ [][Next]_vars

-----------------------------------------------------------------------------
(* Properties *)

\* Paths by the components that they are made of.
Joined(ps) ==
  FoldLeft(LAMBDA a, b : a \o b, <<>>,
           [i \in DOMAIN ps |-> IF i = 1 THEN ps[i] ELSE <<"/">> \o ps[i]])

\* ccfs_path_concat stays inside its buffer, of whatever size, and joins as many
\* components as fit with their null, from the first on; only a first component that
\* would fill the buffer to its end is left out.
JoinFits ==
  asked # Null /\ asked.room # 0 =>
    LET fit == {n \in 0 .. Len(asked.names) : Len(Joined(SubSeq(asked.names, 1, n))) < asked.room}
    IN  \/ path = Joined(SubSeq(asked.names, 1, Max(fit)))
        \/ path = <<>> /\ Len(asked.names[1]) + 1 = asked.room

\* What the code of ccfs_path_rtrim_i does, whatever its header says (TrimsNumDirs): it
\* takes off the last n + 1 of the names that a path was joined from and keeps the
\* separator in front of them, again and again, as long as one name is left.
TrimUndoesJoin == parts # <<>> => path = Joined(parts)

\* "Trims [path] in place by [num_dirs] path components" (filesystem.h), with or without
\* the separator in front of them, if it was joined from more names than that.
TrimsNumDirs ==
  [][\A n \in Trims :
       /\ ccfs_path_rtrim_i(n)
       /\ n + 1 < Len(parts)
       /\ \A i \in DOMAIN parts : parts[i] # <<>> /\ ToSet(parts[i]) \cap Separators = {}
       => LET trimmed == Joined(SubSeq(parts, 1, Len(parts) - n))
          IN  path' \in {trimmed, trimmed \o <<"/">>}]_vars

\* What ccfs_path_read returns ends with a null inside its block and is all from the
\* file, up to what another process took away between the measuring and the reading.
ReadWhole ==
  \A b \in DOMAIN data :
    LET cells == data[b].cells
    IN  /\ cells[Len(cells)] = "null"
        /\ \A i \in 1 .. data[b].whole : cells[i] = "byte"

\* Every block that is allocated is an object in the chain or what a file held, never
\* both; every object is in the chain once, also in the part of it that gc_deinit has still
\* to free, which frees each once, whatever else was read, freed or collected in between.
BlocksOwned ==
  /\ ~misfreed /\ ~strayed
  /\ Allocated = InChain \cup DOMAIN data
  /\ InChain \cap DOMAIN data = {}
  /\ IsInjective(Chain(First))
  /\ gc # "deleting" => allocated = Len(Chain(First))
=============================================================================
