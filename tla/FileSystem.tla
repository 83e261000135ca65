----------------------------- MODULE FileSystem -----------------------------
(***************************************************************************)
(* The paths and the file reader of src/filesystem.c.                       *)
(*                                                                          *)
(* A path is a sequence of characters, of which only the two separators     *)
(* matter.  A file is its length: another process writes it at any time,    *)
(* also between the two steps in which ccfs_file_read measures and reads.   *)
(***************************************************************************)
EXTENDS Memory, Sequences, FiniteSetsExt, SequencesExt

CONSTANTS
  Components,   \* the arguments of ccfs_path_concat
  MaxParts,     \* bound: how many of them
  Sizes,        \* the sizes of its buffer
  MaxLength,    \* bound: the length of the file
  Wild          \* what memory that was never written holds

Separators == {"/", "\\"}

ASSUME FileSystemAssumption ==
  /\ Sizes \subseteq Nat
  /\ MaxLength \in Nat

ASSUME ComponentsAssumption ==
  /\ \A c \in Components : c \in Seq(ToSet(c))
  /\ MaxParts \in Nat

VARIABLES
  path,      \* a path in its buffer, up to its null
  parts,     \* what it consists of, if it was joined and trimmed by whole names
  asked,     \* what it was joined from and the room for it, until it is trimmed
  file,      \* the length of the file, or Null when there is none
  place,     \* where ccfs_path_read is: "idle", "opened", "measured", "read"
  size,      \* *size, or Null for SIZE_MAX
  least,     \* the least length of the file since it was measured
  data       \* what ccfs_path_read has returned and the program not freed yet

paths == <<path, parts, asked>>
reader == <<place, size, least>>
files == <<paths, reader, file, data>>

Lesser(a, b) == IF a < b THEN a ELSE b

-----------------------------------------------------------------------------
(* Paths *)

\* path_component_length: a component without the separators it ends in.
Stripped(c) ==
  LET ends == {i \in DOMAIN c : c[i] \notin Separators}
  IN  IF ends = {} THEN <<>> ELSE SubSeq(c, 1, Max(ends))

\* pathcpy: CCFS_PATH_SEP for either separator.
Copied(c) == [i \in DOMAIN c |-> IF c[i] \in Separators THEN "/" ELSE c[i]]

\* Fault: the separator is not counted.
NoRoom_short(head, length, room) == head + length >= room

\* The separator counts for the first component as well, which has none.
NoRoom(head, length, room) == head + length + 1 >= room

\* The loop of ccfs_path_concat: the path so far, how many components are in it
\* and whether one has ended the loop.
Concat(cs, room) ==
  LET add(sofar, c) ==
        LET comp == Stripped(c)
        IN  IF sofar.full \/ NoRoom(Len(sofar.out), Len(comp), room)
            THEN [sofar EXCEPT !.full = TRUE]
            ELSE [sofar EXCEPT !.out = @ \o (IF sofar.count = 0 THEN <<>> ELSE <<"/">>) \o Copied(comp),
                               !.count = @ + 1]
  IN  FoldLeft(add, [out |-> <<>>, count |-> 0, full |-> FALSE], cs)

\* With no room at all the null is written all the same, behind the buffer.
ccfs_path_concat(cs, room) ==
  /\ place = "idle"
  /\ asked = Null
  /\ LET names == [i \in DOMAIN cs |-> Copied(Stripped(cs[i]))]
     IN  /\ path' = Concat(cs, room).out
         /\ parts' = SubSeq(names, 1, Concat(cs, room).count)
         /\ asked' = [names |-> names, room |-> room]
  /\ UNCHANGED <<reader, file, data, memory>>

\* Where the loop of ccfs_path_rtrim_i stops, counted from 1: before the
\* separator number n + 1 from the right, or at the first character, which it
\* never looks at.
TrimHead(n) ==
  LET seps == {i \in 2 .. Len(path) : path[i] \in Separators}
      hits == {i \in seps : Cardinality({j \in seps : j >= i}) = n + 1}
  IN  IF hits = {} THEN 1 ELSE Max(hits) - 1

\* Fault: the separator goes with the component.
TrimEnd_one(n) == TrimHead(n)

TrimEnd(n) == TrimHead(n) + 1

\* What is left of the parts when n + 1 names go, one that is empty behind a
\* last separator among them; <<>> if that is not what the path ends in.
PartsLeft(n) ==
  IF /\ n + 1 < Len(parts)
     /\ \A i \in DOMAIN parts : /\ ToSet(parts[i]) \cap Separators = {}
                                /\ parts[i] = <<>> => i = Len(parts)
  THEN SubSeq(parts, 1, Len(parts) - n - 1) \o <<<<>>>>
  ELSE <<>>

\* A path of one character gets its null behind the one it has.
ccfs_path_rtrim_i(n) ==
  /\ place = "idle"
  /\ path # <<>>
  /\ path' = SubSeq(path, 1, Lesser(TrimEnd(n), Len(path)))
  /\ parts' = PartsLeft(n)
  /\ asked' = Null
  /\ UNCHANGED <<reader, file, data, memory>>

-----------------------------------------------------------------------------
(* ccfs_path_read *)

ccfs_file_open == /\ place = "idle"
                  /\ path # <<>>
                  /\ place' = IF file = Null THEN "idle" ELSE "opened"
                  /\ path' = <<>>
                  /\ parts' = <<>>
                  /\ asked' = Null
                  /\ UNCHANGED <<size, least, file, data, memory>>

\* Of what is no file on a disk ftell may not give a length but -1.
Measure == /\ place = "opened"
           /\ size' \in {file, Null}
           /\ least' = file
           /\ place' = "measured"
           /\ UNCHANGED <<paths, file, data, memory>>

\* Fault: the null is behind what was measured after the reading.
NullAt_got(got) == got + 1

NullAt(got) == size + 1

\* Allocates one byte more than was measured and reads what there is by now.
ReadAll(b) ==
  /\ place = "measured"
  /\ size # Null
  /\ cc_alloc(b)
  /\ LET got == Lesser(size, file)
         cells == [i \in 1 .. size + 1 |-> IF i = NullAt(got) THEN "null"
                                           ELSE IF i <= got THEN "byte" ELSE Wild]
     IN  data' = [d \in DOMAIN data \cup {b} |->
                    IF d = b THEN [cells |-> cells, whole |-> Lesser(size, least)] ELSE data[d]]
  /\ place' = "idle"
  /\ size' = 0
  /\ least' = 0
  /\ UNCHANGED <<paths, file>>

\* One byte more than SIZE_MAX are none, so that there is no block to read into or to
\* write the null to, whatever the allocator makes of it.
ReadFails == /\ place = "measured"
             /\ IF size = Null THEN Ends("crashed") ELSE cc_alloc_fails
             /\ UNCHANGED files

\* The program is done with what it has read.
FreeData(b) == /\ b \in DOMAIN data
               /\ cc_free(b)
               /\ data' = [d \in DOMAIN data \ {b} |-> data[d]]
               /\ UNCHANGED <<paths, reader, file>>

-----------------------------------------------------------------------------
\* Another process makes, extends or cuts the file.
OtherWrites(length) == /\ file' = length
                       /\ least' = Lesser(least, length)
                       /\ UNCHANGED <<paths, place, size, data, memory>>

FileInit == /\ path = <<>>
            /\ parts = <<>>
            /\ asked = Null
            /\ file \in {Null} \cup 0 .. MaxLength
            /\ place = "idle"
            /\ size = 0
            /\ least = 0
            /\ data = [b \in {} |-> Null]
=============================================================================
