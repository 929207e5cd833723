------------------------------- MODULE Tables -------------------------------
(***************************************************************************)
(* The precomputed tables are looked for in up to three files              *)
(* (src/precomputed_tables.cpp): the one the environment names, if it      *)
(* does, the build tree's and the installed one. All fill the same tables, *)
(* one table after the other, as far as each goes; the first whole file    *)
(* ends the search, and so does the last one.                              *)
(***************************************************************************)
EXTENDS Integers, Sequences, SequencesExt

CONSTANTS
  Paths,     \* where the files are, that of VKZG_TABLES_PATH first
  Names,     \* the tables, in the order the file has them
  Counted    \* those whose length is in the header

ASSUME TablesAssumption ==
  /\ Paths \in Seq(STRING) /\ Len(Paths) > 1
  /\ Names \in Seq(STRING) /\ Len(Names) > 0 /\ IsInjective(Names)
  /\ Counted \subseteq DOMAIN Names

\* A definition whose name ends in _word is a variant of the one that follows
\* it, with a bug the code could have had; the specification never uses it.

VARIABLES
  path,     \* the file it is at
  file,     \* what that file is, while it is open
  reading,  \* the table to read next; 0 is the header
  tables,   \* of each table: which file filled it last, and if it did so to the end
  found     \* what the search has come to

tableVars == <<path, file, reading, tables, found>>

\* A file: its magic and version, how many of the tables it has, and if the header
\* has counts that no memory suffices for.
Files == [header : {"short", "foreign", "old", "good"}, whole : 0..Len(Names), huge : BOOLEAN]
NotOpen == [header |-> "closed", whole |-> 0, huge |-> FALSE]

Searching == found = "none"
NoTables == [n \in DOMAIN Names |-> [from |-> 0, whole |-> FALSE]]

TablesInit ==
  /\ path = 1 /\ file = NotOpen /\ reading = 0
  /\ tables = NoTables
  /\ found = "none"

\* A search begins, with VKZG_TABLES_PATH set or not.
Search ==
  /\ path' \in {1, 2}
  /\ file' = NotOpen /\ reading' = 0
  /\ tables' = NoTables
  /\ found' = "none"

-----------------------------------------------------------------------------

\* load_from returns: a failure takes the search to the next file, if there is one.
LoadReturns(code) ==
  /\ file' = NotOpen
  /\ reading' = 0
  /\ IF code # "OK" /\ path < Len(Paths) THEN path' = path + 1 /\ UNCHANGED found
     ELSE found' = code /\ UNCHANGED path

Open ==
  /\ Searching /\ file = NotOpen
  /\ \/ LoadReturns("IO")
     \/ file' \in Files /\ UNCHANGED <<path, reading, found>>
  /\ UNCHANGED tables

ReadHeader ==
  /\ Searching /\ file # NotOpen /\ reading = 0
  /\ IF file.header = "good" THEN reading' = 1 /\ UNCHANGED <<path, file, found>>
     ELSE LoadReturns("SETUP")
  /\ UNCHANGED tables

\* fread gives all it was asked for.
ReadExact_butLast(n) == n <= file.whole \/ n = Len(Names)
ReadExact(n) == n <= file.whole

\* The vector is resized, then filled as far as the file goes.
ReadTable ==
  /\ Searching /\ file # NotOpen /\ reading \in DOMAIN Names
  /\ tables' = [tables EXCEPT ![reading] = [from |-> path, whole |-> reading <= file.whole]]
  /\ IF ReadExact(reading) THEN reading' = reading + 1 /\ UNCHANGED <<path, file, found>>
     ELSE LoadReturns("SETUP")

\* std::bad_alloc passes through; nothing closes the file.
ResizeThrows ==
  /\ Searching /\ file # NotOpen
  /\ reading \in Counted /\ file.huge
  /\ found' = "thrown"
  /\ file' = NotOpen
  /\ UNCHANGED <<path, reading, tables>>

ReadAll ==
  /\ Searching /\ file # NotOpen /\ reading > Len(Names)
  /\ LoadReturns("OK")
  /\ UNCHANGED tables

LoadNext == Open \/ ReadHeader \/ ReadTable \/ ReadAll

-----------------------------------------------------------------------------
(* Properties *)

TablesTypeOK ==
  /\ path \in DOMAIN Paths
  /\ file \in Files \cup {NotOpen}
  /\ reading \in 0..(Len(Names) + 1)
  /\ tables \in [DOMAIN Names -> [from : {0} \cup DOMAIN Paths, whole : BOOLEAN]]
  /\ found \in {"none", "OK", "IO", "SETUP", "thrown"}

\* What a search that succeeds hands over is one file's, whole, whatever the
\* files it gave up before have left in the tables.
TablesOfOneFile == found = "OK" =>
  \A n \in DOMAIN Names : tables[n] = [from |-> path, whole |-> TRUE]
=============================================================================
