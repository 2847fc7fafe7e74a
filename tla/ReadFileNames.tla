--------------------------- MODULE ReadFileNames ----------------------------
(***************************************************************************)
(* ph_readfilenames (pHash/pHash.cpp): one pass over a directory counts    *)
(* its files, an array of that many names is allocated, and a second pass  *)
(* fills it.  Other programs add and remove files meanwhile.               *)
(*                                                                         *)
(* A name written past the array ends the model ("undefined").             *)
(***************************************************************************)
EXTENDS Dirent, Sequences

CONSTANTS
    Dots,        \* the entries "." and ".."
    File,        \* the files there may be
    MaxChanges   \* bound of the number of changes by others

ASSUME NamesAssumption ==
    /\ Dots \cup File \subseteq Nat \ {NoEntry}
    /\ Dots \cap File = {}
    /\ MaxChanges \in Nat

VARIABLES
    entries,    \* what the directory holds
    pcN,        \* where the call is
    dirp,       \* its DIR
    errno,
    count,      \* the number of names, an output
    files,      \* the names written; the array has room for count
    added,      \* history: entries added since the call began,
    removed,    \* removed since,
    missed,     \* and whether readdir failed in the first pass
    changes

names == <<pcN, dirp, errno, count, files, missed>>
others == <<entries, added, removed, changes>>
namesVars == <<names, others>>

\* The call, with the directory chosen.
NamesBegin ==
    /\ pcN = "open"
    /\ dirp = OpenDir
    /\ errno = FALSE
    /\ count = 0
    /\ files = <<>>
    /\ added = {}
    /\ removed = {}
    /\ missed = FALSE
    /\ changes = 0

\* Not a directory: NULL, with count 0.
NotFound ==
    /\ pcN = "open"
    /\ pcN' = "failed"
    /\ UNCHANGED <<dirp, errno, count, files, missed, others>>

Opened ==
    /\ pcN = "open"
    /\ pcN' = "count"
    /\ UNCHANGED <<dirp, errno, count, files, missed, others>>

\* Mutant of Counted: the second dot entry is counted.
CountedDots ==
    /\ pcN = "count"
    /\ \E r \in ReadDir(dirp, entries) :
         /\ dirp' = r.dir
         /\ count' = IF r.entry # NoEntry THEN count + 1 ELSE count
         /\ missed' = (missed \/ r.errno)
         /\ pcN' = IF r.entry = NoEntry THEN "alloc" ELSE "count"
    /\ UNCHANGED <<errno, files, others>>

\* A turn of the first loop.  Why it ends is not asked.
Counted ==
    /\ pcN = "count"
    /\ \E r \in ReadDir(dirp, entries) :
         /\ dirp' = r.dir
         /\ count' = IF r.entry \in File THEN count + 1 ELSE count
         /\ missed' = (missed \/ r.errno)
         /\ pcN' = IF r.entry = NoEntry THEN "alloc" ELSE "count"
    /\ UNCHANGED <<errno, files, others>>

Alloc ==
    /\ pcN = "alloc"
    /\ pcN' = "list"
    /\ errno' = FALSE
    /\ dirp' = RewindDir(dirp)
    /\ UNCHANGED <<count, files, missed, others>>

\* malloc returned NULL; the DIR is not closed.
NoMemory ==
    /\ pcN = "alloc"
    /\ pcN' = "failed"
    /\ UNCHANGED <<dirp, errno, count, files, missed, others>>

\* A turn of the second loop: files[index++] is written, whatever count is.
ListedName ==
    /\ pcN = "list"
    /\ \E r \in ReadDir(dirp, entries) :
         /\ r.entry # NoEntry
         /\ dirp' = r.dir
         /\ errno' = FALSE
         /\ files' = IF r.entry \in File THEN Append(files, r.entry) ELSE files
    /\ pcN' = IF Len(files') > count THEN "undefined" ELSE "list"
    /\ UNCHANGED <<count, missed, others>>

\* readdir returned NULL; after a failure the call returns NULL, and the DIR
\* is not closed.
ListEnds ==
    /\ pcN = "list"
    /\ \E r \in ReadDir(dirp, entries) :
         /\ r.entry = NoEntry
         /\ dirp' = r.dir
         /\ errno' = r.errno
    /\ pcN' = IF errno' THEN "failed" ELSE "listed"
    /\ UNCHANGED <<count, files, missed, others>>

NamesStep ==
    Opened \/ NotFound \/ Counted \/ Alloc \/ NoMemory \/ ListedName \/ ListEnds

-----------------------------------------------------------------------------
(* Other programs.                                                         *)

Add(n) ==
    /\ changes < MaxChanges
    /\ n \notin entries
    /\ entries' = entries \cup {n}
    /\ dirp' \in Noticing(dirp, n, TRUE)
    /\ added' = added \cup {n}
    /\ changes' = changes + 1
    /\ UNCHANGED <<pcN, errno, count, files, missed, removed>>

Delete(n) ==
    /\ changes < MaxChanges
    /\ n \in entries
    /\ entries' = entries \ {n}
    /\ dirp' \in Noticing(dirp, n, FALSE)
    /\ removed' = removed \cup {n}
    /\ changes' = changes + 1
    /\ UNCHANGED <<pcN, errno, count, files, missed, added>>

Others == \E n \in File : Add(n) \/ Delete(n)

=============================================================================
