------------------------------- MODULE Dirent -------------------------------
(***************************************************************************)
(* The directory streams of pHash/dirent.c, over the system's enumeration  *)
(* of a directory.  A DIR is its status dd_stat (0: not begun, n > 0: the  *)
(* n-th entry was returned, -1: at the end) and its find handle.           *)
(*                                                                         *)
(* Entries are numbers, in the order the system enumerates them.  A find   *)
(* handle is the set of entries it has still to return; whether it notices *)
(* that others add or remove an entry is up to the system.                 *)
(***************************************************************************)
EXTENDS Integers, FiniteSetsExt

NoHandle == {-1}   \* dd_handle = -1
NoEntry == 0       \* the null pointer readdir returns

OpenDir == [stat |-> 0, handle |-> NoHandle]

Returned(d, entry, errno) == [dir |-> d, entry |-> entry, errno |-> errno]

AtEndOf(d) == [d EXCEPT !.stat = -1, !.handle = NoHandle]

\* An entry is taken from those that are left.
Taking(d, left) ==
    Returned([d EXCEPT !.stat = @ + 1, !.handle = left \ {Min(left)}],
             Min(left), FALSE)

\* readdir begins the enumeration.  One that finds nothing at all, not even
\* "." as in the root of a drive, leaves errno set.
FindFirst(d, entries) ==
    IF entries = {} THEN Returned([d EXCEPT !.stat = -1], NoEntry, TRUE)
                    ELSE Taking(d, entries)

\* readdir continues it; at the end the handle is closed and errno is reset.
FindNext(d) ==
    IF d.handle = {} THEN Returned(AtEndOf(d), NoEntry, FALSE)
                     ELSE Taking(d, d.handle)

\* Mutant of FindFails: the handle is not closed.
FindFailsOpen(d) == Returned([d EXCEPT !.stat = -1], NoEntry, TRUE)

\* _tfindfirst or _tfindnext fails for another reason: the stream ends there.
FindFails(d) == Returned(AtEndOf(d), NoEntry, TRUE)

\* What readdir may return.
ReadDir(d, entries) ==
    IF d.stat < 0 THEN {Returned(d, NoEntry, FALSE)}
    ELSE IF d.stat = 0 THEN {FindFirst(d, entries), FindFails(d)}
    ELSE {FindNext(d), FindFails(d)}

\* Mutant of RewindDir: the status is not reset.
RewindNothing(d) == d

RewindDir(d) == OpenDir

\* The handles d may have after entry n was added, or removed.
Noticing(d, n, added) ==
    IF d.handle = NoHandle THEN {d}
    ELSE {d, [d EXCEPT !.handle = IF added THEN @ \cup {n} ELSE @ \ {n}]}

=============================================================================
