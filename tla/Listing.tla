------------------------------ MODULE Listing ------------------------------
(***************************************************************************)
(* SearchFiles (pHash/pHashWrapper.cpp) takes the entries of a directory   *)
(* one by one, in the order the system gives them, and appends the paths   *)
(* of those it looks for.                                                  *)
(***************************************************************************)
EXTENDS Naturals, Sequences

Keep(order, wanted) ==
    LET kept[i \in 0..Len(order)] ==
            IF i = 0 THEN <<>>
            ELSE IF order[i] \in wanted THEN Append(kept[i - 1], order[i])
            ELSE kept[i - 1]
    IN kept[Len(order)]

\* A map in which an entry is made or replaced: the records are kept beside the
\* list of paths they are pushed with.
Put(map, key, value) ==
    [k \in DOMAIN map \cup {key} |-> IF k = key THEN value ELSE map[k]]

=============================================================================
