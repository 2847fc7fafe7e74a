---------------------------- MODULE GetDirectory ----------------------------
(***************************************************************************)
(* GetDirectory (pHash/pHashWrapper.cpp): the full path of a directory     *)
(* given on the command line.  A name is a word, and a path the sequence   *)
(* of its names from the drive on.  Words that begin with \\?\ are left    *)
(* out.                                                                    *)
(***************************************************************************)
EXTENDS SequencesExt

CONSTANTS
    Word,      \* the words of a command line
    Drive,     \* the current drive
    Current,   \* the current directory of each drive
    Folders,   \* the directories there are
    Wild,      \* names with wildcards that find a directory before any file
    Blocked,   \* names a directory to be searched may not have
    Parts,     \* the parts of the words with a drive or a slash
    Lower      \* the lower case of the characters that have another one

NoDrive == <<>>
NoDirectory == <<>>   \* the empty string, returned for a refused name

\* What is split are sequences of names.
ASSUME PathAssumption ==
    /\ Drive \in DOMAIN Current
    /\ NoDrive \notin DOMAIN Current
    /\ \A d \in DOMAIN Current : Current[d] \in Seq(Range(Current[d]))
    /\ \A w \in DOMAIN Parts :
          /\ Parts[w].drive \in DOMAIN Current \cup {NoDrive}
          /\ Parts[w].rooted \in BOOLEAN
          /\ Parts[w].dir \in Seq(Range(Parts[w].dir))

Here == Current[Drive]

LowerCase(x) ==
    [k \in DOMAIN x |-> IF x[k] \in DOMAIN Lower THEN Lower[x[k]] ELSE x[k]]

\* _wsplitpath_s: the drive, if any, whether a slash comes next, the names
\* before the last one, and the last one, which is empty after a final slash.
Split(w) ==
    IF w \in DOMAIN Parts THEN Parts[w]
    ELSE [drive |-> NoDrive, rooted |-> FALSE, dir |-> <<>>, last |-> w]

\* _wfindfirst: what it finds first where the program runs is a directory.
FindsFolder(name) == Append(Here, name) \in Folders \/ name \in Wild

\* The last name has a dot, and no directory is found for it: it is taken for
\* a mask.
IsMask(name) == "." \in Range(name) /\ ~FindsFolder(name)

\* The names after the drive and the first slash.
Names(p, name) == p.dir \o (IF name = <<>> THEN <<>> ELSE <<name>>)

\* Mutant of FullPath: the current directory comes first in any case.
FullPathHere(p, name) == Here \o Names(p, name)

\* The text is put together as it was split: from the drive or else from the
\* current directory.  A slash at the front that follows the one of the
\* current directory has an empty name between, and the first name after a
\* drive without a slash becomes a part of it.
FullPath(p, name) ==
    LET names == Names(p, name)
    IN CASE p.drive = NoDrive ->
              Here \o (IF p.rooted /\ names # <<>> THEN <<<<>>>> ELSE <<>>) \o names
         [] p.drive # NoDrive /\ (p.rooted \/ p.dir = <<>>) -> <<p.drive>> \o names
         [] p.drive # NoDrive /\ ~p.rooted /\ p.dir # <<>> ->
              <<p.drive \o Head(names)>> \o Tail(names)

\* A mask is left out of the path.  The name that is looked at is the last
\* one of the path, without regard to case.
GetDirectory ==
    [w \in Word |->
        LET p == Split(w)
            path == FullPath(p, IF IsMask(p.last) THEN <<>> ELSE p.last)
        IN IF LowerCase(Last(path)) \in Blocked THEN NoDirectory ELSE path]

-----------------------------------------------------------------------------
(* What the system takes a word for.                                       *)

\* A slash at the front is the root of the drive; a drive alone stands for
\* its current directory.
Start(p) ==
    LET drive == IF p.drive = NoDrive THEN Drive ELSE p.drive
    IN IF p.rooted THEN <<drive>> ELSE Current[drive]

Named(w) == LET p == Split(w) IN Start(p) \o Names(p, p.last)

\* A path from the root of a drive it names, or one from the current directory.
IsPlain(w) == LET p == Split(w) IN p.rooted <=> p.drive # NoDrive

=============================================================================
