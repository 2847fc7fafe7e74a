--------------------------- MODULE HashDirectory ----------------------------
(***************************************************************************)
(* A client of the library lists a directory and has its files hashed by   *)
(* threads, while other programs change the directory.  Names are hashed   *)
(* as they were listed, whatever has become of the files.                  *)
(***************************************************************************)
EXTENDS ReadFileNames, HashThreads, Functions

CONSTANTS
    Picture,   \* the files CImg can decode; the listing takes all names
    Locked     \* files that other programs may keep from being read for a while

ASSUME PictureAssumption == Picture \subseteq File /\ Locked \subseteq File

directoryVars == <<namesVars, threadVars>>

Names == NamesStep /\ UNCHANGED threadVars

\* strdup(files[i]) copies all count names, also those never written.
Call ==
    /\ pcN = "listed"
    /\ Len(files) = count
    /\ \E asked \in ThreadChoices : CallHashes(count, asked)
    /\ UNCHANGED namesVars

CallOnUnset ==
    /\ pcN = "listed"
    /\ pcH = "idle"
    /\ Len(files) < count
    /\ pcH' = "undefined"
    /\ UNCHANGED <<namesVars, size, threads, made, start, progress, hashes>>

\* What loading a file may come to: it is there, decodes and is not locked, or
\* CImg throws and the call returns -1.
Loads(name) ==
    (IF name \in entries \cap Picture THEN {TRUE} ELSE {FALSE})
        \cup (IF name \in Locked THEN {FALSE} ELSE {})

Threads ==
    /\ \/ Create
       \/ Joined
       \/ \E n \in 0..(made - 1) :
            LET i == start[n] + progress[n]
                name == IF i < Len(files) THEN files[i + 1] ELSE Garbage
            IN \E loaded \in Loads(name) : Hash(n, name, loaded)
    /\ UNCHANGED namesVars

Environment == Others /\ UNCHANGED threadVars

DirectoryStep == Names \/ Call \/ CallOnUnset \/ Threads

DirectoryOver ==
    \/ pcN \in {"failed", "undefined"}
    \/ pcH \in {"hashed", "none", "undefined"}

-----------------------------------------------------------------------------
Listing == entries \cap File

\* While nobody changes the directory and no readdir fails, the names are its
\* files, each once, and count is their number.  More names than were counted
\* are written only if a file was added between the two passes, or the first
\* one broke off; names are left unwritten only if a file was removed.  However
\* the call ends, no find handle is left open.
ListsDirectory ==
    /\ pcN = "listed" /\ changes = 0 /\ ~missed =>
         /\ count = Len(files)
         /\ Range(files) = Listing
         /\ Cardinality(Listing) = count
    /\ pcN = "undefined" => added # {} \/ missed
    /\ pcN = "listed" /\ Len(files) < count => removed # {}
    /\ pcN \in {"failed", "listed"} => dirp.handle = NoHandle

\* The hashes thread n has made.
Made(n) == start[n]..(start[n] + progress[n] - 1)

\* No thread does what another has done, and when the hashes are returned each
\* is that of the file whose name stands beside it, a picture, or what was on
\* the stack, and then the file is no picture, or was gone or locked when its
\* turn came.
HashesAsListed ==
    /\ pcH \in {"create", "hashed"} =>
         /\ DOMAIN hashes = UNION {Made(n) : n \in 0..(made - 1)}
         /\ \A m, n \in 0..(made - 1) : m # n => Made(m) \cap Made(n) = {}
    /\ pcH = "hashed" =>
         /\ DOMAIN hashes = 0..(count - 1)
         /\ \A i \in 0..(count - 1) :
              \/ hashes[i] = files[i + 1] /\ files[i + 1] \in Picture
              \/ hashes[i] = Garbage /\ files[i + 1] \notin Picture \ (removed \cup Locked)

\* A thread leaves the array exactly when the remainder is neither 0 nor one
\* less than the number of threads.
LeavesArray ==
    /\ pcH = "undefined" /\ Len(files) = count => ~Fits(size, threads)
    /\ pcH = "hashed" => Fits(size, threads)

=============================================================================
