-------------------------- MODULE AnalyzeDirectory --------------------------
(***************************************************************************)
(* AnalyzeDirectory, ReadList and SaveList (pHash/pHashWrapper.cpp): the   *)
(* scan of a directory into a list of CImageFile, with the file list       *)
(* "<last component of the path>.imgList" (option -l) as a cache of hashes *)
(* between runs.                                                           *)
(*                                                                         *)
(* The user changes files while the program runs and between runs; the     *)
(* program may be stopped at any point.  A file may be written twice       *)
(* within a second, so that its size and date do not tell that it changed. *)
(* The list file is named after the last component of the path alone, and  *)
(* kept in the current directory: all the directories of the disk share    *)
(* it.                                                                     *)
(***************************************************************************)
EXTENDS ImageFile, Listing, SequencesExt

CONSTANTS
    Order,     \* the relative names, in the order the directory lists them
    Worlds,    \* what the program may be used on, see below
    MaxRuns,   \* bound: calls of AnalyzeDirectory
    MaxEdits   \* bound: changes by the user

Name == Range(Order)
None == [none |-> TRUE]

ASSUME ScanAssumption ==
    /\ Order \in Seq(Name) /\ IsInjective(Order)
    /\ {MaxRuns, MaxEdits} \subseteq Nat
    /\ \A w \in Worlds :
         \* the first disks, by directory and name
         /\ \A d \in w.start :
              /\ d \in [DOMAIN d -> Content \cup {NoFile}]
              /\ DOMAIN d \subseteq {p[1] : p \in DOMAIN d} \X Name
         \* the contents a user may give to a file
         /\ w.photos \subseteq Content
         \* the options a run may be given
         /\ w.options \subseteq [rot : BOOLEAN, useLists : BOOLEAN]
         \* how many hashes may be computed before an exception
         /\ w.calls \subseteq 0..4
         \* what Initialize may learn of a file
         /\ w.opens \subseteq Reading

VARIABLES
    world,      \* one of Worlds; never changes
    disk,       \* the files, by directory and name
    listFile,   \* the records of the .imgList file
    pc,         \* "idle", "scan" or "save"
    dir,        \* the directory analysed
    opt,        \* the options of this run
    m_fv,       \* names found and not yet analysed; taken from the back
    cache,      \* imageListInFile, as read and not yet looked up
    cur,        \* the CImageFile being filled, or None
    imageList,  \* the result: a sequence of [name, img]
    seen,       \* history: the content a listed hash should stand for
    had,        \* history: the contents a name has had, in any directory
    faults,     \* history: "blind", "failed", "raced"; see Open, Hash0, Change
    runs, edits

run == <<world, pc, dir, opt, m_fv, cache, cur, imageList, seen>>
vars == <<disk, listFile, run, had, faults, runs, edits>>

-----------------------------------------------------------------------------
(* The list file.                                                          *)

\* A record of an interrupted SaveList lacks its last fields.
Record(entry) == [name |-> entry.name, img |-> entry.img, whole |-> TRUE]
Torn(entry) == [name |-> entry.name, whole |-> FALSE,
                img |-> [entry.img EXCEPT !.iHash = Blank.iHash]]

\* Mutant of FromRecord: the flag is left as the constructor sets it.
FromRecordUnflagged(r) == [r.img EXCEPT !.ImageCanBeRotated = FALSE]

\* What ReadList makes of a record.
FromRecord(r) == [r.img EXCEPT !.ImageCanBeRotated = HasTurns(r.img)]

\* Mutant of Readable: a record enters the map before it is read whole.
ReadableTorn(recs) == DOMAIN recs

\* ReadList stops at the first record it cannot read whole and keeps those
\* before it; an absent file and an empty one give the same empty map.
Readable(recs) == {i \in DOMAIN recs : \A j \in 1..i : recs[j].whole}

ReadList(recs) ==
    [n \in {recs[i].name : i \in Readable(recs)} |->
        FromRecord(recs[CHOOSE i \in Readable(recs) : recs[i].name = n])]

\* Mutant of Saved: the file is opened to append.
SavedAppending(list, k, torn) ==
    listFile
        \o [i \in 1..k |-> Record(list[i])]
        \o IF torn /\ k < Len(list) THEN <<Torn(list[k + 1])>> ELSE <<>>

\* SaveList truncates the file and writes the list from its start; cut short
\* it leaves k records and perhaps a part of the next.
Saved(list, k, torn) ==
    [i \in 1..k |-> Record(list[i])]
        \o IF torn /\ k < Len(list) THEN <<Torn(list[k + 1])>> ELSE <<>>

-----------------------------------------------------------------------------
(* The scan.                                                               *)

Dir == {p[1] : p \in DOMAIN disk}

SearchFiles(d) ==
    Keep(Order, {n \in Name : <<d, n>> \in DOMAIN disk /\ disk[<<d, n>>] # NoFile})

Begin(d, o) ==
    /\ pc = "idle"
    /\ runs < MaxRuns
    /\ pc' = "scan"
    /\ dir' = d
    /\ opt' = o
    /\ m_fv' = SearchFiles(d)
    /\ cache' = IF o.useLists THEN ReadList(listFile) ELSE <<>>
    /\ cur' = None
    /\ imageList' = <<>>
    /\ seen' = <<>>
    /\ runs' = runs + 1
    /\ UNCHANGED <<world, disk, listFile, had, faults, edits>>

\* The file about to be analysed: m_fv.back().
Name0 == Last(m_fv)
Path0 == <<dir, Name0>>

\* Mutant of Append0: the name stays in m_fv.
Append0Keeping(img) ==
    /\ imageList' = Append(imageList, [name |-> Name0, img |-> img])
    /\ seen' = Put(seen, Name0, disk[Path0])
    /\ UNCHANGED m_fv

Append0(img) ==
    /\ imageList' = Append(imageList, [name |-> Name0, img |-> img])
    /\ seen' = Put(seen, Name0, disk[Path0])
    /\ m_fv' = Front(m_fv)

\* Construct the CImageFile and look its name up; whatever the comparison
\* says, the entry leaves the map.  A size or a date that is not read is noted
\* in faults.
Open(got) ==
    /\ pc = "scan" /\ m_fv # <<>> /\ cur = None
    /\ LET fresh == Initialize(disk[Path0], opt.rot, got)
       IN \/ /\ Name0 \in DOMAIN cache
             /\ SameFile(fresh, cache[Name0])
             /\ Append0(cache[Name0])
             /\ UNCHANGED cur
          \/ /\ Name0 \in DOMAIN cache => ~SameFile(fresh, cache[Name0])
             /\ cur' = fresh
             /\ UNCHANGED <<imageList, seen, m_fv>>
    /\ cache' = Restrict(cache, DOMAIN cache \ {Name0})
    /\ faults' = IF disk[Path0] = NoFile \/ (got.size /\ got.date)
                THEN faults ELSE faults \cup {"blind"}
    /\ UNCHANGED <<world, disk, listFile, pc, dir, opt, had, runs, edits>>

\* CalculateHash opens the file again; its result is not looked at.  A failure
\* that may have passed by the next run is noted in faults.
Hash0(calls) ==
    /\ pc = "scan" /\ cur # None
    /\ Append0(CalculateHash(cur, disk[Path0], calls))
    /\ cur' = None
    /\ faults' = IF calls = 4 /\ disk[Path0] # NoFile
                THEN faults ELSE faults \cup {"failed"}
    /\ UNCHANGED <<world, disk, listFile, pc, dir, opt, cache, had, runs, edits>>

\* Mutant of ParseError: the file is listed with no record.
ParseErrorListed ==
    /\ pc = "scan" /\ m_fv # <<>>
    /\ imageList' = Append(imageList, [name |-> Name0, img |-> None])
    /\ m_fv' = Front(m_fv)
    /\ cur' = None
    /\ UNCHANGED <<world, disk, listFile, pc, dir, opt, cache, seen, had, faults,
                   runs, edits>>

\* Mutant of ParseError: the name is not taken off m_fv.
ParseErrorKept ==
    /\ pc = "scan" /\ m_fv # <<>>
    /\ cur' = None
    /\ UNCHANGED <<world, disk, listFile, pc, dir, opt, m_fv, cache, imageList, seen, had,
                   faults, runs, edits>>

\* catch (exception): the file is logged and left out of the list.
ParseError ==
    /\ pc = "scan" /\ m_fv # <<>>
    /\ m_fv' = Front(m_fv)
    /\ cur' = None
    /\ UNCHANGED <<world, disk, listFile, pc, dir, opt, cache, imageList, seen, had,
                   faults, runs, edits>>

EndOfScan ==
    /\ pc = "scan" /\ m_fv = <<>>
    /\ pc' = IF opt.useLists THEN "save" ELSE "idle"
    /\ UNCHANGED <<world, disk, listFile, dir, opt, m_fv, cache, cur, imageList,
                   seen, had, faults, runs, edits>>

\* SaveList: all of the list, a part of it when a write fails, nothing when
\* the file cannot be opened.  Its result is not looked at either.
SaveList(recs) ==
    /\ pc = "save"
    /\ listFile' = recs
    /\ pc' = "idle"
    /\ UNCHANGED <<world, disk, dir, opt, m_fv, cache, cur, imageList,
                   seen, had, faults, runs, edits>>

CutShort ==
    {Saved(imageList, k, torn) : k \in 0..Len(imageList), torn \in BOOLEAN}

Save == SaveList(Saved(imageList, Len(imageList), FALSE))
SaveFails == \E recs \in CutShort \cup {listFile} : SaveList(recs)

\* The process is stopped; in the middle of SaveList it leaves what was
\* flushed.  imageList was only in memory.
Crash ==
    /\ pc # "idle"
    /\ IF pc = "save" THEN listFile' \in CutShort \cup {listFile}
                      ELSE UNCHANGED listFile
    /\ pc' = "idle"
    /\ m_fv' = <<>> /\ cache' = <<>> /\ cur' = None
    /\ imageList' = <<>> /\ seen' = <<>>
    /\ UNCHANGED <<world, disk, dir, opt, had, faults, runs, edits>>

-----------------------------------------------------------------------------
(* The user.                                                               *)

\* One change of a file.  It is noted in faults when it falls between the two
\* readings of the file being analysed.
Change(d, n, c) ==
    /\ edits < MaxEdits
    /\ edits' = edits + 1
    /\ disk' = [disk EXCEPT ![<<d, n>>] = c]
    /\ had' = [had EXCEPT ![n] = @ \cup {c}]
    /\ faults' = IF cur # None /\ d = dir /\ n = Name0
                 THEN faults \cup {"raced"} ELSE faults
    /\ UNCHANGED <<listFile, run, runs>>

\* A file is written, at the time its content says: it may be a second in
\* which another content was written, and an older file may be put in its place.
Edit(d, n, c) == Change(d, n, c)

Delete(d, n) == disk[<<d, n>>] # NoFile /\ Change(d, n, NoFile)

\* A copy keeps the date of the original.
Copy(d, e, n) == d # e /\ disk[<<d, n>>] # NoFile /\ Change(e, n, disk[<<d, n>>])

-----------------------------------------------------------------------------
Init ==
    /\ world \in Worlds
    /\ disk \in world.start
    /\ listFile = <<>>
    /\ pc = "idle"
    /\ dir \in Dir
    /\ opt \in world.options
    /\ m_fv = <<>> /\ cache = <<>> /\ cur = None
    /\ imageList = <<>> /\ seen = <<>>
    /\ had = [n \in Name |-> {disk[p] : p \in {q \in DOMAIN disk : q[2] = n}}]
    /\ faults = {}
    /\ runs = 0 /\ edits = 0

Work ==
    \/ \E got \in world.opens : Open(got)
    \/ \E calls \in world.calls : Hash0(calls)
    \/ ParseError
    \/ EndOfScan
    \/ Save
    \/ SaveFails

User ==
    \E p \in DOMAIN disk :
        \/ \E c \in world.photos : Edit(p[1], p[2], c)
        \/ Delete(p[1], p[2])
        \/ \E e \in Dir : Copy(p[1], e, p[2])

Next ==
    \/ \E d \in Dir, o \in world.options : Begin(d, o)
    \/ Work
    \/ Crash
    \/ User

\* A call of AnalyzeDirectory is not abandoned: its loop is scheduled until it
\* returns.  Nobody has to start a run, to edit a file or to stop the program.
Spec == Init /\ [][Next]_vars /\ WF_vars(Work)

-----------------------------------------------------------------------------
TypeOK ==
    /\ world \in Worlds
    /\ disk \in [DOMAIN disk -> Content \cup {NoFile}]
    /\ \A i \in DOMAIN listFile :
           listFile[i] \in [name : Name, img : Image, whole : BOOLEAN]
    /\ pc \in {"idle", "scan", "save"}
    /\ dir \in Dir
    /\ opt \in world.options
    /\ m_fv \in Seq(Name)
    /\ DOMAIN cache \subseteq Name /\ Range(cache) \subseteq Image
    /\ cur \in Image \cup {None}
    /\ imageList \in Seq([name : Name, img : Image])
    /\ DOMAIN seen \subseteq Name
    /\ had \in [Name -> SUBSET (Content \cup {NoFile})]
    /\ faults \in SUBSET {"blind", "failed", "raced"}
    /\ runs \in 0..MaxRuns
    /\ edits \in 0..MaxEdits

Listed == Range(imageList)
ListedNames == {e.name : e \in Listed}

\* The record has the size and the second of the content, where it has any.
StampOf(r, c) == r.fSize \in {0, Size(c)} /\ r.fDate \in {0, Date(c)}

\* Whatever runs were interrupted, whatever part of the list file survived and
\* whatever was edited, removed or copied between directories meanwhile, each
\* hash listed for a file was computed from it, from a content that a file of
\* this name had and that was of its size and written in the same second, or
\* never: no other change goes unnoticed, unless it falls between Initialize
\* and CalculateHash, when the hash is stored under the size and date of the
\* content the file no longer has.  A size or date nobody could read tells
\* nothing.
NeverForeign ==
    "raced" \notin faults =>
        \A e \in Listed :
            /\ StampOf(e.img, seen[e.name])
            /\ \E c \in had[e.name] :
                  /\ StampOf(e.img, c)
                  /\ \A i \in Turn : e.img.iHash[i] \in {0, FreshHash(c, TRUE)[i]}

\* All runs are given the same -r.
SameRotation == \A o, q \in world.options : o.rot = q.rot

\* With the same -r in all runs, no passing failure and no file changed while
\* it was analysed, the list file changes nothing but the time, as far as size
\* and second tell: each record has the hashes computed without -l, of the file
\* or of a content it had with the same size in the same second, and allows
\* rotation as the run does, though this is not stored but derived: a picture
\* none of whose turns has a hash may be listed as one that cannot be rotated.
CacheTransparent ==
    SameRotation /\ faults = {} =>
        \A e \in Listed :
            /\ \E c \in had[e.name] :
                  /\ Size(c) = Size(seen[e.name])
                  /\ Date(c) = Date(seen[e.name])
                  /\ e.img.iHash = FreshHash(c, opt.rot)
            /\ e.img.ImageCanBeRotated \in {opt.rot, HasTurns(e.img)}

\* Option -r "allow image rotation": the record of a file carries the value
\* the run was started with.
RotationAsAsked ==
    "failed" \notin faults =>
        \A e \in Listed : e.img.ImageCanBeRotated = opt.rot

\* No file comes twice: the names still to come and the ones in the list are
\* all different, and so are those in the list file, of which the last record
\* only can be torn.
ListedOnce ==
    /\ \A i, j \in DOMAIN imageList :
           imageList[i].name = imageList[j].name => i = j
    /\ IsInjective(m_fv)
    /\ ListedNames \cap Range(m_fv) = {}
    /\ \A i, j \in DOMAIN listFile : listFile[i].name = listFile[j].name => i = j
    /\ \A i \in DOMAIN listFile : ~listFile[i].whole => i = Len(listFile)

\* An interrupted run costs entries, never the list file: what can be read is
\* always the old file or a beginning of the new list.
ReadBack ==
    [][listFile' # listFile =>
           \E k \in 0..Len(imageList) :
               ReadList(listFile') =
                   [n \in {imageList[i].name : i \in 1..k} |->
                       FromRecord(Record(CHOOSE e \in Listed : e.name = n))]]_vars

\* A call of AnalyzeDirectory returns.
Returns == pc # "idle" ~> pc = "idle"

=============================================================================
