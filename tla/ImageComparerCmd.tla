-------------------------- MODULE ImageComparerCmd --------------------------
(***************************************************************************)
(* The program (Tst/ImageComparerCmd.cpp) over the files of a disk: runs   *)
(* that scan one or two directories and move duplicates to the DUP         *)
(* directory, a user who changes files at any time, and runs stopped at    *)
(* any point.                                                              *)
(*                                                                         *)
(* The pass over a single list is DedupList; the pass over two lists is    *)
(* here.  AnalyzeDirectory gives a file any record it may come by: one of  *)
(* the list files, or a new one of which nothing, a part or all could be   *)
(* read; when it gives the right one is told by the module of that name.   *)
(***************************************************************************)
EXTENDS ImageFile, Listing, SequencesExt

CONSTANTS
    Order,         \* the paths, [place, name], in the order a search lists them
    Under1,        \* the places at or below <dir>
    Under2,        \* the places at or below <dir2>
    Dest,          \* the place under DUP that replaces a place searched
    Photos,        \* the contents a user may give to a file
    Start0,        \* the disks of the first run
    Options,       \* the command lines: [rot, moveSmaller, two, useLists]
    Openings,      \* what Initialize may learn of a file
    Calls,         \* how many hashes may be computed before an exception
    Stored,        \* the records the list files may hold, as ReadList reads them
    MayFail,       \* what may fail though it could be done: "move", "analysis"
    MaxRuns,       \* bound: runs of the program
    MaxEdits       \* bound: changes by the user

Path == Range(Order)

ASSUME PathAssumption ==
    /\ Order \in Seq(Path) /\ IsInjective(Order)
    /\ \A p \in Path : p = [place |-> p.place, name |-> p.name]
    /\ {MaxRuns, MaxEdits} \subseteq Nat
    /\ Options \subseteq [rot : BOOLEAN, moveSmaller : BOOLEAN, two : BOOLEAN,
                          useLists : BOOLEAN]
    /\ Openings \subseteq Reading /\ Calls \subseteq 0..4
    /\ Stored \subseteq {r \in Image : r.ImageCanBeRotated = HasTurns(r)}
    /\ \A p \in Path : p.place \in Under1 \cup Under2 =>
           [p EXCEPT !.place = Dest[p.place]] \in Path
    /\ Photos \subseteq Content
    /\ Start0 \subseteq [Path -> Content \cup {NoFile}]
    /\ MayFail \subseteq {"move", "analysis"}

VARIABLES
    disk,     \* the files, by path
    phase,    \* "idle", "scan", "scan2", "single" or "template"
    opt,      \* the command line
    m_fv,     \* paths found and not yet analysed; taken from the back
    list,     \* lFiles
    img,      \* the records of lFiles
    lBad,     \* lFiles2, without the elements dealt with
    imgBad,   \* the records of lFiles2
    MoveSmaller, iFile, cDUP, cERROR, dup, beaten,  \* of the pass over lFiles
    start,    \* history: the disk when the run began
    quiet,    \* history: the user changed nothing since
    faults,   \* history: "left" if the run has left out a file, "misread" if
              \* it has listed one with other hashes than the file has
    settled,  \* history: the command line of the last run, if it ended with
              \* no error or fault and nothing changed since
    again,    \* history: this run repeats a settled one
    runs, edits

pass == <<list, img, MoveSmaller, iFile, cDUP, cERROR, dup, beaten>>
bad == <<lBad, imgBad>>
past == <<start, again, runs>>
vars == <<disk, phase, opt, m_fv, pass, bad, past, faults, quiet, settled, edits>>

Pass == INSTANCE DedupList WITH File <- Path, Inputs <- {}

-----------------------------------------------------------------------------
(* FileMove: the DUP subdirectories are created as needed, a file that is  *)
(* gone is not moved, and an existing one is not replaced.                 *)

Destination(p) == [p EXCEPT !.place = Dest[p.place]]

\* Mutant of CanMove: the move replaces an existing file.
CanReplace(p) == disk[p] # NoFile

CanMove(p) == disk[p] # NoFile /\ disk[Destination(p)] = NoFile

\* Mutant of FileMove: a move that fails is reported as one that did not.
FileMoveUnreported(p, moved) ==
    /\ moved
    /\ \/ /\ CanMove(p)
          /\ disk' = [disk EXCEPT ![p] = NoFile, ![Destination(p)] = disk[p]]
       \/ /\ "move" \in MayFail \/ ~CanMove(p)
          /\ UNCHANGED disk

FileMove(p, moved) ==
    IF moved
    THEN /\ CanMove(p)
         /\ disk' = [disk EXCEPT ![p] = NoFile, ![Destination(p)] = disk[p]]
    ELSE /\ "move" \in MayFail \/ ~CanMove(p)
         /\ UNCHANGED disk

-----------------------------------------------------------------------------
(* A run.                                                                  *)

SearchFiles(places) ==
    Keep(Order, {p \in Path : p.place \in places /\ disk[p] # NoFile})

\* Mutant of FreshPass: the iterator of the last run is used again.
StalePass(o) ==
    /\ list' = <<>> /\ img' = <<>>
    /\ MoveSmaller' = o.moveSmaller
    /\ cDUP' = 0 /\ cERROR' = 0
    /\ dup' = {} /\ beaten' = {}
    /\ UNCHANGED iFile

FreshPass(o) ==
    /\ list' = <<>> /\ img' = <<>>
    /\ MoveSmaller' = o.moveSmaller
    /\ iFile' = 1
    /\ cDUP' = 0 /\ cERROR' = 0
    /\ dup' = {} /\ beaten' = {}

Begin(o) ==
    /\ phase = "idle"
    /\ runs < MaxRuns
    /\ phase' = "scan"
    /\ opt' = o
    /\ m_fv' = SearchFiles(Under1)
    /\ FreshPass(o)
    /\ lBad' = <<>> /\ imgBad' = <<>>
    /\ start' = disk
    /\ again' = (settled = {o})
    /\ runs' = runs + 1
    /\ quiet' = TRUE /\ faults' = {}
    /\ UNCHANGED <<disk, settled, edits>>

\* The records AnalyzeDirectory may list for the file at p: with -l one that
\* was stored and agrees with the file, else a new one.
Records(p) ==
    LET new == {Initialize(disk[p], opt.rot, got) : got \in Openings}
    IN {CalculateHash(f, disk[p], calls) : f \in new, calls \in Calls}
       \cup {r \in Stored : opt.useLists /\ \E f \in new : SameFile(f, r)}

\* The record has the hashes of the file at p, and turns if the run asks so.
ReadRight(p, r) ==
    r.iHash = FreshHash(disk[p], opt.rot) /\ r.ImageCanBeRotated = opt.rot

ScanFile ==
    /\ phase \in {"scan", "scan2"}
    /\ m_fv # <<>>
    /\ m_fv' = Front(m_fv)
    /\ LET p == Last(m_fv)
       IN \E r \in Records(p) :
          /\ IF phase = "scan"
             THEN list' = Append(list, p) /\ img' = Put(img, p, r) /\ UNCHANGED bad
             ELSE lBad' = Append(lBad, p) /\ imgBad' = Put(imgBad, p, r)
                  /\ UNCHANGED <<list, img>>
          /\ faults' = IF ReadRight(p, r) THEN faults ELSE faults \cup {"misread"}
    /\ UNCHANGED <<disk, phase, opt, MoveSmaller, iFile, cDUP, cERROR, dup, beaten,
                   past, quiet, settled, edits>>

\* catch (exception): the file is left out, and no error is counted.
ParseError ==
    /\ phase \in {"scan", "scan2"}
    /\ m_fv # <<>> /\ "analysis" \in MayFail
    /\ m_fv' = Front(m_fv)
    /\ faults' = faults \cup {"left"}
    /\ UNCHANGED <<disk, phase, opt, pass, bad, past, quiet, settled, edits>>

\* After <dir>, the pass over its list or the search of <dir2>.
Scanned ==
    /\ phase = "scan" /\ m_fv = <<>>
    /\ IF opt.two
       THEN phase' = "scan2" /\ m_fv' = SearchFiles(Under2)
       ELSE phase' = "single" /\ UNCHANGED m_fv
    /\ UNCHANGED <<disk, opt, pass, bad, past, faults, quiet, settled, edits>>

Scanned2 ==
    /\ phase = "scan2" /\ m_fv = <<>>
    /\ phase' = "template"
    /\ UNCHANGED <<disk, opt, m_fv, pass, bad, past, faults, quiet, settled, edits>>

\* One turn of AnalyzeSingleList.
Single ==
    /\ phase = "single"
    /\ \/ \E j \in 1..Len(list), moved \in BOOLEAN :
              \/ Pass!FileIsWorse(j, moved) /\ FileMove(list[iFile], moved)
              \/ Pass!FindIsWorse(j, moved) /\ FileMove(list[j], moved)
       \/ Pass!Advance /\ UNCHANGED disk
    /\ UNCHANGED <<phase, opt, m_fv, bad, past, faults, quiet, settled, edits>>

\* The files of the template the next bad file is similar to.
SimilarTemplates ==
    {q \in 1..Len(list) : IsSimiliar(img[list[q]], imgBad[Head(lBad)])}

\* One element of AnalizeListWithTemplate: the list is walked, not shortened.
Template ==
    /\ phase = "template" /\ lBad # <<>>
    /\ lBad' = Tail(lBad)
    /\ \/ /\ SimilarTemplates = {}
          /\ UNCHANGED <<disk, cDUP, cERROR, dup, beaten>>
       \/ \E q \in SimilarTemplates, moved \in BOOLEAN :
              /\ \A r \in SimilarTemplates : q <= r
              /\ FileMove(Head(lBad), moved)
              /\ beaten' = beaten \cup {<<Head(lBad), list[q]>>}
              /\ dup' = IF moved THEN dup \cup {Head(lBad)} ELSE dup
              /\ cDUP' = IF moved THEN cDUP + 1 ELSE cDUP
              /\ cERROR' = IF moved THEN cERROR ELSE cERROR + 1
    /\ UNCHANGED <<phase, opt, m_fv, list, img, imgBad, MoveSmaller, iFile, past,
                   faults, quiet, settled, edits>>

Finish ==
    /\ \/ phase = "single" /\ Pass!Done
       \/ phase = "template" /\ lBad = <<>>
    /\ phase' = "idle"
    /\ settled' = IF quiet /\ cERROR = 0 /\ faults = {} THEN {opt} ELSE {}
    /\ UNCHANGED <<disk, opt, m_fv, pass, bad, past, faults, quiet, edits>>

Crash ==
    /\ phase # "idle"
    /\ phase' = "idle"
    /\ settled' = {}
    /\ UNCHANGED <<disk, opt, m_fv, pass, bad, past, faults, quiet, edits>>

-----------------------------------------------------------------------------
(* The user writes, deletes or fetches back a file.                        *)

Change(new) ==
    /\ edits < MaxEdits
    /\ edits' = edits + 1
    /\ disk' = new
    /\ quiet' = FALSE
    /\ settled' = {}
    /\ UNCHANGED <<phase, opt, m_fv, pass, bad, past, faults>>

Edit(p, c) == Change([disk EXCEPT ![p] = c])

Delete(p) == disk[p] # NoFile /\ Change([disk EXCEPT ![p] = NoFile])

-----------------------------------------------------------------------------
Init ==
    /\ disk \in Start0
    /\ phase = "idle"
    /\ opt \in Options
    /\ m_fv = <<>> /\ list = <<>> /\ img = <<>> /\ lBad = <<>> /\ imgBad = <<>>
    /\ MoveSmaller = FALSE
    /\ iFile = 1 /\ cDUP = 0 /\ cERROR = 0 /\ dup = {} /\ beaten = {}
    /\ start = disk
    /\ quiet = TRUE /\ faults = {} /\ settled = {} /\ again = FALSE
    /\ runs = 0 /\ edits = 0

Work ==
    ScanFile \/ ParseError \/ Scanned \/ Scanned2 \/ Single \/ Template \/ Finish

User == \E p \in Path : (\E c \in Photos : Edit(p, c)) \/ Delete(p)

Next == (\E o \in Options : Begin(o)) \/ Work \/ Crash \/ User

\* A run that was started is scheduled until it ends.
Spec == Init /\ [][Next]_vars /\ WF_vars(Work)

-----------------------------------------------------------------------------
TypeOK ==
    /\ disk \in [Path -> Content \cup {NoFile}]
    /\ phase \in {"idle", "scan", "scan2", "single", "template"}
    /\ opt \in Options
    /\ {m_fv, list, lBad} \subseteq Seq(Path)
    /\ Range(list) \subseteq DOMAIN img /\ Range(img) \subseteq Image
    /\ Range(lBad) \subseteq DOMAIN imgBad /\ Range(imgBad) \subseteq Image
    /\ iFile \in 1..(Len(list) + 1)
    /\ {cDUP, cERROR} \subseteq Nat
    /\ dup \subseteq Path /\ beaten \subseteq Path \X Path
    /\ start \in [Path -> Content \cup {NoFile}]
    /\ {quiet, again} \subseteq BOOLEAN
    /\ faults \subseteq {"left", "misread"}
    /\ settled \subseteq Options
    /\ runs \in 0..MaxRuns
    /\ edits \in 0..MaxEdits

Files == {p \in Path : disk[p] # NoFile}

\* Whatever the program does, and wherever it is stopped, it never destroys or
\* overwrites a picture: each content is on the disk as often as before.
NothingLost ==
    [][edits' = edits =>
           \A c \in Range(disk) \ {NoFile} :
               Cardinality({p \in Path : disk'[p] = c})
                   = Cardinality({p \in Path : disk[p] = c})]_vars

\* The places a run may only take files from.
Searched == Under1 \cup IF opt.two THEN Under2 ELSE {}

\* Two directories are searched for different files.
DirectoriesApart == (\E o \in Options : o.two) => Under1 \cap Under2 = {}

\* DUP is neither of the directories, nor below them.
DupApart == \A s \in Under1 \cup Under2 : Dest[s] \notin Under1 \cup Under2

\* Of three pictures the last looks like the first if each looks like the next;
\* only what they show matters.
AlikeIsTransitive ==
    \A c, d, e \in [pic : Pic, turn : Turn], rot \in BOOLEAN :
        LookAlike(c, d, rot) /\ LookAlike(d, e, rot) => LookAlike(c, e, rot)

\* While the user leaves the files alone, and each file listed is listed with
\* its hashes, a picture never goes from the directories searched: one that
\* looks the same is still in them, however far the run has got and whatever
\* files it left out.
OneOfEachStays ==
    quiet /\ "misread" \notin faults => \A p \in Path :
        start[p] # NoFile /\ p.place \in Searched =>
            \E q \in Files :
                /\ q.place \in Searched
                /\ LookAlike(start[p], disk[q], opt.rot)

\* The pictures the program is meant for: CImg loads them, and they have no
\* alpha channel, so that each gets the hashes of what it shows.
Hashed(c) == c.decodable /\ c.spectrum # 4
PicturesHashed ==
    /\ \A c \in Photos : Hashed(c)
    /\ \A disk0 \in Start0 : \A c \in Range(disk0) \ {NoFile} : Hashed(c)

\* A file is treated as a duplicate only of a file that looks like it, if each
\* file listed is listed with its hashes.
MovedIsSimilar ==
    quiet /\ "misread" \notin faults => \A pair \in beaten :
        LookAlike(start[pair[1]], start[pair[2]], opt.rot)

\* The file a duplicate is similar to is another file.
FoundIsAnother == \A pair \in beaten : pair[1] # pair[2]

\* Repeating a run that ended without errors, left out no file and listed each
\* with its hashes, with the same command line and no change by the user, finds
\* no duplicate: unless the repetition misreads a file, even if it leaves some
\* out.
RepeatFindsNothing ==
    again /\ quiet /\ "misread" \notin faults => beaten = {}

\* A run that was started ends, whatever the user does to the files.
Ends == phase # "idle" ~> phase = "idle"

=============================================================================
