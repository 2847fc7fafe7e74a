----------------------------- MODULE DedupList ------------------------------
(***************************************************************************)
(* AnalyzeSingleList (Tst/ImageComparerCmd.cpp): one pass over the list of *)
(* files of a directory.  Whenever the file under the iterator has a       *)
(* similar file further on, the worse of the two is moved to the DUP       *)
(* directory and erased from the list, even if moving it failed.           *)
(*                                                                         *)
(* A step of the specification is one turn of the while loop: findNext,    *)
(* the comparison, FileMove and the erasure.  FileMove may fail.           *)
(***************************************************************************)
EXTENDS ImageFile, SequencesExt

CONSTANTS
    File,    \* the files listed
    Inputs   \* the lists the pass may be given: [list, img] records

\* AnalyzeDirectory lists every file once.
ASSUME InputsAssumption ==
    /\ IsFiniteSet(File)
    /\ \A in \in Inputs :
         /\ in.list \in Seq(File)
         /\ IsInjective(in.list)
         /\ Range(in.list) = File
         /\ in.img \in [File -> Image]

VARIABLES
    img,          \* what the list remembers of each file; never changes
    MoveSmaller,  \* option -s; never changes
    list,
    iFile,        \* iterator: a position in list, or one past its end
    cDUP,
    cERROR,
    dup,          \* files now in the DUP directory
    beaten        \* pairs <<erased file, file it was found similar to>>

vars == <<img, MoveSmaller, list, iFile, cDUP, cERROR, dup, beaten>>

-----------------------------------------------------------------------------
Init ==
    /\ \E in \in Inputs : list = in.list /\ img = in.img
    /\ MoveSmaller \in BOOLEAN
    /\ iFile = 1
    /\ cDUP = 0
    /\ cERROR = 0
    /\ dup = {}
    /\ beaten = {}

\* Mutant of SimilarAfter: the search starts at iFile, not after it.
SimilarFrom(p) ==
    {q \in p..Len(list) : IsSimiliar(img[list[q]], img[list[p]])}

\* Mutant of SimilarAfter: findNext returns the next file unseen.
AnyAfter(p) == (p + 1)..Len(list)

\* Positions after p whose file findNext accepts for the file at p.
SimilarAfter(p) ==
    {q \in (p + 1)..Len(list) : IsSimiliar(img[list[q]], img[list[p]])}

\* findNext stops at the first of them.
FindNext(p, q) == q \in SimilarAfter(p) /\ \A r \in SimilarAfter(p) : q <= r

\* Mutant of IsWorse: both dimensions must be smaller.
IsWorseInBoth(x, y) ==
    \/ x.iHeight < y.iHeight /\ x.iWidth < y.iWidth
    \/ /\ x.iHeight = y.iHeight
       /\ x.iWidth = y.iWidth
       /\ x.fSize < y.fSize
       /\ MoveSmaller

\* The test that sends x away rather than y.
IsWorse(x, y) ==
    \/ x.iHeight < y.iHeight
    \/ x.iWidth < y.iWidth
    \/ /\ x.iHeight = y.iHeight
       /\ x.iWidth = y.iWidth
       /\ x.fSize < y.fSize
       /\ MoveSmaller

\* Mutant of SetAside: a failed move is not counted.
SetAsideSilently(l, w, moved) ==
    /\ list' = RemoveAt(list, l)
    /\ beaten' = beaten \cup {<<list[l], list[w]>>}
    /\ dup' = IF moved THEN dup \cup {list[l]} ELSE dup
    /\ cDUP' = IF moved THEN cDUP + 1 ELSE cDUP
    /\ UNCHANGED <<cERROR, img, MoveSmaller, iFile>>

\* Move the file at position l away, erase it and count the outcome.
SetAside(l, w, moved) ==
    /\ list' = RemoveAt(list, l)
    /\ beaten' = beaten \cup {<<list[l], list[w]>>}
    /\ dup' = IF moved THEN dup \cup {list[l]} ELSE dup
    /\ cDUP' = IF moved THEN cDUP + 1 ELSE cDUP
    /\ cERROR' = IF moved THEN cERROR ELSE cERROR + 1
    /\ UNCHANGED <<img, MoveSmaller, iFile>>

\* The loss of the file at l, for the mutants that move the iterator as well.
SetAsideAndGoTo(l, w, moved, next) ==
    /\ list' = RemoveAt(list, l)
    /\ beaten' = beaten \cup {<<list[l], list[w]>>}
    /\ dup' = IF moved THEN dup \cup {list[l]} ELSE dup
    /\ cDUP' = IF moved THEN cDUP + 1 ELSE cDUP
    /\ cERROR' = IF moved THEN cERROR ELSE cERROR + 1
    /\ iFile' = next
    /\ UNCHANGED <<img, MoveSmaller>>

\* Mutant of FileIsWorse: the loop advances past the successor.
FileIsWorseSkips(iFind, moved) ==
    /\ iFile <= Len(list)
    /\ FindNext(iFile, iFind)
    /\ IsWorse(img[list[iFile]], img[list[iFind]])
    /\ SetAsideAndGoTo(iFile, iFind, moved, iFile + 1)

\* iFile is worse; erase returns its successor, which takes its position.
FileIsWorse(iFind, moved) ==
    /\ iFile <= Len(list)
    /\ FindNext(iFile, iFind)
    /\ IsWorse(img[list[iFile]], img[list[iFind]])
    /\ SetAside(iFile, iFind, moved)

\* Mutant of FindIsWorse: the pass starts again.
FindIsWorseRestarts(iFind, moved) ==
    /\ iFile <= Len(list)
    /\ FindNext(iFile, iFind)
    /\ ~IsWorse(img[list[iFile]], img[list[iFind]])
    /\ SetAsideAndGoTo(iFind, iFile, moved, 1)

\* iFind is worse; iFile stays and is compared again.
FindIsWorse(iFind, moved) ==
    /\ iFile <= Len(list)
    /\ FindNext(iFile, iFind)
    /\ ~IsWorse(img[list[iFile]], img[list[iFind]])
    /\ SetAside(iFind, iFile, moved)

\* Mutant of Advance: the loop does not test for the end.
AdvancePastEnd ==
    /\ SimilarAfter(iFile) = {}
    /\ iFile <= Len(list) + 1
    /\ iFile' = iFile + 1
    /\ UNCHANGED <<img, MoveSmaller, list, cDUP, cERROR, dup, beaten>>

\* Mutant of Advance: the last file is never left.
AdvanceToLast ==
    /\ iFile < Len(list)
    /\ SimilarAfter(iFile) = {}
    /\ iFile' = iFile + 1
    /\ UNCHANGED <<img, MoveSmaller, list, cDUP, cERROR, dup, beaten>>

\* No similar file further on.
Advance ==
    /\ iFile <= Len(list)
    /\ SimilarAfter(iFile) = {}
    /\ iFile' = iFile + 1
    /\ UNCHANGED <<img, MoveSmaller, list, cDUP, cERROR, dup, beaten>>

Next ==
    \/ \E iFind \in 1..Len(list), moved \in BOOLEAN : FileIsWorse(iFind, moved)
    \/ \E iFind \in 1..Len(list), moved \in BOOLEAN : FindIsWorse(iFind, moved)
    \/ Advance

\* The loop runs alone in its thread: it is scheduled for as long as it has a
\* turn to take.
Spec == Init /\ [][Next]_vars /\ WF_vars(Next)

Done == iFile > Len(list)

-----------------------------------------------------------------------------
Listed == Range(list)
Losers == {pair[1] : pair \in beaten}

TypeOK ==
    /\ img \in [File -> Image]
    /\ MoveSmaller \in BOOLEAN
    /\ list \in Seq(File)
    /\ IsInjective(list)
    /\ iFile \in 1..(Len(list) + 1)
    /\ cDUP \in Nat
    /\ cERROR \in Nat
    /\ dup \in SUBSET File
    /\ beaten \in SUBSET (File \X File)

\* Nothing the iterator has passed is similar to anything after it: erasing
\* under the iterator must neither skip a file nor compare one with itself.
HeadSettled ==
    \A p \in 1..(iFile - 1) : SimilarAfter(p) = {}

\* The summary adds up: every file is listed, counted as moved or counted as
\* an error, and only one of the three.
Tally ==
    /\ cDUP + cERROR + Len(list) = Cardinality(File)
    /\ cDUP = Cardinality(dup)
    /\ Listed \cap Losers = {}
    /\ Listed \cup Losers = File

\* A file may lose to one that is itself set aside later, so the OK file of a
\* log entry may be gone in the end.  But the losses form no circle: among any
\* losers one lost to a file outside them, hence each leads to a listed file.
LossesAreGrounded ==
    \A S \in SUBSET Losers :
        S # {} => \E pair \in beaten : pair[1] \in S /\ pair[2] \notin S

\* The dimensions of any two files are ordered one way.
OneAspect ==
    \A x, y \in File :
        \/ /\ img[x].iWidth <= img[y].iWidth
           /\ img[x].iHeight <= img[y].iHeight
        \/ /\ img[y].iWidth <= img[x].iWidth
           /\ img[y].iHeight <= img[x].iHeight

\* No picture is set aside for the sake of smaller ones: after any number of
\* losses in a row, a listed file is at least as wide and as high.
LargestStays ==
    OneAspect =>
        \A x \in Losers : \E y \in Listed :
            /\ img[x].iWidth <= img[y].iWidth
            /\ img[x].iHeight <= img[y].iHeight

\* A file the iterator has passed keeps its place and is never moved later,
\* though later files go on being erased.
HeadIsFinal ==
    [][\A p \in 1..(iFile - 1) : p < iFile' /\ list'[p] = list[p]]_vars

\* The pass ends, and then no listed file is similar to a later one.
Terminates == <>(Done /\ \A p \in 1..Len(list) : SimilarAfter(p) = {})

-----------------------------------------------------------------------------
\* The pass is a way to keep one of each.
Alike == {pair \in File \X File : IsSimiliar(img[pair[1]], img[pair[2]])}

Abstract == INSTANCE OneOfEach WITH like <- Alike, kept <- Listed

\* Seen through Listed and Alike, every turn sets aside one file beaten by a
\* similar one, or changes nothing.
KeepsOneOfEach == Abstract!Init /\ [][Abstract!Next]_Abstract!vars

\* All records were made with the same -r.
SameFlag ==
    \A x, y \in File : img[x].ImageCanBeRotated = img[y].ImageCanBeRotated

\* With one value of the flag similarity is symmetric, and when the pass is
\* over no two listed files are similar, whichever is asked about the other.
OneOfEachAtEnd == Done /\ SameFlag => Abstract!Settled

=============================================================================
