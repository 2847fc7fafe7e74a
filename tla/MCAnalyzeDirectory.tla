------------------------- MODULE MCAnalyzeDirectory -------------------------
(***************************************************************************)
(* Instances of AnalyzeDirectory: a few names, pictures with four distinct *)
(* hashes, and users who edit, copy and remove files at any time.          *)
(***************************************************************************)
EXTENDS AnalyzeDirectory

MCPic == 1..2
MCCode == [k \in MCPic \X Turn |-> 4 * (k[1] - 1) + k[2] + 1]
MCHash == 0..8
MCNear == {<<h, h>> : h \in MCHash}

OneDir == {"d"}
TwoDirs == {"d", "e"}
TwoNames == <<"a", "b">>

\* Two ticks are a second.  All files are of one size.
Photo(pic, spectrum, decodable, exif, date) ==
    [pic |-> pic, turn |-> 0, spectrum |-> spectrum, decodable |-> decodable,
     exif |-> exif, w |-> 2, h |-> 1, size |-> 1, date |-> date]

First0 == Photo(1, 3, TRUE, TRUE, 2)
\* Another picture than that of the first files, written in the same second or
\* in the next.
Other(date) == Photo(2, 3, TRUE, FALSE, date)
Ordinary == {Other(3), Other(4)}
\* A picture with an alpha channel and a file that is no picture.
Alpha == Photo(1, 4, TRUE, FALSE, 4)
NoPicture == Photo(2, 3, FALSE, FALSE, 3)

\* The first files are of one picture; the user brings in the other ones.
FirstDisks(D, N) ==
    [D \X N -> {First0, NoFile}]
Disks1 == FirstDisks(OneDir, {"a", "b"})
Disks0 == FirstDisks(OneDir, {"a"})
\* The directories are alike: a first file is in one of them at least.
Disks2 == {disk0 \in FirstDisks(TwoDirs, {"a"}) : disk0[<<"d", "a">>] # NoFile}

Always(rot) == {[rot |-> rot, useLists |-> l] : l \in BOOLEAN}
Rotated == {[rot |-> TRUE, useLists |-> TRUE]}
Mixed == {[rot |-> r, useLists |-> TRUE] : r \in BOOLEAN}

\* GetFileTime fails; CreateFileW does.
Undated == [All EXCEPT !.date = FALSE]
Unopened == [size |-> FALSE, date |-> FALSE, exif |-> FALSE]

\* One directory with two names, always run with -r, with and without -l.
OneDirectory ==
    [start |-> Disks1, photos |-> Ordinary, options |-> Always(TRUE),
     calls |-> {4}, opens |-> {All}]
\* Two directories that share a list file, hashing that may fail part-way,
\* files that may not be opened at first, -r in some runs only.
SharedList ==
    [start |-> Disks2, photos |-> {Other(3)}, options |-> Mixed,
     calls |-> {2, 4}, opens |-> {All, Unopened}]
\* Runs with and without -r over one file.
OtherRotation ==
    [start |-> Disks0, photos |-> Ordinary, options |-> Mixed, calls |-> {4},
     opens |-> {All}]

\* The same with -r in every run and complete hashes, of files of any kind.
SharedListRotated ==
    [start |-> Disks2, photos |-> {Other(4), Alpha, NoPicture},
     options |-> Rotated, calls |-> {4}, opens |-> {All, Undated}]
EitherWorld == {OneDirectory, SharedList, SharedListRotated}
RotationWorld == {OtherRotation}

=============================================================================
