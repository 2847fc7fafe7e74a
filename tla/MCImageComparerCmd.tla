------------------------ MODULE MCImageComparerCmd -------------------------
(***************************************************************************)
(* Instances of ImageComparerCmd: layouts of the directories and the files *)
(* they may hold.                                                          *)
(***************************************************************************)
EXTENDS ImageComparerCmd

MCPic == 1..2
MCCode == [k \in MCPic \X Turn |-> 4 * (k[1] - 1) + k[2] + 1]
MCHash == 0..8
MCNear == {<<h, h>> : h \in MCHash}

At(place, name) == [place |-> place, name |-> name]

\* <dir>, <dir2> and DUP apart from each other.
ApartOrder ==
    <<At("dir", "a"), At("dir", "b"), At("dir", "c"),
      At("dir2", "a"), At("dir2", "b"),
      At("DUP", "a"), At("DUP", "b"), At("DUP", "c")>>
ApartOrder2 ==
    <<At("dir", "a"), At("dir", "b"), At("dir2", "a"), At("dir2", "b"),
      At("DUP", "a"), At("DUP", "b")>>
InDir == {"dir"}
InDir2 == {"dir2"}
ToDup == [p \in {"dir", "dir2"} |-> "DUP"]

\* <dir2> below <dir>.
NestedOrder ==
    <<At("dir", "a"), At("dir2", "a"), At("dir2", "b"),
      At("DUP", "a"), At("DUP", "b")>>
InBoth == {"dir", "dir2"}

\* The program is run in <dir> itself, which then holds DUP; <dir2> is <dir>.
InsideOrder ==
    <<At("dir", "a"), At("dir", "b"), At("DUP", "a"), At("DUP", "b"),
      At("DUP/DUP", "a"), At("DUP/DUP", "b"),
      At("DUP/DUP/DUP", "a"), At("DUP/DUP/DUP", "b")>>
InsideDirs == {"dir", "DUP", "DUP/DUP"}
Deeper == [p \in InsideDirs |->
              CASE p = "dir" -> "DUP"
                [] p = "DUP" -> "DUP/DUP"
                [] p = "DUP/DUP" -> "DUP/DUP/DUP"]

Photo(pic, turn, spectrum, decodable, w, size) ==
    [pic |-> pic, turn |-> turn, spectrum |-> spectrum, decodable |-> decodable,
     exif |-> FALSE, w |-> w, h |-> w, size |-> size, date |-> 0]

\* A picture, a larger and a rotated copy of it, and another picture.
Ordinary ==
    {Photo(1, 0, 3, TRUE, 1, 1), Photo(1, 0, 3, TRUE, 2, 1),
     Photo(1, 1, 3, TRUE, 1, 2), Photo(2, 0, 3, TRUE, 1, 1)}
\* A picture with an alpha channel, and a file that CImg cannot load.
Alpha == Photo(1, 0, 4, TRUE, 1, 1)
Unreadable == Photo(2, 0, 3, FALSE, 1, 1)
Hashless == {Alpha, Unreadable}

Filled(order, places, photos) ==
    {d \in [Range(order) -> photos \cup {NoFile}] :
        \A p \in Range(order) : p.place \notin places => d[p] = NoFile}
\* Up to three files in <dir>, or two there and one in <dir2>.
ApartDisks ==
    {d \in Filled(ApartOrder, {"dir", "dir2"}, Ordinary) :
        /\ d[At("dir2", "b")] = NoFile
        /\ d[At("dir", "c")] = NoFile \/ d[At("dir2", "a")] = NoFile
        /\ d[At("dir", "b")] = NoFile => d[At("dir", "c")] = NoFile
        /\ d[At("dir", "a")] = NoFile => d[At("dir", "b")] = NoFile}
\* At most one of each: the two are alike only if neither has a hash.
HashlessDisks ==
    {d \in Filled(ApartOrder2, {"dir", "dir2"}, Hashless) :
        \A p, q \in DOMAIN d : p # q /\ d[p] # NoFile => d[p] # d[q]}
NestedDisks == Filled(NestedOrder, InBoth, Ordinary)
InsideDisks == Filled(InsideOrder, InDir, Ordinary)

Lines(rots, smaller, two, lists) ==
    [rot : rots, moveSmaller : smaller, two : two, useLists : lists]
\* Either mode, and the other options in different ways; -s plays no part in
\* template mode.
SomeLines ==
    Lines({FALSE}, {FALSE}, BOOLEAN, {FALSE})
    \cup Lines({TRUE}, {TRUE}, {FALSE}, {TRUE})
    \cup Lines({TRUE}, {FALSE}, {TRUE}, {TRUE})
EitherWay == Lines({TRUE}, {FALSE}, BOOLEAN, {FALSE})
TwoDirectories == Lines(BOOLEAN, {FALSE}, {TRUE}, {FALSE})

\* A file is read as a whole, or it can only be loaded.
AsAWhole == {All}
InPart == {All, [size |-> FALSE, date |-> FALSE, exif |-> FALSE]}
\* No hash is lost, or those after the first.
AllHashes == {4}
SomeHashes == {1, 4}

\* The records of the pictures, as a run with -r wrote them: those of one size
\* and second stand for each other.
Records0 ==
    {LET r == CalculateHash(Initialize(c, TRUE, All), c, 4)
     IN [r EXCEPT !.ImageCanBeRotated = HasTurns(r)] : c \in Ordinary}

\* What the theorems about the runs of the program assume holds for the instance
\* with everything apart.
ASSUME MCApart ==
    Order = ApartOrder =>
        PicturesHashed /\ DirectoriesApart /\ DupApart /\ AlikeIsTransitive

=============================================================================
