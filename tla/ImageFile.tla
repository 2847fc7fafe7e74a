----------------------------- MODULE ImageFile -----------------------------
(***************************************************************************)
(* CImageFile (pHash/pHashWrapper.h, pHashWrapper.cpp): the record the     *)
(* program keeps of one picture file, how it is filled from the file, and  *)
(* how two records are compared.                                           *)
(*                                                                         *)
(* A 64-bit perceptual hash is a member of Hash.  Near holds the pairs     *)
(* whose Hamming distance is at most eQuality (option -q).  A decoded      *)
(* raster is known by the picture it shows and by the quarter turns it has *)
(* been given; Code is the hash the DCT gives to that raster.              *)
(***************************************************************************)
EXTENDS Naturals, FiniteSets

CONSTANTS
    Pic,    \* the pictures that can be told apart
    Hash,   \* the values of an iHash element
    Near,   \* pairs of hashes at a distance of at most eQuality
    Code,   \* Code[p, t]: the DCT hash of picture p after t quarter turns
    Second  \* how many ticks of the clock of files make a second

Turn == 0..3

\* 0 is the value of a hash nobody computed.  A distance is symmetric, and
\* getopt refuses a negative eQuality, so that a hash is near to itself.
ASSUME HashAssumption ==
    /\ 0 \in Hash
    /\ Near \subseteq Hash \X Hash
    /\ \A x \in Hash : <<x, x>> \in Near
    /\ \A x, y \in Hash : <<x, y>> \in Near => <<y, x>> \in Near

ASSUME CodeAssumption == Code \in [Pic \X Turn -> Hash]

ASSUME SecondAssumption == Second \in Nat \ {0}

-----------------------------------------------------------------------------
(* The two sides: what is on the disk and what the program remembers.      *)

\* A picture file.  `decodable' says whether CImg can load it, `exif'
\* whether it carries EXIF data, `spectrum' the channels of its raster; `date'
\* is the time it was written, in ticks.
Content == [pic : Pic, turn : Turn, spectrum : {1, 3, 4},
            decodable : BOOLEAN, exif : BOOLEAN,
            w : Nat, h : Nat, size : Nat, date : Nat]

NoFile == [decodable |-> FALSE]

\* The fields of a CImageFile that the program reads back.
Image == [iHash : [Turn -> Hash], ImageCanBeRotated : BOOLEAN,
          iWidth : Nat, iHeight : Nat, fSize : Nat, fDate : Nat]

\* The default constructor.
Blank == [iHash |-> [i \in Turn |-> 0], ImageCanBeRotated |-> FALSE,
          iWidth |-> 0, iHeight |-> 0, fSize |-> 0, fDate |-> 0]

\* A time is kept in whole seconds.
filetime_to_timet(date) == date \div Second

\* What Initialize learns of a file: its size, its time, and what the EXIF data
\* say.  The size and the time may each be refused; a file that cannot be
\* opened tells none of the three.
Reading == [size : BOOLEAN, date : BOOLEAN, exif : BOOLEAN]
All == [size |-> TRUE, date |-> TRUE, exif |-> TRUE]

\* Initialize without its hash.  What was not read keeps the 0 of the default
\* constructor; only EXIF data give the dimensions (ReadExif).
Initialize(c, rot, got) ==
    IF c = NoFile
    THEN [Blank EXCEPT !.ImageCanBeRotated = rot]
    ELSE [Blank EXCEPT !.ImageCanBeRotated = rot,
                       !.fSize = IF got.size THEN c.size ELSE 0,
                       !.fDate = IF got.date THEN filetime_to_timet(c.date) ELSE 0,
                       !.iWidth = IF got.exif /\ c.exif THEN c.w ELSE 0,
                       !.iHeight = IF got.exif /\ c.exif THEN c.h ELSE 0]

\* Mutant of SameFile: the date is not compared.
SameSizeAndDimensions(img, cached) ==
    /\ img.fSize = cached.fSize
    /\ img.iWidth \in {0, cached.iWidth}
    /\ img.iHeight \in {0, cached.iHeight}

\* A record of the list file is taken when size and date agree, and the
\* dimensions if Initialize knows them.
SameFile(img, cached) ==
    /\ img.fSize = cached.fSize
    /\ img.fDate = cached.fDate
    /\ img.iWidth \in {0, cached.iWidth}
    /\ img.iHeight \in {0, cached.iHeight}

\* Whether a picture read from the list file can be rotated is not stored, but
\* read off its rotation hashes.
HasTurns(i) == \E t \in 1..3 : i.iHash[t] # 0

-----------------------------------------------------------------------------
(* _ph_dct_imagehash works in place: the raster it turns and flattens is   *)
(* the one the next call receives.                                         *)

\* The angle, in degrees, each of the four calls of CalculateHash asks for.
Angle == [i \in Turn |-> 90 * i]

Raster(c) == [pic |-> c.pic, turn |-> c.turn, spectrum |-> c.spectrum,
              empty |-> FALSE]

Rotate(src, angle) == [src EXCEPT !.turn = (@ + angle \div 90) % 4]

\* The brightness plane replaces the raster.  With four channels the crop
\* takes its bounds from an image not yet assigned, (0,0,0)..(-1,-1,-1): what
\* is left has an empty first plane, and the DCT reads no other.
Flatten(src) == [src EXCEPT !.spectrum = 1,
                            !.empty = @ \/ src.spectrum = 4]

\* The raster after the i-th call.
AfterCall(c) ==
    LET after[i \in Turn] ==
            Flatten(Rotate(IF i = 0 THEN Raster(c) ELSE after[i - 1], Angle[i]))
    IN after

\* No coefficient of an empty plane exceeds the median: no bit is set.
DctHash(src) == IF src.empty THEN 0 ELSE Code[<<src.pic, src.turn>>]

\* CalculateHash when the first `calls' calls complete and the next throws
\* (calls = 4: none throws).  An exception is swallowed and the remaining
\* hashes keep their value; a file that cannot be loaded changes nothing.
CalculateHash(img, c, calls) ==
    IF ~c.decodable
    THEN img
    ELSE [img EXCEPT
            !.iWidth = IF @ = 0 THEN c.w ELSE @,
            !.iHeight = IF @ = 0 THEN c.h ELSE @,
            !.iHash = [i \in Turn |->
                IF i < calls /\ (i = 0 \/ img.ImageCanBeRotated)
                THEN DctHash(AfterCall(c)[i])
                ELSE @[i]]]

\* Mutant of IsSimiliar: rotated hashes are compared whether computed or not.
IsSimiliarAnyHash(x, y) ==
    \E i, j \in Turn : <<x.iHash[i], y.iHash[j]>> \in Near

\* x.IsSimiliar(y): the flag of x alone decides which hashes are compared.
IsSimiliar(x, y) ==
    \/ /\ x.ImageCanBeRotated
       /\ \E i, j \in Turn : <<x.iHash[i], y.iHash[j]>> \in Near
    \/ /\ ~x.ImageCanBeRotated
       /\ <<x.iHash[0], y.iHash[0]>> \in Near

-----------------------------------------------------------------------------
(* What the comparison is for, said of the files themselves.               *)

\* The hashes of a file of content c, if nothing fails.
FreshHash(c, rot) == CalculateHash(Initialize(c, rot, All), c, 4).iHash

\* The size and date in the record of a file of content c.
Size(c) == IF c = NoFile THEN 0 ELSE c.size
Date(c) == IF c = NoFile THEN 0 ELSE filetime_to_timet(c.date)

\* The pictures of two files look alike, up to quarter turns if rot.
LookAlike(c, d, rot) ==
    \E s, t \in IF rot THEN Turn ELSE {0} :
        <<Code[<<c.pic, (c.turn + s) % 4>>], Code[<<d.pic, (d.turn + t) % 4>>]>> \in Near

=============================================================================
