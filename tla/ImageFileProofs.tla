-------------------------- MODULE ImageFileProofs --------------------------
(***************************************************************************)
(* Lemmas about the record of a picture file and its hashes.               *)
(***************************************************************************)
EXTENDS ImageFile, TLAPS

-----------------------------------------------------------------------------
(* The raster handed from call to call.                                    *)

\* The quarter turns the raster has when its i-th hash is taken: each call
\* turns what the one before it left.
Turned(i) == CASE i = 0 -> 0 [] i = 1 -> 1 [] i = 2 -> 3 [] i = 3 -> 2

LEMMA ReplacePlane ==
    ASSUME NEW p, NEW t, NEW s, NEW e, NEW u, NEW x, NEW r,
           r = [pic |-> p, turn |-> t, spectrum |-> s, empty |-> e]
    PROVE  [r EXCEPT !.spectrum = u, !.empty = x]
               = [pic |-> p, turn |-> t, spectrum |-> u, empty |-> x]
<1>1. PICK q : q = [r EXCEPT !.spectrum = u]
  OBVIOUS
<1>2. q = [pic |-> p, turn |-> t, spectrum |-> u, empty |-> e]
  BY <1>1
<1>3. [q EXCEPT !.empty = x] = [pic |-> p, turn |-> t, spectrum |-> u, empty |-> x]
  BY <1>2
<1>4. [r EXCEPT !.spectrum = u, !.empty = x] = [[r EXCEPT !.spectrum = u] EXCEPT !.empty = x]
  OBVIOUS
<1> QED BY <1>1, <1>3, <1>4

LEMMA FlattenIs ==
    ASSUME NEW p, NEW t, NEW s, NEW e, NEW x, x = (e \/ s = 4)
    PROVE  Flatten([pic |-> p, turn |-> t, spectrum |-> s, empty |-> e])
               = [pic |-> p, turn |-> t, spectrum |-> 1, empty |-> x]
<1>1. PICK r : r = [pic |-> p, turn |-> t, spectrum |-> s, empty |-> e]
  OBVIOUS
<1>2. x = (r.empty \/ r.spectrum = 4)
  BY <1>1
<1>3. Flatten(r) = [r EXCEPT !.spectrum = 1, !.empty = x]
  BY <1>2 DEF Flatten
<1> QED BY <1>1, <1>3, ReplacePlane

LEMMA RotateIs ==
    ASSUME NEW p, NEW t \in 0..3, NEW s, NEW e, NEW i \in Turn
    PROVE  Rotate([pic |-> p, turn |-> t, spectrum |-> s, empty |-> e], Angle[i])
               = [pic |-> p, turn |-> (t + i) % 4, spectrum |-> s, empty |-> e]
<1>1. Angle[i] \div 90 = i
  BY DEF Angle, Turn
<1> QED BY <1>1 DEF Rotate

LEMMA AfterCallIs ==
    ASSUME NEW c \in Content
    PROVE  \A i \in Turn :
               AfterCall(c)[i] = [pic |-> c.pic, turn |-> (c.turn + Turned(i)) % 4,
                                  spectrum |-> 1, empty |-> c.spectrum = 4]
<1> DEFINE Rec(f) == f = [i \in Turn |->
                             Flatten(Rotate(IF i = 0 THEN Raster(c) ELSE f[i - 1], Angle[i]))]
           after == CHOOSE f : Rec(f)
           R(t) == [pic |-> c.pic, turn |-> (c.turn + t) % 4,
                    spectrum |-> 1, empty |-> c.spectrum = 4]
           g == [i \in Turn |-> R(Turned(i))]
<1>0. c.turn \in 0..3 /\ c.spectrum \in {1, 3, 4}
  BY DEF Content, Turn
<1>1. Turn = {0, 1, 2, 3}
  BY DEF Turn
<1>3. /\ Turned(0) = 0 /\ Turned(1) = 1 /\ Turned(2) = 3 /\ Turned(3) = 2
  BY DEF Turned
<1> DEFINE e == c.spectrum = 4
           no == FALSE
           Q(t, s, b) == [pic |-> c.pic, turn |-> t, spectrum |-> s, empty |-> b]
<1>2. e = (no \/ c.spectrum = 4) /\ e = (e \/ 1 = 4)
  OBVIOUS
<1>a. Raster(c) = Q(c.turn, c.spectrum, no)
  BY DEF Raster
<1>b. \A t : R(t) = Q((c.turn + t) % 4, 1, e)
  OBVIOUS
<1> HIDE DEF e, no, R
<1>c. \A t \in 0..3 : \A s, b : \A i \in Turn :
          Rotate(Q(t, s, b), Angle[i]) = Q((t + i) % 4, s, b)
  BY RotateIs
<1>d. \A t, s, b, x : x = (b \/ s = 4) => Flatten(Q(t, s, b)) = Q(t, 1, x)
  BY FlattenIs
<1> HIDE DEF Q
<1>4. Flatten(Rotate(Raster(c), Angle[0])) = R(0)
  <2>1. 0 \in Turn
    BY <1>1
  <2>2. Rotate(Raster(c), Angle[0]) = Q((c.turn + 0) % 4, c.spectrum, no)
    BY <1>0, <1>a, <1>c, <2>1
  <2> QED BY <1>2, <1>b, <1>d, <2>2
<1>5. ASSUME NEW t \in {0, 1, 3}, NEW i \in {1, 2, 3}
      PROVE  Flatten(Rotate(R(t), Angle[i])) = R(t + i)
  <2> DEFINE u == (((c.turn + t) % 4) + i) % 4
  <2>1. (c.turn + t) % 4 \in 0..3 /\ i \in Turn
    BY <1>0, <1>1
  <2>2. Rotate(R(t), Angle[i]) = Q(u, 1, e)
    BY <1>b, <1>c, <2>1
  <2>3. u = (c.turn + (t + i)) % 4
    BY <1>0
  <2> HIDE DEF u
  <2>4. Flatten(Q(u, 1, e)) = Q(u, 1, e)
    BY <1>2, <1>d
  <2> QED BY <1>b, <2>2, <2>3, <2>4
<1>6. /\ Flatten(Rotate(R(0), Angle[1])) = R(1)
      /\ Flatten(Rotate(R(1), Angle[2])) = R(3)
      /\ Flatten(Rotate(R(3), Angle[3])) = R(2)
  <2>1. R(6) = R(2)
    BY <1>0 DEF R
  <2> QED BY <1>5, <2>1
<1>7. Rec(g)
  BY <1>1, <1>3, <1>4, <1>6
<1>8. Rec(after)
  BY <1>7
<1>9. AfterCall(c) = after
  BY DEF AfterCall
<1> HIDE DEF after
<1>10. /\ after[0] = Flatten(Rotate(Raster(c), Angle[0]))
       /\ after[1] = Flatten(Rotate(after[0], Angle[1]))
       /\ after[2] = Flatten(Rotate(after[1], Angle[2]))
       /\ after[3] = Flatten(Rotate(after[2], Angle[3]))
  BY <1>1, <1>8
<1>11. after[0] = R(0) /\ after[1] = R(1) /\ after[2] = R(3) /\ after[3] = R(2)
  BY <1>4, <1>6, <1>10
<1>12. \A i \in Turn : after[i] = R(Turned(i))
  BY <1>1, <1>3, <1>11
<1> QED BY <1>9, <1>12 DEF R

\* What the i-th call returns.
CallHash(c, i) == IF c.spectrum = 4 THEN 0 ELSE Code[<<c.pic, (c.turn + Turned(i)) % 4>>]

LEMMA DctHashIs ==
    ASSUME NEW c \in Content, NEW i \in Turn
    PROVE  DctHash(AfterCall(c)[i]) = CallHash(c, i)
<1> DEFINE r == [pic |-> c.pic, turn |-> (c.turn + Turned(i)) % 4,
                 spectrum |-> 1, empty |-> c.spectrum = 4]
<1>1. AfterCall(c)[i] = r
  BY AfterCallIs
<1>2. /\ r.empty <=> c.spectrum = 4
      /\ <<r.pic, r.turn>> = <<c.pic, (c.turn + Turned(i)) % 4>>
  OBVIOUS
<1> HIDE DEF r
<1> QED BY <1>1, <1>2 DEF DctHash, CallHash

LEMMA TurnedIsTurn ==
    ASSUME NEW c \in Content, NEW i \in Turn
    PROVE  (c.turn + Turned(i)) % 4 \in Turn
<1>1. c.turn \in 0..3 /\ i \in {0, 1, 2, 3}
  BY DEF Content, Turn
<1>2. Turned(i) \in 0..3
  BY <1>1 DEF Turned
<1> QED BY <1>1, <1>2 DEF Turn

LEMMA CallHashIsHash ==
    ASSUME NEW c \in Content, NEW i \in Turn
    PROVE  CallHash(c, i) \in Hash
<1>1. c.pic \in Pic /\ (c.turn + Turned(i)) % 4 \in Turn
  BY TurnedIsTurn DEF Content
<1>2. <<c.pic, (c.turn + Turned(i)) % 4>> \in Pic \X Turn
  BY <1>1
<1> QED BY <1>2, CodeAssumption, HashAssumption DEF CallHash

-----------------------------------------------------------------------------
(* The record.                                                             *)

LEMMA NoFileIsNoContent == NoFile \notin Content
  BY DEF NoFile, Content

LEMMA TimeIsNat ==
    ASSUME NEW date \in Nat
    PROVE  filetime_to_timet(date) \in Nat
  BY SecondAssumption DEF filetime_to_timet

LEMMA AllIsReading == All \in Reading
  BY DEF All, Reading

LEMMA InitializeIsImage ==
    ASSUME NEW c \in Content \cup {NoFile}, NEW rot \in BOOLEAN, NEW got \in Reading
    PROVE  /\ Initialize(c, rot, got) \in Image
           /\ Initialize(c, rot, got).iHash = [i \in Turn |-> 0]
           /\ Initialize(c, rot, got).ImageCanBeRotated = rot
           /\ Initialize(c, rot, got).fSize = IF got.size THEN Size(c) ELSE 0
           /\ Initialize(c, rot, got).fDate = IF got.date THEN Date(c) ELSE 0
<1>1. 0 \in Hash
  BY HashAssumption
<1>2. Blank \in Image
  BY <1>1 DEF Blank, Image
<1>3. CASE c = NoFile
  BY <1>1, <1>3 DEF Initialize, Blank, Image, Size, Date
<1>4. CASE c # NoFile
  <2>1. c.size \in Nat /\ c.date \in Nat /\ c.w \in Nat /\ c.h \in Nat /\ c.exif \in BOOLEAN
    BY <1>4 DEF Content
  <2>2. filetime_to_timet(c.date) \in Nat
    BY <2>1, TimeIsNat
  <2> DEFINE size == IF got.size THEN c.size ELSE 0
             date == IF got.date THEN filetime_to_timet(c.date) ELSE 0
             w == IF got.exif /\ c.exif THEN c.w ELSE 0
             h == IF got.exif /\ c.exif THEN c.h ELSE 0
  <2>3. {size, date, w, h} \subseteq Nat
    BY <2>1, <2>2
  <2>4. Initialize(c, rot, got) =
            [Blank EXCEPT !.ImageCanBeRotated = rot, !.fSize = size, !.fDate = date,
                          !.iWidth = w, !.iHeight = h]
    BY <1>4 DEF Initialize
  <2>5. size = (IF got.size THEN Size(c) ELSE 0) /\ date = (IF got.date THEN Date(c) ELSE 0)
    BY <1>4 DEF Size, Date
  <2> HIDE DEF size, date, w, h
  <2>a. PICK zero \in [Turn -> Hash] : zero = [i \in Turn |-> 0]
    BY <1>1
  <2>6. Initialize(c, rot, got) =
            [iHash |-> zero, ImageCanBeRotated |-> rot,
             iWidth |-> w, iHeight |-> h, fSize |-> size, fDate |-> date]
    BY <2>4, <2>a DEF Blank
  <2>7. Initialize(c, rot, got) \in Image
    BY <2>3, <2>6 DEF Image
  <2> QED BY <2>5, <2>6, <2>7, <2>a
<1> QED BY <1>3, <1>4

LEMMA CalculateHashIsImage ==
    ASSUME NEW c \in Content \cup {NoFile}, NEW img \in Image, NEW calls \in 0..4
    PROVE  /\ CalculateHash(img, c, calls) \in Image
           /\ CalculateHash(img, c, calls).ImageCanBeRotated = img.ImageCanBeRotated
           /\ CalculateHash(img, c, calls).fSize = img.fSize
           /\ CalculateHash(img, c, calls).fDate = img.fDate
           /\ \A i \in Turn :
                  CalculateHash(img, c, calls).iHash[i] =
                      IF c.decodable /\ i < calls /\ (i = 0 \/ img.ImageCanBeRotated)
                      THEN CallHash(c, i) ELSE img.iHash[i]
<1>1. CASE ~c.decodable
  BY <1>1 DEF CalculateHash
<1>2. CASE c.decodable
  <2>1. c \in Content
    BY <1>2 DEF NoFile
  <2> DEFINE hashes == [i \in Turn |->
                           IF i < calls /\ (i = 0 \/ img.ImageCanBeRotated)
                           THEN DctHash(AfterCall(c)[i]) ELSE img.iHash[i]]
             w == IF img.iWidth = 0 THEN c.w ELSE img.iWidth
             h == IF img.iHeight = 0 THEN c.h ELSE img.iHeight
  <2>2. CalculateHash(img, c, calls)
            = [img EXCEPT !.iWidth = w, !.iHeight = h, !.iHash = hashes]
    BY <1>2 DEF CalculateHash, Image
  <2>3. \A i \in Turn : DctHash(AfterCall(c)[i]) = CallHash(c, i) /\ CallHash(c, i) \in Hash
    BY <2>1, DctHashIs, CallHashIsHash
  <2>4. hashes \in [Turn -> Hash]
    BY <2>3 DEF Image
  <2>5. \A i \in Turn : hashes[i] = IF i < calls /\ (i = 0 \/ img.ImageCanBeRotated)
                                    THEN CallHash(c, i) ELSE img.iHash[i]
    BY <2>3
  <2>6. w \in Nat /\ h \in Nat
    BY <2>1 DEF Content, Image
  <2> HIDE DEF hashes, w, h
  <2> QED BY <1>2, <2>2, <2>4, <2>5, <2>6 DEF Image
<1>3. c.decodable \in BOOLEAN
  <2>1. NoFile.decodable \in BOOLEAN
    BY DEF NoFile
  <2>2. c \in Content => c.decodable \in BOOLEAN
    BY DEF Content
  <2> QED BY <2>1, <2>2
<1> QED BY <1>1, <1>2, <1>3

\* The hashes a complete analysis gives: those of the turned pictures, with
\* -r, and the one of the picture as it is, without.
LEMMA AnalysisHash ==
    ASSUME NEW c \in Content \cup {NoFile}, NEW rot \in BOOLEAN, NEW i \in Turn
    PROVE  FreshHash(c, rot)[i] =
               IF c.decodable /\ (i = 0 \/ rot) THEN CallHash(c, i) ELSE 0
<1>1. i < 4
  BY DEF Turn
<1>2. /\ Initialize(c, rot, All) \in Image
      /\ Initialize(c, rot, All).iHash[i] = 0
      /\ Initialize(c, rot, All).ImageCanBeRotated = rot
  BY InitializeIsImage, AllIsReading
<1> DEFINE r == Initialize(c, rot, All)
<1>3. FreshHash(c, rot) = CalculateHash(r, c, 4).iHash
  BY DEF FreshHash
<1>4. r \in Image /\ r.iHash[i] = 0 /\ r.ImageCanBeRotated = rot
  BY <1>2
<1> HIDE DEF r
<1>5. CalculateHash(r, c, 4).iHash[i] =
          IF c.decodable /\ i < 4 /\ (i = 0 \/ r.ImageCanBeRotated)
          THEN CallHash(c, i) ELSE r.iHash[i]
  BY <1>4, CalculateHashIsImage
<1> QED BY <1>1, <1>3, <1>4, <1>5

\* Reading a file again gives the record of the first reading, but for what
\* was not read: the hashes are those of the content.
LEMMA HashOfReading ==
    ASSUME NEW c \in Content \cup {NoFile}, NEW rot \in BOOLEAN, NEW got \in Reading,
           NEW calls \in 0..4
    PROVE  /\ CalculateHash(Initialize(c, rot, got), c, calls).iHash \in [Turn -> Hash]
           /\ \A i \in Turn :
                 CalculateHash(Initialize(c, rot, got), c, calls).iHash[i] =
                     IF c.decodable /\ i < calls /\ (i = 0 \/ rot) THEN CallHash(c, i) ELSE 0
<1> DEFINE r == Initialize(c, rot, got)
<1>1. r \in Image /\ r.ImageCanBeRotated = rot /\ \A i \in Turn : r.iHash[i] = 0
  BY InitializeIsImage
<1> HIDE DEF r
<1>2. CalculateHash(r, c, calls) \in Image
  BY <1>1, CalculateHashIsImage
<1>3. ASSUME NEW i \in Turn
      PROVE  CalculateHash(r, c, calls).iHash[i] =
                 IF c.decodable /\ i < calls /\ (i = 0 \/ rot) THEN CallHash(c, i) ELSE 0
  BY <1>1, CalculateHashIsImage
<1> QED BY <1>2, <1>3 DEF r, Image

\* A complete analysis gives the hashes of the content, whatever was read of
\* its size, date and dimensions.
LEMMA CompleteHash ==
    ASSUME NEW c \in Content \cup {NoFile}, NEW rot \in BOOLEAN, NEW got \in Reading
    PROVE  CalculateHash(Initialize(c, rot, got), c, 4).iHash = FreshHash(c, rot)
<1> DEFINE f == CalculateHash(Initialize(c, rot, got), c, 4).iHash
           g == FreshHash(c, rot)
<1>1. 4 \in 0..4 /\ \A i \in Turn : i < 4
  BY DEF Turn
<1>2. f \in [Turn -> Hash]
  BY <1>1, HashOfReading
<1>3. g \in [Turn -> Hash]
  BY <1>1, HashOfReading, AllIsReading DEF FreshHash
<1>4. ASSUME NEW i \in Turn PROVE f[i] = g[i]
  <2>1. f[i] = IF c.decodable /\ (i = 0 \/ rot) THEN CallHash(c, i) ELSE 0
    BY <1>1, HashOfReading
  <2> HIDE DEF f
  <2> QED BY <2>1, AnalysisHash
<1> HIDE DEF f, g
<1>5. f = g
  BY <1>2, <1>3, <1>4
<1> QED BY <1>5 DEF f, g

=============================================================================
