------------------------------ MODULE TextHash ------------------------------
(***************************************************************************)
(* ph_texthash (pHash/pHash.cpp): a hash is rolled over the letters of a   *)
(* file, KgramLength at a time, and of each WindowLength hashes in a row   *)
(* the least is kept as a point.  The array of points is allocated from    *)
(* the size of the file.                                                   *)
(*                                                                         *)
(* Writing past that array ends the model ("undefined").                   *)
(***************************************************************************)
EXTENDS Listing, Integers, SequencesExt

CONSTANTS
    Text,           \* the texts: sequences of characters
    Fold,           \* the lower case of a character, or Skipped
    Skipped,
    Key,            \* textkeys: the hash of a character
    Width,          \* bits of a hash (ulong64)
    KgramLength,
    WindowLength

\* A hash is its bits, the lowest first.
Bit == 0..(Width - 1)
Bits == [Bit -> 0..1]
Unset == "unset"       \* a cell of kgram never written

ASSUME TextAssumption ==
    /\ {KgramLength, WindowLength, Width} \subseteq Nat
    /\ KgramLength > 1 /\ WindowLength > KgramLength
    /\ Text \subseteq Seq(DOMAIN Fold)
    /\ Range(Fold) \subseteq DOMAIN Key \cup {Skipped}
    /\ Key \in [DOMAIN Key -> Bits]
    /\ {Skipped, Unset} \cap DOMAIN Key = {}

VARIABLES
    text,
    pcT,
    pos,          \* characters read
    kgram,        \* the ring of KgramLength characters
    first,        \* its index of the character that leaves it; last is
                  \* always first + KgramLength - 1
    hashword,
    win,          \* the hashes of the window so far: [hash, index] records
    prev,         \* prev_minhash
    points,       \* TxtHash
    rolled        \* history: all hashes in order

textVars == <<text, pcT, pos, kgram, first, hashword, win, prev, points, rolled>>

ULLONG_MAX == [b \in Bit |-> 1]
NoPoint == [hash |-> ULLONG_MAX, index |-> 0]

\* hash << bits, ^ and >, in Width bits.
ShiftLeft(hash, bits) == [b \in Bit |-> IF b < bits THEN 0 ELSE hash[b - bits]]
Xor(x, y) == [b \in Bit |-> IF x[b] = y[b] THEN 0 ELSE 1]
Exceeds(x, y) ==
    \E b \in Bit : x[b] > y[b] /\ \A c \in (b + 1)..(Width - 1) : x[c] = y[c]

Size == Len(text)

\* Mutant of Capacity: one character less is counted.
CapacityShort ==
    IF Size < WindowLength THEN 0 ELSE (Size - WindowLength) \div WindowLength

\* (int)(0.01 * (st_size - WindowLength + 1)), which rounds towards 0.
Capacity ==
    IF Size < WindowLength THEN 0
    ELSE (Size - WindowLength + 1) \div WindowLength

\* The call, with text chosen.
TextBegins ==
    /\ pcT = "kgram"
    /\ pos = 0
    /\ kgram = [k \in 0..(KgramLength - 1) |-> Unset]
    /\ first = 0
    /\ hashword = [b \in Bit |-> 0]
    /\ win = <<>>
    /\ prev = NoPoint
    /\ points = <<>>
    /\ rolled = <<>>

Symbol == Fold[text[pos + 1]]

\* The file ends within the first K-gram: NULL.
TooShort ==
    /\ pcT = "kgram"
    /\ pos = Size
    /\ pos < KgramLength
    /\ pcT' = "none"
    /\ UNCHANGED <<text, pos, kgram, first, hashword, win, prev, points, rolled>>

\* A character of the first K-gram.  One that is skipped leaves its cell as
\* it is.
FirstKgram ==
    /\ pcT = "kgram"
    /\ pos < KgramLength
    /\ pos < Size
    /\ pos' = pos + 1
    /\ IF Symbol = Skipped
       THEN UNCHANGED <<kgram, hashword>>
       ELSE /\ kgram' = [kgram EXCEPT ![pos] = Symbol]
            /\ hashword' = Xor(ShiftLeft(hashword, 1), Key[Symbol])
    /\ UNCHANGED <<text, pcT, first, win, prev, points, rolled>>

\* The hash of the first K-gram begins the first window.
FirstHash ==
    /\ pcT = "kgram"
    /\ pos = KgramLength
    /\ pcT' = "roll"
    /\ win' = <<[hash |-> hashword, index |-> 0]>>
    /\ rolled' = win'
    /\ UNCHANGED <<text, pos, kgram, first, hashword, prev, points>>

\* Mutant of MinHash: the first of equal hashes.
MinHashFirst(w) ==
    w[CHOOSE k \in DOMAIN w :
        /\ \A j \in DOMAIN w : ~Exceeds(w[k].hash, w[j].hash)
        /\ \A j \in 1..(k - 1) : Exceeds(w[j].hash, w[k].hash)]

\* The last of the least hashes of a window.
MinHash(w) ==
    w[CHOOSE k \in DOMAIN w :
        /\ \A j \in DOMAIN w : ~Exceeds(w[k].hash, w[j].hash)
        /\ \A j \in (k + 1)..Len(w) : Exceeds(w[j].hash, w[k].hash)]

\* A hash is added to the window; a full one gives a point, which repeats the
\* previous if it has its hash, and a new window is begun.
Windowed(point) ==
    LET full == Append(win, point)
        min == MinHash(full)
        next == IF min.hash # prev.hash THEN min ELSE prev
    IN IF Len(full) < WindowLength
       THEN win' = full /\ UNCHANGED <<pcT, prev, points>>
       ELSE /\ win' = <<>>
            /\ prev' = next
            /\ points' = Append(points, next)
            /\ pcT' = IF Len(points) >= Capacity THEN "undefined" ELSE pcT

\* Mutant of Leaving: the character last read.
LeavingLast ==
    LET c == kgram[(first + KgramLength - 1) % KgramLength]
    IN IF c = Unset THEN DOMAIN Key ELSE {c}

\* The character that leaves the hash; any, if the cell was never written.
Leaving ==
    LET c == kgram[first % KgramLength]
    IN IF c = Unset THEN DOMAIN Key ELSE {c}

\* A further letter: it is written to the cell of `last', not to the one of
\* the character that leaves.
Roll ==
    /\ pcT = "roll"
    /\ pos < Size
    /\ Symbol # Skipped
    /\ \E old \in Leaving :
         hashword' = Xor(Xor(ShiftLeft(hashword, 1), Key[Symbol]),
                         ShiftLeft(Key[old], KgramLength))
    /\ kgram' = [kgram EXCEPT ![(first + KgramLength - 1) % KgramLength] = Symbol]
    /\ first' = first + 1
    /\ pos' = pos + 1
    /\ LET point == [hash |-> hashword', index |-> pos' - KgramLength]
       IN Windowed(point) /\ rolled' = Append(rolled, point)
    /\ UNCHANGED text

Skip ==
    /\ pcT = "roll"
    /\ pos < Size
    /\ Symbol = Skipped
    /\ pos' = pos + 1
    /\ UNCHANGED <<text, pcT, kgram, first, hashword, win, prev, points, rolled>>

TextEnds ==
    /\ pcT = "roll"
    /\ pos = Size
    /\ pcT' = "done"
    /\ UNCHANGED <<text, pos, kgram, first, hashword, win, prev, points, rolled>>

TextStep == TooShort \/ FirstKgram \/ FirstHash \/ Roll \/ Skip \/ TextEnds

-----------------------------------------------------------------------------
Folded == [k \in 1..pos |-> Fold[text[k]]]
Letters == Keep(Folded, DOMAIN Key)
WholeKgram ==
    /\ Size >= KgramLength
    /\ \A k \in 1..KgramLength : Fold[text[k]] # Skipped

\* The hash of letters[from..to], the last of them shifted by `by': the bits set
\* in an odd number of their shifted keys.
HashOf(letters, from, to, by) ==
    [b \in Bit |->
        Cardinality({k \in from..to : ShiftLeft(Key[letters[k]], by + to - k)[b] = 1}) % 2]

\* Once the ring has gone round, the letter taken out is the one after that
\* which leaves.  Both stay in the hash until they are shifted out of it.
Residue(letters) ==
    LET n == Len(letters)
    IN Xor(HashOf(letters, KgramLength, n - KgramLength, KgramLength),
           HashOf(letters, KgramLength + 1, n - KgramLength + 1, KgramLength))

\* The hash rolled letter by letter through the ring is that of the last
\* KgramLength letters while fewer than that were added to the first K-gram;
\* after that a residue is left, which reaches back no further than the width
\* of a hash.  It needs a first K-gram without characters that are skipped.
RollingHash ==
    WholeKgram /\ pcT \in {"roll", "done"} =>
        LET n == Len(Letters)
            exact == HashOf(Letters, n - KgramLength + 1, n, 0)
        IN hashword = IF first < KgramLength THEN exact
                      ELSE Xor(exact, Residue(Letters))

\* The points are the last least hashes of the windows, in order, whatever
\* has been rolled since; one equal to the last different one repeats it.
PointsAreMinima ==
    /\ Len(points) = Len(rolled) \div WindowLength
    /\ \A p \in DOMAIN points :
         LET w == SubSeq(rolled, (p - 1) * WindowLength + 1, p * WindowLength)
             before == IF p = 1 THEN NoPoint ELSE points[p - 1]
         IN \E k \in DOMAIN w :
              /\ \A j \in DOMAIN w : ~Exceeds(w[k].hash, w[j].hash)
              /\ \A j \in (k + 1)..Len(w) : Exceeds(w[j].hash, w[k].hash)
              /\ points[p] = IF w[k].hash = before.hash THEN before ELSE w[k]

SkippedIn(from, to) ==
    Cardinality({k \in from..to : Fold[text[k]] = Skipped})

\* Room is made for a point per WindowLength characters but the last so many,
\* and points are made from the first K-gram on.  The array is left exactly
\* when the characters over a whole number of windows are as many as those of a
\* K-gram and those skipped.
RoomForPoints ==
    LET over == (Size + 1) % WindowLength
        unused == KgramLength + SkippedIn(KgramLength + 1, Size)
    IN /\ pcT = "undefined" => Size >= WindowLength /\ over >= unused
       /\ pcT = "done" => Size < WindowLength \/ over < unused

=============================================================================
