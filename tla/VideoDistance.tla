--------------------------- MODULE VideoDistance ----------------------------
(***************************************************************************)
(* ph_dct_videohash_dist (pHash/pHash.cpp): the length of the longest      *)
(* sequence of key frames two videos have in common, frames being alike    *)
(* within a threshold.  The table C is made row by row; a row needs the    *)
(* one before it only.                                                     *)
(***************************************************************************)
EXTENDS Integers, Sequences, FiniteSetsExt, Functions

CONSTANTS
    Frames,      \* the lists of key frames' hashes
    Alike(_, _)  \* ph_hamming_distance is within the threshold

ASSUME FramesAssumption == \A f \in Frames : f \in Seq(Range(f))

VARIABLES
    hashA, hashB,
    pcD,
    i1,     \* rows made
    row     \* C[i1]

distanceVars == <<hashA, hashB, pcD, i1, row>>

\* The call, with hashA and hashB chosen.
DistanceBegins ==
    /\ pcD = "rows"
    /\ i1 = 0
    /\ row = [j \in 0..Len(hashB) |-> 0]

\* Mutant of NextC: the common frames before are those of the row above.
NextCAbove(x) ==
    LET C[j \in 0..Len(hashB)] ==
            IF j = 0 THEN 0
            ELSE IF Alike(hashA[x], hashB[j]) THEN row[j] + 1
            ELSE Max({row[j], C[j - 1]})
    IN C

\* The row of frame x of hashA.
NextC(x) ==
    LET C[j \in 0..Len(hashB)] ==
            IF j = 0 THEN 0
            ELSE IF Alike(hashA[x], hashB[j]) THEN row[j - 1] + 1
            ELSE Max({row[j], C[j - 1]})
    IN C

DistanceRow ==
    /\ pcD = "rows"
    /\ i1 < Len(hashA)
    /\ i1' = i1 + 1
    /\ row' = NextC(i1')
    /\ UNCHANGED <<hashA, hashB, pcD>>

DistanceEnds ==
    /\ pcD = "rows"
    /\ i1 = Len(hashA)
    /\ pcD' = "done"
    /\ UNCHANGED <<hashA, hashB, i1, row>>

DistanceStep == DistanceRow \/ DistanceEnds

-----------------------------------------------------------------------------
\* Ways to pair frames that are alike, in the order of both videos.
Pairings(m, n) ==
    {P \in SUBSET {p \in (1..m) \X (1..n) : Alike(hashA[p[1]], hashB[p[2]])} :
        \A p, q \in P : p = q \/ (p[1] < q[1] /\ p[2] < q[2])
                              \/ (q[1] < p[1] /\ q[2] < p[2])}

\* A pair is always taken when two frames are alike, without a look at what
\* else they are like.  Though that relation is not transitive, the table
\* holds the length of the longest sequence in common.
LongestInCommon ==
    \A j \in 0..Len(hashB) :
        row[j] = Max({Cardinality(P) : P \in Pairings(i1, j)})

=============================================================================
