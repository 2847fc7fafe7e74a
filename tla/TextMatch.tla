----------------------------- MODULE TextMatch ------------------------------
(***************************************************************************)
(* ph_compare_text_hashes (pHash/pHash.cpp): every pair of equal points of *)
(* two texts is recorded with the length of the run that begins there, in  *)
(* an array with room for as many matches as the longer text has points.   *)
(* What is recorded of the pair are the positions of the points in the two *)
(* lists, counted from 1 here, though pHash.h calls the fields offsets     *)
(* into the files: those would be the index fields of the points.          *)
(*                                                                         *)
(* Writing past that array ends the model ("undefined").                   *)
(***************************************************************************)
EXTENDS Integers, Sequences, FiniteSetsExt, Functions

CONSTANT Points   \* the lists of points

\* TxtHashPoint; index is the position of the hash in its file.
TxtPoint == [hash : Nat, index : Nat]

ASSUME PointsAssumption == \A l \in Points : l \in Seq(TxtPoint)

VARIABLES hash1, hash2, pcM, i, j, matches

matchVars == <<hash1, hash2, pcM, i, j, matches>>

\* The call, with hash1 and hash2 chosen.
MatchBegins ==
    /\ pcM = "compare"
    /\ i = 1
    /\ j = 1
    /\ matches = <<>>

\* Mutant of MaxMatches: the shorter list is taken for the longer.
MinMatches == Min({Len(hash1), Len(hash2)})

\* The array has room for so many.
MaxMatches == Max({Len(hash1), Len(hash2)})

\* The loop goes on while both lists have a next point and these are equal.
Length(a, b) ==
    LET more[k \in Nat] ==
            IF /\ a + k <= Len(hash1)
               /\ b + k <= Len(hash2)
               /\ hash1[a + k].hash = hash2[b + k].hash
            THEN 1 + more[k + 1]
            ELSE 0
    IN 1 + more[1]

\* Mutant of Match: the next point of the first list is taken at once.
MatchOnce ==
    /\ pcM = "compare"
    /\ i <= Len(hash1)
    /\ j <= Len(hash2)
    /\ hash1[i].hash = hash2[j].hash
    /\ matches' = Append(matches, [first_index |-> i, second_index |-> j,
                                   length |-> Length(i, j)])
    /\ pcM' = IF Len(matches) = MaxMatches THEN "undefined" ELSE "compare"
    /\ i' = i + 1
    /\ j' = 1
    /\ UNCHANGED <<hash1, hash2>>

Match ==
    /\ pcM = "compare"
    /\ i <= Len(hash1)
    /\ j <= Len(hash2)
    /\ hash1[i].hash = hash2[j].hash
    /\ matches' = Append(matches, [first_index |-> i, second_index |-> j,
                                   length |-> Length(i, j)])
    /\ pcM' = IF Len(matches) = MaxMatches THEN "undefined" ELSE "compare"
    /\ j' = j + 1
    /\ UNCHANGED <<hash1, hash2, i>>

NoMatch ==
    /\ pcM = "compare"
    /\ i <= Len(hash1)
    /\ j <= Len(hash2)
    /\ hash1[i].hash # hash2[j].hash
    /\ j' = j + 1
    /\ UNCHANGED <<hash1, hash2, pcM, i, matches>>

NextRow ==
    /\ pcM = "compare"
    /\ i <= Len(hash1)
    /\ j > Len(hash2)
    /\ i' = i + 1
    /\ j' = 1
    /\ UNCHANGED <<hash1, hash2, pcM, matches>>

MatchEnds ==
    /\ pcM = "compare"
    /\ i > Len(hash1)
    /\ pcM' = "done"
    /\ UNCHANGED <<hash1, hash2, i, j, matches>>

MatchStep == Match \/ NoMatch \/ NextRow \/ MatchEnds

-----------------------------------------------------------------------------
Pairs ==
    {p \in (1..Len(hash1)) \X (1..Len(hash2)) : hash1[p[1]].hash = hash2[p[2]].hash}

SameRun(a, b, l) ==
    /\ a + l - 1 <= Len(hash1)
    /\ b + l - 1 <= Len(hash2)
    /\ \A k \in 0..(l - 1) : hash1[a + k].hash = hash2[b + k].hash

\* Every pair of equal points is found once, by its positions in the two lists,
\* with the longest run that begins there.  That the positions are in the lists,
\* and not in the files as pHash.h has it, is what the code does.
MatchesAreRuns ==
    /\ pcM = "done" =>
         {<<m.first_index, m.second_index>> : m \in Range(matches)} = Pairs
    /\ \A p, q \in DOMAIN matches :
         LET m == matches[p]
         IN /\ SameRun(m.first_index, m.second_index, m.length)
            /\ ~SameRun(m.first_index, m.second_index, m.length + 1)
            /\ p # q => \/ m.first_index # matches[q].first_index
                       \/ m.second_index # matches[q].second_index

Hashes(points) == [p \in DOMAIN points |-> points[p].hash]

\* The array is left exactly when there are more pairs than the longer list has
\* points.  Both texts repeat a point then: with no repetition in one of them
\* every point of the other is matched once at most.
RoomForMatches ==
    /\ pcM = "undefined" => /\ Cardinality(Pairs) > MaxMatches
                            /\ ~IsInjective(Hashes(hash1))
                            /\ ~IsInjective(Hashes(hash2))
    /\ pcM = "done" => Cardinality(Pairs) <= MaxMatches

=============================================================================
