----------------------------- MODULE MCLibrary ------------------------------
(***************************************************************************)
(* Small instances of Library: up to four files and two changes, slices    *)
(* for one to five threads, texts of up to twelve characters with K-grams   *)
(* of two in windows of four, lists of up to three points, videos of up to *)
(* fourteen frames with up to three peaks, lists of up to three frames.    *)
(***************************************************************************)
EXTENDS Library

MCDots == {1, 2}
MCFile == 3..6
MCPicture == 3..5
MCLocked == {5}
MCThreadChoices == {0, 1, 3, 4}

MCFold == [c \in {"a", "B", "."} |->
              CASE c = "a" -> "a" [] c = "B" -> "b" [] c = "." -> "skipped"]
MCNumber == [c \in {"a", "b"} |-> IF c = "a" THEN 1 ELSE 6]
MCKey == [c \in {"a", "b"} |-> [b \in 0..2 |-> (MCNumber[c] \div 2 ^ b) % 2]]
MCText ==
    BoundedSeq(DOMAIN MCFold, 8) \cup UNION {[1..n -> {"a", "B"}] : n \in {9, 12}}

MCPoints ==
    {[p \in DOMAIN l |-> [hash |-> l[p], index |-> 4 * p]] : l \in BoundedSeq(1..3, 3)}

\* Peaks over a still ground, or one that flickers.
Peaks(n, height) ==
    {[f \in 0..(n - 1) |-> IF f \in P THEN height ELSE (f * ground) % 2] :
        P \in UNION {kSubset(m, 0..(n - 1)) : m \in 0..Min({3, n})}, ground \in 0..1}
Seen(n, r, d, there) ==
    [frames |-> n, rate |-> r, dist |-> d, stored |-> there]
Still == {Seen(14, 1, d, 14) : d \in Peaks(14, 9)}
Short ==
    UNION {{Seen(n, 2, d, n + more) : d \in Peaks(n, 9), more \in {0, 2}} : n \in 0..5}
Cut == {Seen(9, 3, d, 2) : d \in Peaks(4, 9)}
Useless == {Seen(n, r, <<>>, 2) : n \in {-1, 4}, r \in {-1, 0}}
MCVideo == Still \cup Short \cup Cut \cup Useless

MCFrames == BoundedSeq(1..3, 3)
MCAlike(a, b) == a - b \in -1..1

=============================================================================
